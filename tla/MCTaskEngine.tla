--------------------------- MODULE MCTaskEngine ---------------------------
(* TaskEngine on small instances; workers are interchangeable, and so are tasks. *)
EXTENDS TaskEngine, TLC

Symmetry == Permutations(Workers) \cup Permutations(Tasks)
=============================================================================
