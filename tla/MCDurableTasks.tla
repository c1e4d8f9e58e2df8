---------------------------- MODULE MCDurableTasks ----------------------------
(* Instances of DurableTasks for TLC. *)
EXTENDS DurableTasks, TLC

\* Tasks, workers and sweepers are interchangeable in the safety runs.
Symmetry == Permutations(Tasks) \cup Permutations(Workers) \cup Permutations(Sweepers)
=============================================================================
