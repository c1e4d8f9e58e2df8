------------------------------ MODULE MCEventTail ------------------------------
(* Instances of EventTail for TLC. *)
EXTENDS EventTail, TLC

\* Readers, threads and transactions are interchangeable in the safety runs.
Symmetry == Permutations(Readers) \cup Permutations(Threads) \cup Permutations(Writers)
===============================================================================
