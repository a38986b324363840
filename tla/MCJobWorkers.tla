---------------------------- MODULE MCJobWorkers ----------------------------
(* Worker ownership on a small instance. *)
EXTENDS JobWorkers, TLC

Symmetric == Permutations(Workers) \cup Permutations(Supervisors)
=============================================================================
