------------------------------- MODULE MCJobs -------------------------------
(* Jobs and their dependencies on a small instance; jobs and clients are   *)
(* interchangeable.                                                        *)
EXTENDS Jobs, TLC

Symmetric == Permutations(JobIds) \cup Permutations(Clients)
=============================================================================
