-------------------------- MODULE MCExecutionStore --------------------------
(* ExecutionStore on two processes.  The first may find the execution not   *)
(* yet created; the second joins once it exists.                            *)
EXTENDS ExecutionStore, TLC

CONSTANTS w1, w2

=============================================================================
