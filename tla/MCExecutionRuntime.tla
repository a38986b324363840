------------------------- MODULE MCExecutionRuntime -------------------------
(* Two processes that work on an execution one after the other. *)
EXTENDS ExecutionRuntime, TLC

MCActions == {"edit_for_review_comment", "run_validation", "resolve_review_thread",
              "delete_file", "pr_create"}

\* BUILTIN_ACTION_RELATIONSHIPS of a review edit that is marked validated.
MCFollowUps ==
    [a \in MCActions |-> IF a = "edit_for_review_comment"
                         THEN {"run_validation", "resolve_review_thread"} ELSE {}]

\* validate_proposal: a thread is resolved after the validation.
MCPrerequisite ==
    [a \in MCActions |-> IF a = "resolve_review_thread" THEN {"run_validation"} ELSE {}]

MCSymmetry == Permutations(Runtimes)
=============================================================================
