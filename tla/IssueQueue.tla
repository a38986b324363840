------------------------------ MODULE IssueQueue ------------------------------
(***************************************************************************)
(* The GitHub issue queue (workrr/github_issue_queue.py): sessions of        *)
(* run_worker_once and continue_manual_prerequisite_issue, which the worker  *)
(* lock serialises, the commands that take no lock, the reviewers, and the   *)
(* faults a session can meet between two GitHub calls.                       *)
(***************************************************************************)
EXTENDS PlanRepair

VARIABLES
    local,        \* local[i]: kind of the local task checkpoint of i
    command,      \* the command that runs without the lock
    tasks,        \* tasks finished so far
    commands,     \* commands started so far
    done,         \* history: items whose work was accepted
    dropped       \* history: issues whose pending label such a command erased

effort == <<tasks, commands>>
outside == <<local, command, done, dropped, effort>>
vars == <<issue, comments, pr, session, faults, outside>>

NoCommand == [op |-> "none", item |-> NoItem, status |-> "none", label |-> FALSE]

\* publish_plan_issues, complete: an item without dependencies is ready.
Init ==
    /\ issue = [i \in Items |->
                  IF i \in Published
                  THEN [state |-> "open", label |-> FALSE, rev |-> 0,
                        status |-> IF Deps[0][i] = {} THEN "ready" ELSE "blocked_on_dependency"]
                  ELSE Absent]
    /\ pending = [i \in Items |-> [r \in Repairs |-> NoPending]]
    /\ resolved = [i \in Items |-> {}]
    /\ reconciled = [i \in Items |-> {}]
    /\ digests = [i \in Items |-> {}]
    /\ published = [i \in Items |-> NoPR]
    /\ pr = [r \in Repairs |-> "none"]
    /\ pc = "idle" /\ ctx = "start" /\ kind = "none" /\ rc = 0
    /\ rep = NoPR /\ found = {} /\ todo = {} /\ cur = NoItem /\ status = "none"
    /\ seen = [i \in Items |-> Absent]
    /\ faults = 0
    /\ item = NoItem /\ resumed = FALSE /\ base = 0
    /\ local = [i \in Items |-> "none"]
    /\ command = NoCommand
    /\ tasks = 0 /\ commands = 0
    /\ done = {} /\ dropped = {}

-----------------------------------------------------------------------------
(* run_worker_once, up to the claim.                                         *)

StartWorker ==
    /\ pc = "idle"
    /\ Goto("requeue")
    /\ UNCHANGED <<issue, comments, pr, loop, faults, outside>>

\* _promote_unblocked_issues.
Promote ==
    /\ pc = "promote"
    /\ seen' = issue
    /\ todo' = {i \in Items : issue[i].state = "open" /\ issue[i].status = "blocked_on_dependency"}
    /\ Goto("promoting")
    /\ UNCHANGED <<issue, comments, pr, rep, found, cur, status, faults, outside>>

PromoteIssue(i) ==
    /\ pc = "promoting"
    /\ i \in todo
    /\ \A j \in todo : i <= j
    /\ IF DependenciesClosed(i, seen[i].rev)
       THEN SetLabels(i, "ready", seen[i].label)
       ELSE UNCHANGED issue
    /\ todo' = todo \ {i}
    /\ Goto("promoting")
    /\ UNCHANGED <<comments, pr, rep, found, cur, seen, status, faults, outside>>

ListReady ==
    /\ pc = "promoting"
    /\ todo = {}
    /\ seen' = issue
    /\ todo' = {i \in Items : issue[i].state = "open" /\ issue[i].status = "ready"}
    /\ Goto("select")
    /\ UNCHANGED <<issue, comments, pr, rep, found, cur, status, faults, outside>>

\* The lowest-numbered ready issue: sent back if a dependency is open.
Demote(i) ==
    /\ pc = "select"
    /\ i \in todo
    /\ \A j \in todo : i <= j
    /\ ~DependenciesClosed(i, seen[i].rev)
    /\ SetLabels(i, "blocked_on_dependency", seen[i].label)
    /\ todo' = todo \ {i}
    /\ Goto("select")
    /\ UNCHANGED <<comments, pr, rep, found, cur, seen, status, faults, outside>>

\* The issue is listed again before it is claimed; if it is no longer ready
\* the generator is exhausted and the session dies of StopIteration.
Select(i) ==
    /\ pc = "select"
    /\ i \in todo
    /\ \A j \in todo : i <= j
    /\ DependenciesClosed(i, seen[i].rev)
    /\ IF issue[i].state = "open" /\ issue[i].status = "ready"
       THEN /\ pc' = "claimRead" /\ cur' = i /\ base' = seen[i].rev
            /\ UNCHANGED <<ctx, kind, rc, item, resumed, rep, found, todo, seen, status>>
       ELSE Raised
    /\ UNCHANGED <<issue, comments, pr, faults, outside>>

NothingReady ==
    /\ pc = "select"
    /\ todo = {}
    /\ EndSession
    /\ UNCHANGED <<issue, comments, pr, faults, outside>>

ClaimRead ==
    /\ pc = "claimRead"
    /\ seen' = [seen EXCEPT ![cur] = issue[cur]]
    /\ Goto("claim")
    /\ UNCHANGED <<issue, comments, pr, rep, found, todo, cur, status, faults, outside>>

Claim ==
    /\ pc = "claim"
    /\ SetLabels(cur, "claimed", seen[cur].label)
    /\ item' = cur
    /\ pc' = "claimed"
    /\ UNCHANGED <<comments, pr, ctx, kind, rc, loop, faults, resumed, base, outside>>

\* The plan adjustments or the workflow definition are invalid.
RejectClaim ==
    /\ pc = "claimed"
    /\ SetLabels(item, "blocked", seen[item].label)
    /\ EndSession
    /\ UNCHANGED <<comments, pr, faults, outside>>

RunTask ==
    /\ pc = "claimed"
    /\ pc' = "run" /\ ctx' = "task"
    /\ Forget
    /\ UNCHANGED <<issue, comments, pr, kind, rc, faults, worker, outside>>

\* continue_manual_prerequisite_issue, once the staged PR's checks pass.  The
\* issue stays awaiting_human while the workflow runs.
StartContinue(i) ==
    /\ pc = "idle"
    /\ issue[i].state = "open" /\ issue[i].status = "awaiting_human"
    /\ local[i] = "manual"
    /\ pc' = "run" /\ ctx' = "task" /\ kind' = "none" /\ rc' = 0
    /\ item' = i /\ resumed' = TRUE /\ base' = issue[i].rev
    /\ UNCHANGED <<issue, comments, pr, loop, faults, outside>>

-----------------------------------------------------------------------------
(* run_task: every finished task is persisted by the checkpoint callback.    *)

FinishTask(k) ==
    /\ pc = "run"
    /\ tasks < MaxTasks
    /\ tasks' = tasks + 1
    /\ kind' = k
    /\ pc' = "check"
    /\ UNCHANGED <<issue, comments, pr, ctx, rc, loop, faults, worker, local, command, commands, done,
                   dropped>>

\* The task found the plan wrong and opened a repair PR.
OpenRepair(r) ==
    /\ pc = "run"
    /\ pr[r] = "none"
    /\ tasks < MaxTasks
    /\ tasks' = tasks + 1
    /\ pr' = [pr EXCEPT ![r] = "open"]
    /\ rep' = r
    /\ kind' = "repair"
    /\ pc' = "check"
    /\ UNCHANGED <<issue, comments, ctx, rc, found, todo, cur, seen, status, faults, worker, local,
                   command, commands, done, dropped>>

\* Mutant: a checkpoint is written whatever is pending.
NeverPause ==
    /\ pc = "check"
    /\ Goto(IF kind = "repair" THEN "mark" ELSE "local")
    /\ UNCHANGED <<issue, comments, pr, loop, faults, outside>>

\* A workflow pauses at a checkpoint while a repair of its item is pending.
CheckRepair ==
    /\ pc = "check"
    /\ IF Active(item) # {}
       THEN Raised
       ELSE Goto(IF kind = "repair" THEN "mark" ELSE "local") /\ UNCHANGED loop
    /\ UNCHANGED <<issue, comments, pr, faults, outside>>

WriteLocal ==
    /\ pc = "local"
    /\ local' = [local EXCEPT ![item] = IF kind = "repair" THEN "pr" ELSE kind]
    /\ Goto("comment")
    /\ UNCHANGED <<issue, comments, pr, loop, faults, command, effort, done, dropped>>

\* A resumed workflow looks for the digest in the prerequisite it resumes,
\* which has none.
CheckpointDigest == IF resumed THEN NoDigest ELSE Contract[base][item]

PostCheckpoint ==
    /\ pc = "comment"
    /\ digests' = [digests EXCEPT ![item] = @ \cup {CheckpointDigest}]
    /\ published' = [published EXCEPT ![item] =
                       CASE kind = "repair" -> rep [] kind = "pr" -> ImplPR [] OTHER -> @]
    /\ pc' = "requeue" /\ kind' = "none"
    /\ UNCHANGED <<issue, pending, resolved, reconciled, pr, ctx, rc, loop, faults, worker, outside>>

TaskReturns ==
    /\ pc = "run"
    /\ rc' \in {0, 1}
    /\ pc' = "outcome" /\ ctx' = "end"
    /\ UNCHANGED <<issue, comments, pr, kind, loop, faults, worker, outside>>

-----------------------------------------------------------------------------
(* The outcome of the session and its one final status.                      *)

\* _observe_required_ci_outcome: nothing but blocked without a PR to look at.
CiOutcomes ==
    IF resumed \/ local[item] = "pr" \/ published[item] # NoPR
    THEN {"awaiting_review", "awaiting_ci", "blocked"}
    ELSE {"blocked"}

Outcomes ==
    IF resumed
    THEN IF Active(item) # {} THEN {"blocked"}
         ELSE IF local[item] = "manual" THEN {"awaiting_human"}
         ELSE IF rc = 0 THEN CiOutcomes ELSE {"blocked"}
    ELSE IF rc # 0 THEN {"blocked"}
         ELSE IF local[item] = "manual" THEN {"awaiting_human"} ELSE CiOutcomes

Outcome ==
    /\ pc = "outcome"
    /\ status' \in Outcomes
    /\ seen' = [seen EXCEPT ![item] = issue[item]]
    /\ Goto("final")
    /\ UNCHANGED <<issue, comments, pr, rep, found, todo, cur, faults, outside>>

\* Mutant: the labels of the claim are written again, with the new status.
FinalStatusOfClaim ==
    /\ pc = "final"
    /\ SetLabels(item, status, FALSE)
    /\ Goto("refresh")
    /\ UNCHANGED <<comments, pr, loop, faults, outside>>

FinalStatus ==
    /\ pc = "final"
    /\ SetLabels(item, status, seen[item].label)
    /\ Goto("refresh")
    /\ UNCHANGED <<comments, pr, loop, faults, outside>>

\* Mutant: the pending comment keeps the status the issue had before.
KeepPriorState ==
    /\ pc = "refresh"
    /\ Goto("requeue")
    /\ Forget
    /\ UNCHANGED <<issue, comments, pr, faults, outside>>

\* _refresh_pending_repair_prior_state.  The read of the issue and the comment
\* that follows are one step: whoever may change the issue in between (commands
\* without the lock, reviewers) neither reads nor writes the comment, so the
\* change might as well come after it.
Refresh ==
    /\ pc = "refresh"
    /\ pending' = [pending EXCEPT ![item] = [r \in Repairs |->
                     IF r \in Active(item)
                        /\ <<@[r].status, @[r].state>> # <<StatusOf(issue[item]), issue[item].state>>
                     THEN [status |-> StatusOf(issue[item]), state |-> issue[item].state,
                           rev |-> issue[item].rev]
                     ELSE @[r]]]
    /\ Goto("requeue")
    /\ Forget
    /\ UNCHANGED <<issue, resolved, reconciled, digests, published, pr, faults, outside>>

-----------------------------------------------------------------------------
(* Commands that take no lock: each reads the issue, calls GitHub, writes.   *)

Command(op, i, s) ==
    command' = [op |-> op, item |-> i, status |-> s, label |-> issue[i].label]

\* continue_awaiting_ci_issue: the checks are observed, the issue is read.
StartRefreshCi(i) ==
    /\ command = NoCommand /\ commands < MaxCommands
    /\ commands' = commands + 1
    /\ issue[i].state = "open" /\ issue[i].status = "awaiting_ci"
    /\ published[i] # NoPR
    /\ Command("observe", i, "none")
    /\ UNCHANGED <<issue, comments, pr, session, faults, local, tasks, done, dropped>>

ObserveCi ==
    /\ command.op = "observe"
    /\ \E s \in {"awaiting_review", "awaiting_ci", "blocked"} : Command("ci", command.item, s)
    /\ UNCHANGED <<issue, comments, pr, session, faults, local, effort, done, dropped>>

\* fulfill_issue_without_pr: the label set is computed before the comment.
StartFulfil(i) ==
    /\ command = NoCommand /\ commands < MaxCommands
    /\ commands' = commands + 1
    /\ Exists(i) /\ i \notin done
    /\ Command("fulfil", i, "none")
    /\ UNCHANGED <<issue, comments, pr, session, faults, local, tasks, done, dropped>>

FinishCommand ==
    /\ command.op \in {"ci", "fulfil"}
    /\ LET i == command.item
       IN /\ issue' = [issue EXCEPT ![i].status = command.status, ![i].label = command.label,
                                    ![i].state = IF command.op = "fulfil" THEN "closed" ELSE @]
          /\ done' = IF command.op = "fulfil" THEN done \cup {i} ELSE done
          /\ dropped' = IF issue[i].label /\ ~command.label THEN dropped \cup {i} ELSE dropped
    /\ command' = NoCommand
    /\ UNCHANGED <<comments, pr, session, faults, local, effort>>

-----------------------------------------------------------------------------
(* Reviewers, on GitHub.                                                     *)

\* "Close an issue after its implementation PR is merged."
CloseIssue(i) ==
    /\ issue[i].state = "open" /\ published[i] = ImplPR
    /\ issue' = [issue EXCEPT ![i].state = "closed"]
    /\ done' = done \cup {i}
    /\ UNCHANGED <<comments, pr, session, faults, local, command, effort, dropped>>

\* Blocked work is retried once its cause is resolved, and a claim whose
\* worker is gone.
RetryIssue(i) ==
    /\ issue[i].state = "open"
    /\ \/ issue[i].status = "blocked" /\ ~issue[i].label
       \/ issue[i].status = "claimed" /\ (pc = "idle" \/ item # i)
    /\ issue' = [issue EXCEPT ![i].status = "ready"]
    /\ UNCHANGED <<comments, pr, session, faults, outside>>

DecideRepair(r) ==
    /\ pr[r] = "open"
    /\ \E s \in {"merged", "closed"} : pr' = [pr EXCEPT ![r] = s]
    /\ UNCHANGED <<issue, comments, session, faults, outside>>

-----------------------------------------------------------------------------
(* Faults: a GitHub call fails, after or without its effect; the process is  *)
(* killed, which frees its lock.                                             *)

CallFails ==
    /\ pc \notin {"idle", "run"}
    /\ faults < MaxFaults
    /\ faults' = faults + 1
    /\ Raised
    /\ UNCHANGED <<issue, comments, pr, outside>>

Killed ==
    /\ pc # "idle"
    /\ faults < MaxFaults
    /\ faults' = faults + 1
    /\ EndSession
    /\ UNCHANGED <<issue, comments, pr, outside>>

-----------------------------------------------------------------------------
Requeuing == RepairStep /\ UNCHANGED outside

\* What the session does by itself once it has started, but for the tasks.
Step ==
    \/ Requeuing
    \/ Promote \/ ListReady \/ NothingReady \/ ClaimRead \/ Claim \/ RejectClaim \/ RunTask
    \/ CheckRepair \/ WriteLocal \/ PostCheckpoint \/ Outcome \/ FinalStatus \/ Refresh
    \/ \E i \in Items : PromoteIssue(i) \/ Demote(i) \/ Select(i)

Unlocked ==
    \/ ObserveCi \/ FinishCommand
    \/ \E i \in Items : StartRefreshCi(i) \/ StartFulfil(i)

Reviewers ==
    \/ \E i \in Items : CloseIssue(i) \/ RetryIssue(i)
    \/ \E r \in Repairs : DecideRepair(r)

Next ==
    \/ StartWorker \/ Step \/ TaskReturns
    \/ \E i \in Items : StartContinue(i)
    \/ \E k \in {"plain", "pr", "manual"} : FinishTask(k)
    \/ \E r \in Repairs : OpenRepair(r)
    \/ Unlocked \/ Reviewers \/ CallFails \/ Killed

Spec == Init /\ [][Next]_vars

\* The worker is run again and again, a session keeps going, and a workflow
\* has finitely many tasks.  Reviewers and commands owe nothing.
FairSpec ==
    /\ Spec
    /\ SF_vars(StartWorker)
    /\ WF_vars(Step)
    /\ SF_vars(TaskReturns)
-----------------------------------------------------------------------------
RepairPC == {"mark", "markNote", "markLabel", "restore", "restoreLabel", "reconcile", "item",
             "pointer", "recompute", "requeueLabel", "reconciledNote", "resolve", "resolveNote",
             "clearRead", "clear"}

PC == RepairPC \cup
      {"idle", "requeue", "repair", "promote", "promoting", "select", "claimRead", "claim",
       "claimed", "run", "check", "local", "comment", "outcome", "final", "refresh"}

\* Types, and that the loops of a session stay on issues and repairs.
TypeOK ==
    /\ issue \in [Items -> Issue]
    /\ pending \in [Items -> [Repairs -> Pending]]
    /\ resolved \in [Items -> SUBSET Repairs]
    /\ reconciled \in [Items -> SUBSET Repairs]
    /\ digests \in [Items -> SUBSET Nat]
    /\ published \in [Items -> Repairs \cup {NoPR, ImplPR}]
    /\ pr \in [Repairs -> {"none", "open", "merged", "closed"}]
    /\ pc \in PC /\ ctx \in {"start", "task", "end"}
    /\ kind \in {"none", "plain", "pr", "manual", "repair"} /\ rc \in {0, 1}
    /\ rep \in Repairs \cup {NoPR} /\ found \subseteq Repairs
    /\ todo \subseteq Items /\ cur \in Items \cup {NoItem}
    /\ seen \in [Items -> Issue] /\ status \in Status
    /\ faults \in 0..MaxFaults
    /\ item \in Items \cup {NoItem} /\ resumed \in BOOLEAN /\ base \in Revisions
    /\ local \in [Items -> {"none", "plain", "pr", "manual"}]
    /\ command.item \in Items \cup {NoItem} /\ command.status \in Status
    /\ command.label \in BOOLEAN /\ command.op \in {"none", "observe", "ci", "fulfil"}
    /\ tasks \in 0..MaxTasks /\ commands \in 0..MaxCommands
    /\ done \subseteq Items /\ dropped \subseteq Items

\* A task never runs on work that is not there: while run_worker_once runs an
\* item, each of its dependencies was completed by a merge or a fulfilment,
\* and not merely closed because a repair superseded it.
DependenciesDone ==
    pc # "idle" /\ ctx = "task" /\ ~resumed => Deps[base][item] \subseteq done

\* An issue is blocked by one repair at a time, so the last unresolved pending
\* comment, which is all that _active_plan_repair_pending returns, is the only
\* one.
OneActiveRepair == \A i \in Items : Cardinality(Active(i)) <= 1

\* The local task checkpoint and the checkpoint comments of an item do not
\* move while a repair of it is pending, except to record the repair itself.
NoCheckpointUnderRepair ==
    [][\A i \in Items :
         local'[i] # local[i] \/ digests'[i] # digests[i] => Active(i) = {} \/ kind = "repair"]_vars

\* No session takes up work under a pending repair, unless a command that takes
\* no lock has erased the pending label (the requeue that run_worker_once starts
\* with marks what it finds before anything is claimed).
NotTakenUnderRepair ==
    [][item' # item /\ item' # NoItem /\ faults = 0
         => Active(item') = {} \/ item' \in dropped]_vars

\* Between sessions an open issue under a pending repair carries the label by
\* which the next session finds the repair: no session loses it by writing the
\* labels it read before.
PendingLabelStays ==
    pc = "idle" /\ faults = 0 =>
        \A i \in Items \ dropped : issue[i].state = "open" /\ Active(i) # {} => issue[i].label

\* Between sessions, work that waits for a human can be continued: the local
\* checkpoint of its manual prerequisite is there.
AwaitingHumanResumable ==
    pc = "idle" /\ faults = 0 =>
        \A i \in Items :
            issue[i].state = "open" /\ issue[i].status = "awaiting_human" => local[i] = "manual"

\* A requeue finds repair r through a labelled issue.
Discoverable(r) == r \in Discovered

Applied(r) ==
    \A i \in Affected[r] :
        Exists(i) => r \in reconciled[i] /\ (issue[i].state = "open" => r \notin Active(i))

LetGo(r) == \A i \in Items : r \notin Active(i)

\* A merged repair that a session can find is applied to every issue it
\* affects, and lets go of the open ones, although one call fails or one
\* process is killed on the way (_reconcile_merged_plan_repair).
MergedRepairSettles ==
    \A r \in Repairs : pr[r] = "merged" /\ Discoverable(r) ~> Applied(r)

\* A repair that was closed unmerged lets go of every issue if nothing fails
\* (_restore_closed_plan_repair).
ClosedRepairRestores ==
    \A r \in Repairs : pr[r] = "closed" /\ Discoverable(r) ~> LetGo(r) \/ faults > 0

\* A decided repair lets go of every issue, whatever fails on the way: a later
\* session resumes what an earlier one left undone.
RepairLetsGo ==
    \A r \in Repairs : pr[r] \in {"merged", "closed"} /\ Discoverable(r) ~> LetGo(r)
=============================================================================
