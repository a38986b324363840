------------------------------ MODULE PlanRepair ------------------------------
(***************************************************************************)
(* Plan repairs on the GitHub issue queue (workrr/github_issue_queue.py).   *)
(*                                                                         *)
(* Every item of a reviewed plan has one GitHub issue.  A worker that finds *)
(* the plan wrong opens a repair PR; until the PR is decided, the issues it *)
(* affects are blocked and carry a pending comment and a pending label.     *)
(* _requeue_merged_plan_amendments finds undecided repairs through that     *)
(* label and marks, restores or reconciles the affected issues, one GitHub  *)
(* call at a time.  This module holds the issues and that machinery; the    *)
(* sessions that call it are in IssueQueue.                                 *)
(*                                                                         *)
(* An issue is its state, its one queue label (status), the label           *)
(* powdrr:plan-repair-pending and the plan revision its body points to.     *)
(* Comments are what the code reads back from them.  A label update sends   *)
(* the whole label set, computed from an earlier read: the read is kept in  *)
(* `seen` and every write is computed from it.                              *)
(***************************************************************************)
EXTENDS Naturals, FiniteSets

CONSTANTS
    Items,        \* plan items, by the number of their issue
    Published,    \* the items of the plan as first published
    Repairs,      \* repair PRs, by number
    Affected,     \* Affected[r]: affected_item_ids of repair r
    Superseded,   \* Superseded[r]: the items r retires in favour of others
    Deps,         \* Deps[v][i]: dependencies of item i in plan revision v
    Contract,     \* Contract[v][i]: input contract digest of i in revision v
    ImplPR,       \* the PR number that stands for any implementation PR
    MaxFaults,    \* bound: API calls that fail and processes killed
    MaxTasks,     \* bound: tasks that finish
    MaxCommands   \* bound: commands that run without the worker lock

\* The digest of a checkpoint that records none, and no PR or issue at all.
NoDigest == 0
NoPR == 0
NoItem == 0

\* Plan revisions: the published one and the merge commit of each repair.
Revisions == {0} \cup Repairs

ASSUME PlanAssumption ==
    /\ Items \subseteq Nat \ {0}
    /\ Repairs \subseteq Nat \ {0}
    /\ IsFiniteSet(Items) /\ IsFiniteSet(Repairs)
    /\ Published \subseteq Items
    /\ Affected \in [Repairs -> SUBSET Items]
    /\ Superseded \in [Repairs -> SUBSET Items]
    /\ Deps \in [Revisions -> [Items -> SUBSET Items]]
    /\ Contract \in [Revisions -> [Items -> Nat \ {0}]]
    /\ ImplPR \in Nat \ Revisions
    /\ MaxFaults \in Nat /\ MaxTasks \in Nat /\ MaxCommands \in Nat

VARIABLES
    issue,        \* the issues on GitHub
    pending,      \* pending[i][r]: latest pending comment of repair r on i
    resolved,     \* resolved[i]: repairs with a resolved comment on i
    reconciled,   \* reconciled[i]: repairs with a reconciled comment on i
    digests,      \* digests[i]: input contract digests of i's task checkpoints
    published,    \* published[i]: PR of i's latest completed checkpoint
    pr,           \* state of each repair PR
    pc,           \* where the session that holds the worker lock is
    ctx,          \* part of the session: before, in or after run_task
    kind,         \* the checkpoint run_task is persisting, if any
    rep,          \* repair being handled
    found,        \* repairs the requeue still has to handle
    todo,         \* issues the current loop still has to handle
    cur,          \* issue the current loop handles
    seen,         \* issues as last read by the session
    status,       \* queue status about to be written
    rc,           \* return code of run_task
    item,         \* item the session works on
    resumed,      \* the session is continue_manual_prerequisite_issue
    base,         \* plan revision the session loaded
    faults        \* failed calls and killed processes so far

comments == <<pending, resolved, reconciled, digests, published>>
loop == <<rep, found, todo, cur, seen, status>>
worker == <<item, resumed, base>>
session == <<pc, ctx, kind, rc, loop, worker>>

Status == {"ready", "claimed", "awaiting_review", "awaiting_human", "awaiting_ci",
           "blocked_on_dependency", "blocked", "none"}

Issue == [state : {"absent", "open", "closed"}, status : Status, label : BOOLEAN,
          rev : Revisions]

Absent == [state |-> "absent", status |-> "none", label |-> FALSE, rev |-> 0]

NoPending == [status |-> "none", state |-> "absent", rev |-> 0]

Pending == [status : Status, state : {"absent", "open", "closed"}, rev : Revisions]

-----------------------------------------------------------------------------
Exists(i) == issue[i].state # "absent"

\* _replace_queue_status on the labels of an earlier read.  update_issue sends
\* every label and leaves the state and the body alone.
SetLabels(i, s, l) == issue' = [issue EXCEPT ![i].status = s, ![i].label = l]

\* _active_plan_repair_pending: pending comments without a resolved comment.
\* The code takes the last one; OneActiveRepair shows there is at most one.
Active(i) == {r \in Repairs : pending[i][r] # NoPending /\ r \notin resolved[i]}

\* _dependency_is_closed in the index of issues that was read before.
DependenciesClosed(i, v) == \A d \in Deps[v][i] : seen[d].state = "closed"

\* Mutant: a status that is no queue status stands for a missing label.
UnknownStatus(row) == IF row.status = "none" THEN "unknown" ELSE row.status

StatusOf(row) == IF row.status = "none" THEN "blocked" ELSE row.status

\* The local variables of a requeue go out of scope.
Forget ==
    /\ rep' = NoPR
    /\ found' = {}
    /\ todo' = {}
    /\ cur' = NoItem
    /\ seen' = [i \in Items |-> Absent]
    /\ status' = "none"

Goto(p) == pc' = p /\ UNCHANGED <<ctx, kind, rc, worker>>

\* The session returns or dies, and the worker lock is free.
EndSession ==
    /\ pc' = "idle" /\ ctx' = "start" /\ kind' = "none" /\ rc' = 0
    /\ item' = NoItem /\ resumed' = FALSE /\ base' = 0
    /\ Forget

\* An exception leaves run_task as a failed run, which is then recorded, and
\* anything else as the end of the session.
Raised ==
    \/ /\ ctx = "task"
       /\ pc' = "outcome" /\ ctx' = "end" /\ kind' = "none" /\ rc' = 1
       /\ Forget
       /\ UNCHANGED worker
    \/ ctx # "task" /\ EndSession

-----------------------------------------------------------------------------
\* The repairs that labelled issues lead to: by the pending comment or, where
\* none is active, by the PR of the latest checkpoint.
Discovered ==
    {r \in Repairs : \E i \in Items :
        /\ issue[i].label
        /\ r \in Active(i) \/ (Active(i) = {} /\ published[i] = r)}

Requeue ==
    /\ pc = "requeue"
    /\ found' = Discovered
    /\ Goto("repair")
    /\ UNCHANGED <<issue, comments, pr, rep, todo, cur, seen, status, faults>>

\* The repairs are handled in the order of their numbers.
NextRepair(r) ==
    /\ pc = "repair"
    /\ r \in found
    /\ \A q \in found : r <= q
    /\ rep' = r
    /\ found' = found \ {r}
    /\ Goto(CASE pr[r] = "merged" -> "reconcile"
              [] pr[r] = "closed" -> "restore"
              [] OTHER -> "mark")
    /\ UNCHANGED <<issue, comments, pr, todo, cur, seen, status, faults>>

RequeueDone ==
    /\ pc = "repair"
    /\ found = {}
    /\ CASE ctx = "start" -> Goto("promote") /\ Forget
         [] ctx = "task" -> Goto("run") /\ Forget
         [] OTHER -> EndSession
    /\ UNCHANGED <<issue, comments, pr, faults>>

-----------------------------------------------------------------------------
(* _mark_plan_repair_pending: called by a requeue and by the checkpoint that *)
(* reports a new repair PR.                                                  *)

AffectedIssues == {i \in Affected[rep] : Exists(i)}

\* Mutant: an issue may be blocked by two repairs.
NoConflict == FALSE

MarkConflict == \E i \in AffectedIssues : Active(i) \ {rep} # {}

Mark ==
    /\ pc = "mark"
    /\ IF MarkConflict
       THEN Raised
       ELSE /\ Goto("markNote")
            /\ seen' = issue
            /\ todo' = AffectedIssues
            /\ UNCHANGED <<rep, found, cur, status>>
    /\ UNCHANGED <<issue, comments, pr, faults>>

MarkNote(i) ==
    /\ pc = "markNote"
    /\ i \in todo
    /\ cur' = i
    /\ pending' = IF rep \in Active(i) THEN pending
                  ELSE [pending EXCEPT ![i][rep] =
                          [status |-> StatusOf(seen[i]), state |-> seen[i].state,
                           rev |-> seen[i].rev]]
    /\ Goto("markLabel")
    /\ UNCHANGED <<issue, resolved, reconciled, digests, published, pr, rep, found, todo, seen,
                   status, faults>>

\* Mutant: the queue label is left alone.
MarkLabelOnly ==
    /\ pc = "markLabel"
    /\ IF seen[cur].state = "open" THEN SetLabels(cur, seen[cur].status, TRUE) ELSE UNCHANGED issue
    /\ todo' = todo \ {cur}
    /\ Goto("markNote")
    /\ UNCHANGED <<comments, pr, rep, found, cur, seen, status, faults>>

MarkLabel ==
    /\ pc = "markLabel"
    /\ IF seen[cur].state = "open" /\ (seen[cur].status # "blocked" \/ ~seen[cur].label)
       THEN SetLabels(cur, "blocked", TRUE)
       ELSE UNCHANGED issue
    /\ todo' = todo \ {cur}
    /\ Goto("markNote")
    /\ UNCHANGED <<comments, pr, rep, found, cur, seen, status, faults>>

MarkDone ==
    /\ pc = "markNote"
    /\ todo = {}
    /\ Goto(IF kind = "repair" THEN "local" ELSE "repair")
    /\ UNCHANGED <<issue, comments, pr, loop, faults>>

-----------------------------------------------------------------------------
(* _restore_closed_plan_repair: the PR was closed unmerged.                  *)

Restore ==
    /\ pc = "restore"
    /\ seen' = issue
    /\ todo' = AffectedIssues
    /\ Goto("restoreLabel")
    /\ UNCHANGED <<issue, comments, pr, rep, found, cur, status, faults>>

\* Mutant: a closed issue needs no resolved comment.
RestoreOpenOnly(i) ==
    /\ pc = "restoreLabel"
    /\ i \in todo
    /\ cur' = i
    /\ IF rep \in Active(i) /\ seen[i].state = "open" /\ seen[i].rev = pending[i][rep].rev
       THEN SetLabels(i, pending[i][rep].status, FALSE)
       ELSE UNCHANGED issue
    /\ Goto(IF rep \in Active(i) /\ seen[i].state = "open" THEN "resolveNote" ELSE "clearRead")
    /\ UNCHANGED <<comments, pr, rep, found, todo, seen, status, faults>>

RestoreLabel(i) ==
    /\ pc = "restoreLabel"
    /\ i \in todo
    /\ cur' = i
    /\ IF rep \in Active(i) /\ seen[i].state = "open" /\ seen[i].rev = pending[i][rep].rev
       THEN SetLabels(i, pending[i][rep].status, FALSE)
       ELSE UNCHANGED issue
    /\ Goto(IF rep \in Active(i) THEN "resolveNote" ELSE "clearRead")
    /\ UNCHANGED <<comments, pr, rep, found, todo, seen, status, faults>>

RestoreDone ==
    /\ pc = "restoreLabel"
    /\ todo = {}
    /\ Goto("repair")
    /\ UNCHANGED <<issue, comments, pr, loop, faults>>

-----------------------------------------------------------------------------
(* _reconcile_merged_plan_repair: the PR was merged.                         *)

\* The merged plan is loaded and the issues are listed.  The merged manifest is
\* the one the PR carried: a plan that differs raises at every session, and is
\* not modelled; a failing check of the merge commit is CallFails.
Reconcile ==
    /\ pc = "reconcile"
    /\ seen' = issue
    /\ todo' = Affected[rep]
    /\ Goto("item")
    /\ UNCHANGED <<issue, comments, pr, rep, found, cur, status, faults>>

\* An affected item without an issue gets one, unless it is superseded.
CreateIssue(i) ==
    /\ pc = "item"
    /\ i \in todo \ Superseded[rep]
    /\ seen[i].state = "absent"
    /\ cur' = i
    /\ issue' = [issue EXCEPT ![i] =
                   [state |-> "open", label |-> FALSE, rev |-> rep,
                    status |-> IF Deps[rep][i] = {} THEN "ready" ELSE "blocked_on_dependency"]]
    /\ seen' = [seen EXCEPT ![i] = issue'[i]]
    /\ Goto("pointer")
    /\ UNCHANGED <<comments, pr, rep, found, todo, status, faults>>

\* (repair_id, item_id, merge_commit) is the key: a row is reconciled once.
ReconcileItem(i) ==
    /\ pc = "item"
    /\ i \in todo
    /\ seen[i].state # "absent"
    /\ rep \notin reconciled[i]
    /\ cur' = i
    /\ Goto("pointer")
    /\ UNCHANGED <<issue, comments, pr, rep, found, todo, seen, status, faults>>

SkipItem(i) ==
    /\ pc = "item"
    /\ i \in todo
    /\ rep \in reconciled[i] \/ (seen[i].state = "absent" /\ i \in Superseded[rep])
    /\ todo' = todo \ {i}
    /\ Goto("item")
    /\ UNCHANGED <<issue, comments, pr, rep, found, cur, seen, status, faults>>

\* Mutant: the issue keeps its pointer to the old plan revision.
KeepPointer ==
    /\ pc = "pointer"
    /\ cur \notin Superseded[rep]
    /\ Goto("recompute")
    /\ UNCHANGED <<issue, comments, pr, loop, faults>>

\* The new pointer, or the end of a superseded item: it loses its queue label
\* and keeps the pending label, by which a retry still finds the repair.
Repoint ==
    /\ pc = "pointer"
    /\ cur \notin Superseded[rep]
    /\ issue' = [issue EXCEPT ![cur].rev = rep]
    /\ Goto("recompute")
    /\ UNCHANGED <<comments, pr, loop, faults>>

Supersede ==
    /\ pc = "pointer"
    /\ cur \in Superseded[rep]
    /\ issue' = IF seen[cur].state = "open"
                THEN [issue EXCEPT ![cur].state = "closed", ![cur].status = "none",
                                   ![cur].label = seen[cur].label]
                ELSE issue
    /\ Goto("reconciledNote")
    /\ UNCHANGED <<comments, pr, loop, faults>>

\* Every checkpoint of the item was taken under the contract of the new plan.
ContractUnchanged(i) == digests[i] = {Contract[rep][i]}

\* A pause for a human survives only under the contract it was taken under.
KeepAwaitingHuman(i) ==
    /\ rep \in Active(i)
    /\ pending[i][rep].status = "awaiting_human"
    /\ ContractUnchanged(i)

Recompute ==
    /\ pc = "recompute"
    /\ IF seen[cur].state = "open"
       THEN /\ status' = IF KeepAwaitingHuman(cur) THEN "awaiting_human"
                         ELSE IF DependenciesClosed(cur, rep) THEN "ready"
                         ELSE "blocked_on_dependency"
            /\ seen' = [seen EXCEPT ![cur].label = issue[cur].label]
            /\ Goto("requeueLabel")
       ELSE Goto("reconciledNote") /\ UNCHANGED <<status, seen>>
    /\ UNCHANGED <<issue, comments, pr, rep, found, todo, cur, faults>>

\* Mutant: the pending label goes together with the new status.
RequeueAndClear ==
    /\ pc = "requeueLabel"
    /\ SetLabels(cur, status, FALSE)
    /\ Goto("reconciledNote")
    /\ UNCHANGED <<comments, pr, loop, faults>>

RequeueLabel ==
    /\ pc = "requeueLabel"
    /\ SetLabels(cur, status, seen[cur].label)
    /\ Goto("reconciledNote")
    /\ UNCHANGED <<comments, pr, loop, faults>>

ReconciledNote ==
    /\ pc = "reconciledNote"
    /\ reconciled' = [reconciled EXCEPT ![cur] = @ \cup {rep}]
    /\ todo' = todo \ {cur}
    /\ Goto("item")
    /\ UNCHANGED <<issue, pending, resolved, digests, published, pr, rep, found, cur, seen,
                   status, faults>>

ItemsDone ==
    /\ pc = "item"
    /\ todo = {}
    /\ todo' = AffectedIssues
    /\ Goto("resolve")
    /\ UNCHANGED <<issue, comments, pr, rep, found, cur, seen, status, faults>>

\* The second loop: the resolved comment, then the label.
Resolve(i) ==
    /\ pc = "resolve"
    /\ i \in todo
    /\ cur' = i
    /\ Goto(IF rep \in Active(i) THEN "resolveNote" ELSE "clearRead")
    /\ UNCHANGED <<issue, comments, pr, rep, found, todo, seen, status, faults>>

ResolveNote ==
    /\ pc = "resolveNote"
    /\ resolved' = [resolved EXCEPT ![cur] = @ \cup {rep}]
    /\ Goto("clearRead")
    /\ UNCHANGED <<issue, pending, reconciled, digests, published, pr, loop, faults>>

ClearRead ==
    /\ pc = "clearRead"
    /\ seen' = [seen EXCEPT ![cur] = issue[cur]]
    /\ Goto("clear")
    /\ UNCHANGED <<issue, comments, pr, rep, found, todo, cur, status, faults>>

Clear ==
    /\ pc = "clear"
    /\ IF seen[cur].label THEN SetLabels(cur, seen[cur].status, FALSE) ELSE UNCHANGED issue
    /\ todo' = todo \ {cur}
    /\ Goto(IF pr[rep] = "merged" THEN "resolve" ELSE "restoreLabel")
    /\ UNCHANGED <<comments, pr, rep, found, cur, seen, status, faults>>

ResolveDone ==
    /\ pc = "resolve"
    /\ todo = {}
    /\ Goto("repair")
    /\ UNCHANGED <<issue, comments, pr, loop, faults>>

RepairStep ==
    \/ Requeue \/ RequeueDone
    \/ \E r \in Repairs : NextRepair(r)
    \/ Mark \/ MarkLabel \/ MarkDone
    \/ Restore \/ RestoreDone
    \/ Reconcile \/ Repoint \/ Supersede \/ Recompute \/ RequeueLabel \/ ReconciledNote
    \/ ItemsDone \/ ResolveNote \/ ClearRead \/ Clear \/ ResolveDone
    \/ \E i \in Items :
        \/ MarkNote(i) \/ RestoreLabel(i) \/ CreateIssue(i) \/ ReconcileItem(i)
        \/ SkipItem(i) \/ Resolve(i)
=============================================================================
