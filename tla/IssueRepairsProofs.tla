-------------------------- MODULE IssueRepairsProofs --------------------------
(***************************************************************************)
(* What plan repairs guarantee on the issue queue, for every plan and every *)
(* set of repairs, as long as nothing fails: the pending label survives     *)
(* every session, no session takes up work under a pending repair, and no   *)
(* task runs before the work it depends on is done.                         *)
(***************************************************************************)
EXTENDS IssueQueueProofs

Opened(r) == pr[r] # "none"

Opening(r) == pr[r] = "none" /\ pr'[r] # "none"

\* GitHub numbers pull requests in the order they are opened, and a repair can
\* name an item of an earlier repair only once the item is in the plan, that
\* is, has an issue: the ids of new items are allocated per repair
\* (allocated_repair_item_id in planning/repair.py).
RepairsInOrder ==
    \A q \in Repairs : Opening(q) =>
        \A r \in Repairs : Opened(r) =>
            r < q /\ \A i \in Affected[r] \cap Affected[q] : Exists(i)

OrderlySpec == Spec /\ [][RepairsInOrder]_vars

\* Item i depends, in plan revision v, on an item that r retires.
Retires(r, v, i) == Superseded[r] \cap Deps[v][i] # {}

\* The plan revision that item i is at, or that a repair under way brings it to.
Stands(v, i) ==
    \/ Exists(i) /\ v = issue[i].rev
    \/ v \in Repairs /\ Opened(v) /\ i \in Affected[v] /\ v \notin reconciled[i]

\* The patch of a repair is made for the plan as it is.  Retiring an item takes
\* it out of the dependencies of every other, which changes them, and a patch
\* that changes an item outside its declared impact is refused; so is one that
\* leaves a dependency on an item that is no longer in the plan
\* (_apply_operations and apply_plan_repair_patch in planning/repair.py).
PatchesFit ==
    \A q \in Repairs : Opening(q) =>
        /\ \A i \in Items : \A v \in Revisions :
             Stands(v, i) /\ Retires(q, v, i) => i \in Affected[q]
        /\ \A r \in Repairs : \A i \in Affected[q] : Opened(r) \/ r = q => ~Retires(r, q, i)

FittingSpec == OrderlySpec /\ [][PatchesFit]_vars

\* The items r affects that it did not bring into the plan.
Old(r) == {i \in Affected[r] :
             i \in Published \/ \E q \in Repairs : q < r /\ Opened(q) /\ i \in Affected[q]}

\* Every issue that r found there carries its pending comment.
Marked(r) == \A i \in Old(r) : pending[i][r] # NoPending

\* Places in the loops over the issues of a repair.
MarkPC == {"mark", "markNote", "markLabel"}
InItem == {"pointer", "recompute", "requeueLabel", "reconciledNote"}
ItemPC == InItem \cup {"item"}
InEnd == {"resolveNote", "clearRead", "clear"}
EndPC == InEnd \cup {"resolve", "restoreLabel"}
LoopPC == {"markNote", "markLabel"} \cup EndPC

Rest == {"blocked", "awaiting_review", "awaiting_ci"}

\* What the comments and the pull requests say of each other.
TrailInv ==
    /\ \A i \in Items : \A r \in Repairs :
         /\ pending[i][r] # NoPending => i \in Affected[r] /\ Exists(i) /\ Opened(r)
         /\ r \in resolved[i] => pr[r] \in {"merged", "closed"} /\ pending[i][r] # NoPending
         /\ r \in reconciled[i] => pr[r] = "merged" /\ i \in Affected[r] /\ Exists(i)
         /\ published[i] = r => Opened(r)
         /\ Opened(r) /\ i \in Old(r) => Exists(i)
    /\ \A i \in Published : Exists(i)
    /\ \A i \in Items : Exists(i) => i \in Published \/ \E q \in Repairs : Opened(q) /\ i \in Affected[q]

\* Where a session is tells the state of the repair it handles and of the
\* issue it is at.
PlaceInv ==
    /\ \A r \in found : Opened(r)
    /\ pc \in RepairPC \/ kind = "repair" => Opened(rep)
    /\ pc \in {"restore", "restoreLabel"} => pr[rep] = "closed"
    /\ pc \in ItemPC \cup {"reconcile", "resolve"} => pr[rep] = "merged"
    /\ pc \in InEnd => pr[rep] \in {"merged", "closed"}
    /\ kind = "repair" => \A q \in Repairs : Opened(q) => q <= rep
    /\ kind = "repair" \/ pc \in MarkPC
          => \A i \in Items : rep \notin reconciled[i] /\ rep \notin resolved[i]

LoopInv ==
    /\ pc \in ItemPC \cup LoopPC => todo \subseteq Affected[rep]
    /\ pc \in LoopPC => \A i \in todo : Exists(i)
    /\ pc \in InItem \cup InEnd \cup {"markLabel"} => cur \in todo
    /\ pc \in InItem => Exists(cur) /\ rep \notin reconciled[cur]
    /\ pc = "resolveNote" => rep \in Active(cur)
    /\ pc \in {"clearRead", "clear"} => rep \notin Active(cur)
    /\ pc \in ItemPC => \A i \in Items : /\ Exists(i) <=> seen[i].state # "absent"
                                         /\ issue[i].state = "open" => seen[i].state = "open"

OtherInv ==
    /\ pc \in {"outcome", "final", "refresh"} => ctx = "end"
    /\ command.op = "ci" => command.status \in Rest
    /\ command.op = "fulfil" => Exists(command.item)

TraceInv == TrailInv /\ PlaceInv /\ LoopInv /\ OtherInv

-----------------------------------------------------------------------------
(* Steps and what they leave alone. *)

\* The trail is left alone, and no issue appears, disappears or is reopened.
SameTrail ==
    /\ UNCHANGED <<pending, resolved, reconciled, published, pr>>
    /\ \A i \in Items : /\ Exists(i)' <=> Exists(i)
                        /\ issue'[i].state = "open" => issue[i].state = "open"

\* A label write leaves the state and the revision of every issue alone.
LEMMA SetLabelsEffect ==
  ASSUME GitHubType, NEW i, NEW s, NEW l, SetLabels(i, s, l)
  PROVE  \A j \in Items : /\ issue'[j].state = issue[j].state /\ issue'[j].rev = issue[j].rev
                          /\ issue'[j].status = IF j = i THEN s ELSE issue[j].status
                          /\ issue'[j].label = IF j = i THEN l ELSE issue[j].label
<1> SUFFICES ASSUME NEW j \in Items
             PROVE  /\ issue'[j].state = issue[j].state /\ issue'[j].rev = issue[j].rev
                    /\ issue'[j].status = IF j = i THEN s ELSE issue[j].status
                    /\ issue'[j].label = IF j = i THEN l ELSE issue[j].label
  OBVIOUS
<1>1. issue[j] \in Issue /\ DOMAIN issue = Items BY DEF GitHubType
<1>2. CASE i = j
  <2>1. issue'[j] = [[issue[j] EXCEPT !.status = s] EXCEPT !.label = l]
    BY <1>1, <1>2 DEF SetLabels
  <2> QED BY <1>1, <1>2, <2>1 DEF Issue
<1>3. CASE i # j BY <1>1, <1>3 DEF SetLabels
<1> QED BY <1>2, <1>3

\* A new pointer leaves everything but the revision alone.
LEMMA RepointEffect ==
  ASSUME GitHubType, Repoint
  PROVE  \A j \in Items : /\ issue'[j].state = issue[j].state /\ issue'[j].status = issue[j].status
                          /\ issue'[j].label = issue[j].label
                          /\ issue'[j].rev = IF j = cur THEN rep ELSE issue[j].rev
<1> SUFFICES ASSUME NEW j \in Items
             PROVE  /\ issue'[j].state = issue[j].state /\ issue'[j].status = issue[j].status
                    /\ issue'[j].label = issue[j].label
                    /\ issue'[j].rev = IF j = cur THEN rep ELSE issue[j].rev
  OBVIOUS
<1>1. issue[j] \in Issue /\ DOMAIN issue = Items BY DEF GitHubType
<1>2. CASE cur = j
  <2>1. issue'[j] = [issue[j] EXCEPT !.rev = rep] BY <1>1, <1>2 DEF Repoint
  <2> QED BY <1>1, <1>2, <2>1 DEF Issue
<1>3. CASE cur # j BY <1>1, <1>3 DEF Repoint
<1> QED BY <1>2, <1>3

\* A superseded issue that was open is closed.
LEMMA SupersedeEffect ==
  ASSUME GitHubType, Supersede
  PROVE  /\ \A j \in Items : j # cur => issue'[j] = issue[j]
         /\ cur \in Items /\ seen[cur].state = "open"
               => issue'[cur].state = "closed" /\ issue'[cur].rev = issue[cur].rev
         /\ seen[cur].state # "open" => issue' = issue
<1>1. DOMAIN issue = Items BY DEF GitHubType
<1>2. \A j \in Items : j # cur => issue'[j] = issue[j] BY <1>1 DEF Supersede
<1>3. ASSUME cur \in Items, seen[cur].state = "open"
      PROVE  issue'[cur].state = "closed" /\ issue'[cur].rev = issue[cur].rev
  <2>1. issue[cur] \in Issue BY <1>3 DEF GitHubType
  <2>2. issue'[cur] = [[[issue[cur] EXCEPT !.state = "closed"] EXCEPT !.status = "none"]
                         EXCEPT !.label = seen[cur].label]
    BY <1>1, <1>3 DEF Supersede
  <2> QED BY <2>1, <2>2 DEF Issue
<1> QED BY <1>2, <1>3 DEF Supersede

\* A command that takes no lock writes the row of its issue.
LEMMA FinishEffect ==
  ASSUME TInv, FinishCommand
  PROVE  /\ command.item \in Items
         /\ \A j \in Items : j # command.item => issue'[j] = issue[j]
         /\ issue'[command.item].status = command.status
         /\ issue'[command.item].label = command.label
         /\ issue'[command.item].rev = issue[command.item].rev
         /\ issue'[command.item].state = IF command.op = "fulfil" THEN "closed"
                                         ELSE issue[command.item].state
<1>0. command.item \in Items BY DEF FinishCommand, TInv, CommandInv
<1>1. issue[command.item] \in Issue /\ DOMAIN issue = Items BY <1>0 DEF TInv, GitHubType
<1> DEFINE st == IF command.op = "fulfil" THEN "closed" ELSE issue[command.item].state
<1>2. issue' = [issue EXCEPT ![command.item].status = command.status,
                             ![command.item].label = command.label,
                             ![command.item].state = st]
  BY <1>0, <1>1 DEF FinishCommand, Issue
<1> HIDE DEF st
<1>3. issue'[command.item] = [[[issue[command.item] EXCEPT !.status = command.status]
                                 EXCEPT !.label = command.label] EXCEPT !.state = st]
  BY <1>0, <1>1, <1>2
<1>4. /\ issue'[command.item].status = command.status /\ issue'[command.item].label = command.label
      /\ issue'[command.item].rev = issue[command.item].rev /\ issue'[command.item].state = st
  BY <1>1, <1>3 DEF Issue
<1>5. \A j \in Items : j # command.item => issue'[j] = issue[j] BY <1>1, <1>2
<1> QED BY <1>0, <1>4, <1>5 DEF st

\* A reviewer closes an issue or sets it back to ready.
LEMMA ReviewEffect ==
  ASSUME GitHubType, NEW i \in Items, CloseIssue(i) \/ RetryIssue(i)
  PROVE  /\ \A j \in Items : j # i => issue'[j] = issue[j]
         /\ issue'[i].label = issue[i].label /\ issue'[i].rev = issue[i].rev
         /\ CloseIssue(i) => issue'[i].state = "closed" /\ issue'[i].status = issue[i].status
         /\ RetryIssue(i) => issue'[i].state = issue[i].state /\ issue'[i].status = "ready"
<1>1. issue[i] \in Issue /\ DOMAIN issue = Items BY DEF GitHubType
<1>2. CASE CloseIssue(i)
  <2>1. issue' = [issue EXCEPT ![i].state = "closed"] /\ ~RetryIssue(i)
    <3>1. issue' = [issue EXCEPT ![i].state = "closed"] /\ issue[i].state = "open"
      BY <1>2 DEF CloseIssue
    <3>2. issue'[i].state = "closed"
      <4>1. issue'[i] = [issue[i] EXCEPT !.state = "closed"] BY <1>1, <3>1
      <4> QED BY <1>1, <4>1 DEF Issue
    <3>3. RetryIssue(i) => issue'[i].state = "open"
      <4>1. RetryIssue(i) => issue'[i] = [issue[i] EXCEPT !.status = "ready"]
        BY <1>1 DEF RetryIssue
      <4>2. [issue[i] EXCEPT !.status = "ready"].state = "open" BY <1>1, <3>1 DEF Issue
      <4> QED BY <4>1, <4>2
    <3> QED BY <3>1, <3>2, <3>3
  <2>2. issue'[i] = [issue[i] EXCEPT !.state = "closed"] BY <1>1, <2>1
  <2>3. \A j \in Items : j # i => issue'[j] = issue[j] BY <1>1, <2>1
  <2> QED BY <1>1, <2>1, <2>2, <2>3 DEF Issue
<1>3. CASE ~CloseIssue(i)
  <2>1. issue'[i] = [issue[i] EXCEPT !.status = "ready"] BY <1>1, <1>3 DEF RetryIssue
  <2>2. \A j \in Items : j # i => issue'[j] = issue[j] BY <1>1, <1>3 DEF RetryIssue
  <2> QED BY <1>1, <1>3, <2>1, <2>2 DEF Issue
<1> QED BY <1>2, <1>3

\* A new issue is open, at the revision of the repair, and no other changes.
LEMMA CreateEffect ==
  ASSUME TInv, NEW i \in Items, CreateIssue(i)
  PROVE  /\ \A j \in Items : j # i => issue'[j] = issue[j] /\ seen'[j] = seen[j]
         /\ issue'[i].state = "open" /\ issue'[i].rev = rep /\ seen'[i] = issue'[i]
         /\ ~issue'[i].label
<1>1. DOMAIN issue = Items /\ DOMAIN seen = Items BY DEF TInv, GitHubType, LoopType
<1> QED BY <1>1 DEF CreateIssue

\* Every other step leaves the trail alone.
TrailStep ==
    \/ Refresh \/ ResolveNote \/ ReconciledNote \/ PostCheckpoint
    \/ \E i \in Items : MarkNote(i) \/ CreateIssue(i)
    \/ \E r \in Repairs : OpenRepair(r) \/ DecideRepair(r)

\* A step is one that extends the trail, or leaves it alone.
LEMMA TrailSteps == ASSUME TInv, LoopInv, OtherInv, [Next]_vars PROVE SameTrail \/ TrailStep
<1>0. GitHubType BY DEF TInv
<1>a. ASSUME UNCHANGED issue, UNCHANGED comments, UNCHANGED pr PROVE SameTrail
  BY <1>a DEF SameTrail, Exists, comments
<1>b. ASSUME NEW i, NEW s, NEW l, SetLabels(i, s, l), UNCHANGED comments, UNCHANGED pr
      PROVE  SameTrail
  <2>1. \A j \in Items : issue'[j].state = issue[j].state BY <1>0, <1>b, SetLabelsEffect
  <2> QED BY <1>b, <2>1 DEF SameTrail, Exists, comments
<1>1. ASSUME Requeuing, ~TrailStep PROVE SameTrail
  <2>1. CASE \/ Requeue \/ RequeueDone \/ Mark \/ MarkDone \/ Restore \/ RestoreDone \/ Reconcile
             \/ Recompute \/ ItemsDone \/ ClearRead \/ ResolveDone
             \/ \E i \in Items : ReconcileItem(i) \/ SkipItem(i) \/ Resolve(i)
             \/ \E r \in Repairs : NextRepair(r)
    <3>1. UNCHANGED issue /\ UNCHANGED comments /\ UNCHANGED pr
      BY <2>1 DEF Requeue, RequeueDone, Mark, MarkDone, Restore, RestoreDone, Reconcile,
         Recompute, ItemsDone, ClearRead, ResolveDone, ReconcileItem, SkipItem, Resolve, NextRepair
    <3> QED BY <1>a, <3>1
  <2>2. CASE MarkLabel \/ RequeueLabel \/ Clear \/ \E i \in Items : RestoreLabel(i)
    <3>1. /\ UNCHANGED comments /\ UNCHANGED pr
          /\ UNCHANGED issue \/ \E i, s, l : SetLabels(i, s, l)
      BY <2>2 DEF MarkLabel, RequeueLabel, Clear, RestoreLabel
    <3> QED BY <1>a, <1>b, <3>1
  <2>3. CASE Repoint
    <3>1. \A j \in Items : issue'[j].state = issue[j].state BY <1>0, <2>3, RepointEffect
    <3> QED BY <2>3, <3>1 DEF Repoint, SameTrail, Exists, comments
  <2>4. CASE Supersede
    <3>1. UNCHANGED comments /\ UNCHANGED pr BY <2>4 DEF Supersede
    <3>2. CASE seen[cur].state # "open" BY <1>0, <1>a, <2>4, <3>1, <3>2, SupersedeEffect
    <3>3. CASE seen[cur].state = "open"
      <4>1. \A j \in Items : issue'[j] = issue[j] \/ (j = cur /\ issue'[j].state = "closed")
        BY <1>0, <2>4, <3>3, SupersedeEffect
      <4>2. ASSUME cur \in Items PROVE Exists(cur)
        BY <2>4 DEF Supersede, LoopInv, InItem
      <4> QED BY <3>1, <4>1, <4>2 DEF SameTrail, Exists, comments
    <3> QED BY <3>2, <3>3
  <2> QED BY <1>1, <2>1, <2>2, <2>3, <2>4, Zenon DEF Requeuing, RepairStep, TrailStep
<1>2. ASSUME \/ StartWorker \/ Promote \/ ListReady \/ NothingReady \/ ClaimRead \/ RunTask
             \/ CheckRepair \/ WriteLocal \/ Outcome \/ TaskReturns \/ CallFails \/ Killed
             \/ \E i \in Items : Select(i) \/ StartContinue(i)
             \/ \E k \in {"plain", "pr", "manual"} : FinishTask(k)
             \/ UNCHANGED vars
      PROVE  SameTrail
  <2>1. UNCHANGED issue /\ UNCHANGED comments /\ UNCHANGED pr
    BY <1>2 DEF StartWorker, Promote, ListReady, NothingReady, ClaimRead, RunTask, CheckRepair,
       WriteLocal, Outcome, TaskReturns, CallFails, Killed, Select, StartContinue, FinishTask, vars
  <2> QED BY <1>a, <2>1
<1>3. ASSUME \/ Claim \/ RejectClaim \/ FinalStatus
             \/ \E i \in Items : PromoteIssue(i) \/ Demote(i)
      PROVE  SameTrail
  <2>1. /\ UNCHANGED comments /\ UNCHANGED pr
        /\ UNCHANGED issue \/ \E i, s, l : SetLabels(i, s, l)
    BY <1>3 DEF Claim, RejectClaim, FinalStatus, PromoteIssue, Demote
  <2> QED BY <1>a, <1>b, <2>1
<1>4. ASSUME ObserveCi \/ \E i \in Items : StartRefreshCi(i) \/ StartFulfil(i) PROVE SameTrail
  BY <1>4, <1>a DEF ObserveCi, StartRefreshCi, StartFulfil
<1>5. ASSUME FinishCommand PROVE SameTrail
  <2>1. \A j \in Items : \/ issue'[j] = issue[j] \/ issue'[j].state = issue[j].state
                         \/ j = command.item /\ command.op = "fulfil" /\ issue'[j].state = "closed"
    BY <1>5, FinishEffect
  <2>2. UNCHANGED comments /\ UNCHANGED pr BY <1>5 DEF FinishCommand
  <2> QED BY <2>1, <2>2 DEF SameTrail, Exists, comments, OtherInv
<1>6. ASSUME NEW i \in Items, CloseIssue(i) \/ RetryIssue(i) PROVE SameTrail
  <2>1. issue[i].state = "open" /\ UNCHANGED comments /\ UNCHANGED pr
    BY <1>6 DEF CloseIssue, RetryIssue
  <2>2. \A j \in Items : \/ issue'[j] = issue[j]
                         \/ j = i /\ issue'[j].state \in {"open", "closed"}
    BY <1>0, <1>6, <2>1, ReviewEffect
  <2> QED BY <2>1, <2>2 DEF SameTrail, Exists, comments
<1> QED BY <1>1, <1>2, <1>3, <1>4, <1>5, <1>6, Zenon
        DEF Next, Step, Unlocked, Reviewers, TrailStep

\* What is defined from the trail stays with it.
LEMMA SameTrailFacts ==
  ASSUME SameTrail
  PROVE  /\ \A i : Active(i)' = Active(i)
         /\ \A r : (Opened(r)' <=> Opened(r)) /\ Old(r)' = Old(r)
         /\ \A r : Marked(r)' <=> Marked(r)
<1>1. \A i : Active(i)' = Active(i) BY DEF SameTrail, Active
<1>2. \A r : Opened(r)' <=> Opened(r) BY DEF SameTrail, Opened
<1>3. \A r : Old(r)' = Old(r) BY <1>2 DEF Old
<1>4. \A r : Marked(r)' <=> Marked(r) BY <1>3 DEF Marked, SameTrail
<1> QED BY <1>1, <1>2, <1>3, <1>4

\* A pending comment names a queue status, so it is one.
LEMMA NoteIsOne ==
  ASSUME NEW row, NEW st, NEW v
  PROVE  [status |-> StatusOf(row), state |-> st, rev |-> v] # NoPending
<1>1. StatusOf(row) # "none" BY DEF StatusOf
<1>2. [status |-> StatusOf(row), state |-> st, rev |-> v].status = StatusOf(row) OBVIOUS
<1>3. NoPending.status = "none" BY DEF NoPending
<1> QED BY <1>1, <1>2, <1>3

\* Marking an issue adds its pending comment.
LEMMA MarkNoteEffect ==
  ASSUME TInv, PlaceInv, NEW i \in Items, MarkNote(i)
  PROVE  /\ \A j \in Items : \A r \in Repairs :
              pending'[j][r] # NoPending <=> pending[j][r] # NoPending \/ (j = i /\ r = rep)
         /\ \A j \in Items : Active(j)' = IF j = i THEN Active(j) \cup {rep} ELSE Active(j)
         /\ rep \in Repairs
         /\ pending' # pending => rep \notin Active(i)
<1> DEFINE v == [status |-> StatusOf(seen[i]), state |-> seen[i].state, rev |-> seen[i].rev]
<1>0. /\ pending \in [Items -> [Repairs -> Pending]] /\ rep \in Repairs
      /\ rep \notin resolved[i] /\ resolved' = resolved
  BY DEF TInv, GitHubType, SessionInv, RepairPC, MarkNote, PlaceInv, MarkPC
<1>1. v # NoPending BY NoteIsOne
<1>2. pending' = IF rep \in Active(i) THEN pending ELSE [pending EXCEPT ![i][rep] = v]
  BY DEF MarkNote
<1> HIDE DEF v
<1>3. CASE rep \in Active(i)
  <2>1. pending[i][rep] # NoPending BY <1>3 DEF Active
  <2>2. \A j : Active(j)' = Active(j) BY <1>0, <1>2, <1>3 DEF Active
  <2> QED BY <1>0, <1>2, <1>3, <2>1, <2>2
<1>4. CASE rep \notin Active(i)
  <2>1. \A j \in Items : \A r \in Repairs :
           pending'[j][r] = IF j = i /\ r = rep THEN v ELSE pending[j][r]
    BY <1>0, <1>2, <1>4
  <2>2. \A j \in Items : \A r \in Repairs :
           pending'[j][r] # NoPending <=> pending[j][r] # NoPending \/ (j = i /\ r = rep)
    BY <1>1, <2>1
  <2>3. \A j \in Items : \A r \in Repairs :
           r \in Active(j)' <=> r \in Active(j) \/ (j = i /\ r = rep)
    BY <1>0, <2>2 DEF Active
  <2>4. \A j : Active(j)' \subseteq Repairs /\ Active(j) \subseteq Repairs BY DEF Active
  <2>5. \A j \in Items : Active(j)' = IF j = i THEN Active(j) \cup {rep} ELSE Active(j)
    BY <1>0, <2>3, <2>4
  <2> QED BY <1>0, <1>4, <2>2, <2>5
<1> QED BY <1>3, <1>4

\* Bringing pending comments up to date adds and removes none.
LEMMA RefreshEffect ==
  ASSUME TInv, Refresh
  PROVE  /\ \A j \in Items : \A r \in Repairs :
              pending'[j][r] # NoPending <=> pending[j][r] # NoPending
         /\ \A j \in Items : Active(j)' = Active(j)
<1> DEFINE v == [status |-> StatusOf(issue[item]), state |-> issue[item].state,
                 rev |-> issue[item].rev]
<1>0. pending \in [Items -> [Repairs -> Pending]] /\ resolved' = resolved
  BY DEF TInv, GitHubType, Refresh
<1>1. v # NoPending BY NoteIsOne
<1>2. pending' = [pending EXCEPT ![item] = [r \in Repairs |->
                     IF r \in Active(item)
                        /\ <<@[r].status, @[r].state>> # <<StatusOf(issue[item]), issue[item].state>>
                     THEN v ELSE @[r]]]
  BY DEF Refresh
<1> HIDE DEF v
<1>3. \A j \in Items : \A r \in Repairs :
         pending'[j][r] = pending[j][r] \/ (pending'[j][r] = v /\ j = item /\ r \in Active(j))
  BY <1>0, <1>2
<1>4. \A j \in Items : \A r \in Repairs : pending'[j][r] # NoPending <=> pending[j][r] # NoPending
  BY <1>1, <1>3 DEF Active
<1>5. \A j \in Items : Active(j)' = Active(j) BY <1>0, <1>4 DEF Active
<1> QED BY <1>4, <1>5

\* A resolved comment ends the pending one.
LEMMA ResolveEffect ==
  ASSUME TInv, ResolveNote
  PROVE  /\ \A j \in Items : Active(j)' = IF j = cur THEN Active(j) \ {rep} ELSE Active(j)
         /\ \A j \in Items : \A r \in Repairs :
              r \in resolved'[j] <=> r \in resolved[j] \/ (j = cur /\ r = rep)
<1>0. /\ resolved \in [Items -> SUBSET Repairs] /\ pending' = pending
      /\ resolved' = [resolved EXCEPT ![cur] = @ \cup {rep}]
  BY DEF TInv, GitHubType, ResolveNote
<1>1. \A j \in Items : resolved'[j] = IF j = cur THEN resolved[j] \cup {rep} ELSE resolved[j]
  BY <1>0
<1>2. \A j \in Items : Active(j)' = IF j = cur THEN Active(j) \ {rep} ELSE Active(j)
  BY <1>0, <1>1 DEF Active
<1> QED BY <1>1, <1>2

\* The pull request of a repair is opened, and then decided once.
LEMMA PrSteps ==
  ASSUME TInv, [Next]_vars, NEW r \in Repairs
  PROVE  /\ pr'[r] = pr[r] \/ OpenRepair(r) \/ DecideRepair(r)
         /\ Opened(r) => Opened(r)'
         /\ pr[r] \in {"merged", "closed"} => pr'[r] = pr[r]
         /\ Opening(r) <=> Opened(r)' /\ ~Opened(r)
<1>0. pr \in [Repairs -> {"none", "open", "merged", "closed"}] BY DEF TInv, GitHubType
<1>1. UNCHANGED pr \/ \E q \in Repairs : OpenRepair(q) \/ DecideRepair(q)
  <2>1. CASE Requeuing
    BY <2>1 DEF Requeuing, RepairStep, Requeue, RequeueDone, NextRepair, Mark, MarkLabel, MarkDone,
       Restore, RestoreDone, Reconcile, Repoint, Supersede, Recompute, RequeueLabel,
       ReconciledNote, ItemsDone, ResolveNote, ClearRead, Clear, ResolveDone, MarkNote,
       RestoreLabel, CreateIssue, ReconcileItem, SkipItem, Resolve
  <2>2. CASE \/ StartWorker \/ Promote \/ ListReady \/ NothingReady \/ ClaimRead \/ Claim
             \/ RejectClaim \/ RunTask \/ CheckRepair \/ WriteLocal \/ PostCheckpoint \/ Outcome
             \/ FinalStatus \/ Refresh \/ TaskReturns \/ CallFails \/ Killed
    BY <2>2 DEF StartWorker, Promote, ListReady, NothingReady, ClaimRead, Claim, RejectClaim,
       RunTask, CheckRepair, WriteLocal, PostCheckpoint, Outcome, FinalStatus, Refresh,
       TaskReturns, CallFails, Killed
  <2>3. CASE \/ \E i \in Items : PromoteIssue(i) \/ Demote(i) \/ Select(i) \/ StartContinue(i)
                                 \/ CloseIssue(i) \/ RetryIssue(i)
             \/ \E k \in {"plain", "pr", "manual"} : FinishTask(k)
             \/ Unlocked \/ UNCHANGED vars
    BY <2>3 DEF PromoteIssue, Demote, Select, StartContinue, CloseIssue, RetryIssue, FinishTask,
       Unlocked, ObserveCi, FinishCommand, StartRefreshCi, StartFulfil, vars
  <2> QED BY <2>1, <2>2, <2>3, Zenon DEF Next, Step, Reviewers
<1>2. \A q \in Repairs : OpenRepair(q) => pr[q] = "none" /\ pr' = [pr EXCEPT ![q] = "open"]
  BY DEF OpenRepair
<1>3. \A q \in Repairs : DecideRepair(q) =>
         pr[q] = "open" /\ \E s \in {"merged", "closed"} : pr' = [pr EXCEPT ![q] = s]
  BY DEF DecideRepair
<1>4. \/ pr'[r] = pr[r] \/ (OpenRepair(r) /\ pr[r] = "none" /\ pr'[r] = "open")
      \/ (DecideRepair(r) /\ pr[r] = "open" /\ pr'[r] \in {"merged", "closed"})
  BY <1>0, <1>1, <1>2, <1>3
<1> QED BY <1>4 DEF Opened, Opening

\* A repair that is open already keeps the issues it found there: a later
\* repair has a larger number.
LEMMA OldStays ==
  ASSUME TInv, [Next]_vars, [RepairsInOrder]_vars, NEW r \in Repairs, Opened(r)
  PROVE  Old(r)' = Old(r)
<1>0. Repairs \subseteq Nat BY PlanAssumption
<1>1. \A q \in Repairs : q < r => (Opened(q)' <=> Opened(q))
  <2> SUFFICES ASSUME NEW q \in Repairs, q < r, Opened(q)', ~Opened(q) PROVE FALSE
    BY PrSteps
  <2>1. Opening(q) BY PrSteps
  <2>2. RepairsInOrder BY <2>1 DEF Opening, vars
  <2>3. r < q BY <2>1, <2>2 DEF RepairsInOrder
  <2> QED BY <1>0, <2>3
<1> QED BY <1>1 DEF Old

-----------------------------------------------------------------------------
(* The trail, the place in the loops: kept by every step, failures included. *)

\* The steps that extend the trail keep it consistent.
LEMMA TrailKept ==
  ASSUME TInv, TraceInv, [Next]_vars, [RepairsInOrder]_vars PROVE TrailInv'
<1>0. /\ GitHubType /\ LoopType /\ SessionInv /\ TrailInv /\ PlaceInv /\ LoopInv /\ OtherInv
      /\ Repairs \subseteq Nat /\ Published \subseteq Items
      /\ ImplPR \notin Repairs /\ NoPR \notin Repairs
  BY PlanAssumption DEF TInv, TraceInv, Revisions, NoPR
<1>a. \A r \in Repairs : /\ Opened(r) => Opened(r)' /\ Old(r)' = Old(r)
                         /\ pr[r] \in {"merged", "closed"} => pr'[r] = pr[r]
  BY PrSteps, OldStays
<1>b. ASSUME \A i \in Items : Exists(i) => Exists(i)', UNCHANGED pr,
             NEW i \in Items, NEW r \in Repairs
      PROVE  /\ (Opened(r)' <=> Opened(r))
             /\ Opened(r)' /\ i \in Old(r)' => Exists(i)'
  <2>1. Opened(r)' <=> Opened(r) BY <1>b DEF Opened
  <2> QED BY <1>0, <1>a, <1>b, <2>1 DEF TrailInv
<1>c. ASSUME \A i \in Items : Exists(i) => Exists(i)' PROVE \A i \in Published : Exists(i)'
  BY <1>0, <1>c DEF TrailInv
<1>d. ASSUME NEW i \in Items, Exists(i)
      PROVE  i \in Published \/ \E q \in Repairs : Opened(q)' /\ i \in Affected[q]
  BY <1>0, <1>a, <1>d DEF TrailInv
<1>1. ASSUME SameTrail PROVE TrailInv'
  <2>1. /\ \A r : (Opened(r)' <=> Opened(r)) /\ Old(r)' = Old(r)
        /\ \A i \in Items : Exists(i)' <=> Exists(i)
        /\ UNCHANGED <<pending, resolved, reconciled, published, pr>>
    BY <1>1, SameTrailFacts DEF SameTrail
  <2> QED BY <1>0, <2>1 DEF TrailInv
<1>e. ASSUME UNCHANGED issue PROVE \A i : Exists(i)' <=> Exists(i) BY <1>e DEF Exists
<1>2. ASSUME NEW i \in Items, MarkNote(i) PROVE TrailInv'
  <2>1. /\ UNCHANGED issue /\ UNCHANGED <<resolved, reconciled, published, pr>>
        /\ i \in todo /\ pc = "markNote"
    BY <1>2 DEF MarkNote
  <2>2. /\ rep \in Repairs
        /\ \A j \in Items : \A r \in Repairs :
             pending'[j][r] # NoPending <=> pending[j][r] # NoPending \/ (j = i /\ r = rep)
    BY <1>0, <1>2, MarkNoteEffect
  <2>3. i \in Affected[rep] /\ Exists(i) /\ Opened(rep)
    BY <1>0, <2>1 DEF LoopInv, PlaceInv, LoopPC, RepairPC
  <2> QED BY <1>0, <1>b, <1>c, <1>d, <1>e, <2>1, <2>2, <2>3 DEF TrailInv
<1>3. ASSUME Refresh PROVE TrailInv'
  <2>1. UNCHANGED issue /\ UNCHANGED <<resolved, reconciled, published, pr>>
    BY <1>3 DEF Refresh
  <2>2. \A j \in Items : \A r \in Repairs : pending'[j][r] # NoPending <=> pending[j][r] # NoPending
    BY <1>3, RefreshEffect
  <2> QED BY <1>0, <1>b, <1>c, <1>d, <1>e, <2>1, <2>2 DEF TrailInv
<1>4. ASSUME ResolveNote PROVE TrailInv'
  <2>1. UNCHANGED issue /\ UNCHANGED <<pending, reconciled, published, pr>> /\ pc = "resolveNote"
    BY <1>4 DEF ResolveNote
  <2>2. \A j \in Items : \A r \in Repairs :
           r \in resolved'[j] <=> r \in resolved[j] \/ (j = cur /\ r = rep)
    BY <1>4, ResolveEffect
  <2>3. pr[rep] \in {"merged", "closed"} /\ pending[cur][rep] # NoPending
    BY <1>0, <2>1 DEF LoopInv, PlaceInv, InEnd, Active
  <2> QED BY <1>0, <1>b, <1>c, <1>d, <1>e, <2>1, <2>2, <2>3 DEF TrailInv
<1>5. ASSUME ReconciledNote PROVE TrailInv'
  <2>1. UNCHANGED issue /\ UNCHANGED <<pending, resolved, published, pr>> /\ pc = "reconciledNote"
    BY <1>5 DEF ReconciledNote
  <2>2. \A j \in Items : \A r \in Repairs :
           r \in reconciled'[j] <=> r \in reconciled[j] \/ (j = cur /\ r = rep)
    BY <1>0, <1>5 DEF ReconciledNote, GitHubType
  <2>3. pr[rep] = "merged" /\ cur \in Affected[rep] /\ Exists(cur)
    BY <1>0, <2>1 DEF LoopInv, PlaceInv, InItem, ItemPC
  <2> QED BY <1>0, <1>b, <1>c, <1>d, <1>e, <2>1, <2>2, <2>3 DEF TrailInv
<1>6. ASSUME PostCheckpoint PROVE TrailInv'
  <2>1. UNCHANGED issue /\ UNCHANGED <<pending, resolved, reconciled, pr>>
    BY <1>6 DEF PostCheckpoint
  <2>2. \A j \in Items : \A r \in Repairs :
           published'[j] = r => published[j] = r \/ (kind = "repair" /\ r = rep)
    BY <1>0, <1>6 DEF PostCheckpoint, GitHubType
  <2>3. kind = "repair" => Opened(rep) BY <1>0 DEF PlaceInv
  <2> QED BY <1>0, <1>b, <1>c, <1>d, <1>e, <2>1, <2>2, <2>3 DEF TrailInv
<1>7. ASSUME NEW i \in Items, CreateIssue(i) PROVE TrailInv'
  <2>1. UNCHANGED <<pending, resolved, reconciled, published, pr>> /\ pc = "item" /\ i \in todo
    BY <1>7 DEF CreateIssue, comments
  <2>2. \A j \in Items : Exists(j)' <=> Exists(j) \/ j = i
    BY <1>7, CreateEffect DEF Exists
  <2>3. rep \in Repairs /\ Opened(rep) /\ i \in Affected[rep]
    BY <1>0, <2>1 DEF LoopInv, PlaceInv, ItemPC, RepairPC, SessionInv
  <2> QED BY <1>0, <1>b, <1>c, <1>d, <2>1, <2>2, <2>3 DEF TrailInv
<1>8. ASSUME NEW r \in Repairs, OpenRepair(r) PROVE TrailInv'
  <2>1. /\ UNCHANGED issue /\ UNCHANGED <<pending, resolved, reconciled, published>>
        /\ pr[r] = "none" /\ pr' = [pr EXCEPT ![r] = "open"]
    BY <1>8 DEF OpenRepair, comments
  <2>2. /\ \A q \in Repairs : q # r => pr'[q] = pr[q] /\ (Opened(q)' <=> Opened(q))
        /\ Opened(r)' /\ ~Opened(r)
    BY <1>0, <2>1 DEF GitHubType, Opened
  <2>3. \A q \in Repairs : Opened(q) => \A i \in Affected[q] \cap Affected[r] : Exists(i)
    <3>1. RepairsInOrder /\ Opening(r) BY <2>1, <2>2 DEF vars, Opening, Opened
    <3> QED BY <3>1 DEF RepairsInOrder
  <2>4. ASSUME NEW i \in Items, i \in Old(r)' PROVE Exists(i)
    <3>1. i \in Affected[r] BY <2>4 DEF Old
    <3>2. CASE i \in Published BY <1>0, <3>2 DEF TrailInv
    <3>3. CASE \E q \in Repairs : q < r /\ Opened(q)' /\ i \in Affected[q]
      BY <1>0, <2>2, <2>3, <3>1, <3>3
    <3> QED BY <2>4, <3>2, <3>3 DEF Old
  <2>5. \A i \in Items : \A q \in Repairs : Opened(q)' /\ i \in Old(q)' => Exists(i)
    BY <1>0, <1>a, <2>2, <2>4 DEF TrailInv
  <2>6. \A i \in Items : \A q \in Repairs : q \in resolved[i] \/ q \in reconciled[i] => pr'[q] = pr[q]
    BY <1>0, <1>a DEF TrailInv
  <2> QED BY <1>0, <1>a, <1>c, <1>d, <1>e, <2>1, <2>5, <2>6 DEF TrailInv
<1>9. ASSUME NEW r \in Repairs, DecideRepair(r) PROVE TrailInv'
  <2>1. UNCHANGED issue /\ UNCHANGED <<pending, resolved, reconciled, published>>
    BY <1>9 DEF DecideRepair, comments
  <2>2. \A q \in Repairs : Opened(q)' <=> Opened(q)
    BY <1>0, <1>9 DEF DecideRepair, GitHubType, Opened
  <2>3. \A i \in Items : \A q \in Repairs : q \in resolved[i] \/ q \in reconciled[i] => pr'[q] = pr[q]
    BY <1>0, <1>a DEF TrailInv
  <2>4. \A i \in Items : \A q \in Repairs : Opened(q)' /\ i \in Old(q)' => Exists(i)
    BY <1>0, <1>a, <2>2 DEF TrailInv
  <2> QED BY <1>0, <1>a, <1>c, <1>d, <1>e, <2>1, <2>2, <2>3, <2>4 DEF TrailInv
<1> QED BY <1>0, <1>1, <1>2, <1>3, <1>4, <1>5, <1>6, <1>7, <1>8, <1>9, TrailSteps DEF TrailStep

\* The session leaves the loops over the issues of a repair, or is elsewhere.
Away ==
    /\ pc' \notin RepairPC /\ found' \subseteq found
    /\ kind' = "repair" => kind = "repair" /\ rep' = rep

\* The steps that look for repairs, and those over the issues of one.
RepairWork ==
    \/ Requeue \/ CheckRepair
    \/ Mark \/ MarkLabel \/ Restore \/ Reconcile \/ Repoint \/ Supersede \/ Recompute
    \/ RequeueLabel \/ ReconciledNote \/ ItemsDone \/ ResolveNote \/ ClearRead \/ Clear
    \/ \E r \in Repairs : NextRepair(r) \/ OpenRepair(r)
    \/ \E i \in Items :
        \/ MarkNote(i) \/ RestoreLabel(i) \/ CreateIssue(i) \/ ReconcileItem(i)
        \/ SkipItem(i) \/ Resolve(i)

\* An exception leaves the loops.
LEMMA RaisedAway == ASSUME Raised \/ EndSession PROVE Away
BY DEF Raised, EndSession, Forget, Away, RepairPC

\* A step works on repairs, leaves them, or is not one of the session.
LEMMA SessionSteps ==
  ASSUME TInv, [Next]_vars PROVE UNCHANGED session \/ Away \/ RepairWork
<1>0. SessionInv BY DEF TInv
<1>1. ASSUME RequeueDone \/ MarkDone \/ RestoreDone \/ ResolveDone PROVE Away
  <2>1. CASE RequeueDone
    <3>1. CASE EndSession BY <3>1, RaisedAway
    <3>2. CASE ~EndSession
      <4>1. (Goto("promote") \/ Goto("run")) /\ Forget BY <2>1, <3>2 DEF RequeueDone
      <4>2. kind = "none" BY <1>0, <2>1 DEF RequeueDone, SessionInv
      <4> QED BY <4>1, <4>2 DEF Goto, Forget, Away, RepairPC
    <3> QED BY <3>1, <3>2
  <2>2. CASE MarkDone \/ RestoreDone \/ ResolveDone
    BY <2>2 DEF MarkDone, RestoreDone, ResolveDone, Goto, loop, Away, RepairPC
  <2> QED BY <1>1, <2>1, <2>2
<1>2. ASSUME \/ StartWorker \/ Promote \/ ListReady \/ ClaimRead \/ Claim \/ WriteLocal
             \/ PostCheckpoint \/ Outcome \/ FinalStatus \/ TaskReturns
             \/ \E i \in Items : PromoteIssue(i) \/ Demote(i) \/ StartContinue(i)
             \/ \E k \in {"plain", "pr", "manual"} : FinishTask(k)
      PROVE  Away
  BY <1>2 DEF StartWorker, Promote, ListReady, ClaimRead, Claim, WriteLocal, PostCheckpoint,
     Outcome, FinalStatus, TaskReturns, PromoteIssue, Demote, StartContinue, FinishTask, Goto,
     loop, Away, RepairPC
<1>3. ASSUME RunTask \/ Refresh PROVE Away
  <2>1. kind = "none" BY <1>0, <1>3 DEF RunTask, Refresh, SessionInv
  <2> QED BY <1>3, <2>1 DEF RunTask, Refresh, Goto, Forget, Away, RepairPC
<1>4. ASSUME NothingReady \/ RejectClaim \/ CallFails \/ Killed PROVE Away
  BY <1>4, RaisedAway DEF NothingReady, RejectClaim, CallFails, Killed
<1>5. ASSUME NEW i \in Items, Select(i) PROVE Away
  <2>1. CASE Raised BY <2>1, RaisedAway
  <2>2. CASE ~Raised BY <1>5, <2>2 DEF Select, Away, RepairPC
  <2> QED BY <2>1, <2>2
<1>6. ASSUME Unlocked \/ Reviewers \/ UNCHANGED vars PROVE UNCHANGED session
  BY <1>6 DEF Unlocked, Reviewers, ObserveCi, FinishCommand, StartRefreshCi, StartFulfil,
     CloseIssue, RetryIssue, DecideRepair, vars
<1>7. CASE Next
  <2>1. CASE Requeuing BY <1>1, <2>1, Zenon DEF Requeuing, RepairStep, RepairWork
  <2>2. CASE ~Requeuing
    BY <1>2, <1>3, <1>4, <1>5, <1>6, <1>7, <2>2, Zenon DEF Next, Step, RepairWork
  <2> QED BY <2>1, <2>2
<1> QED BY <1>6, <1>7

\* Only their own steps write resolved and reconciled comments.
LEMMA NoteSteps ==
  ASSUME TInv, LoopInv, OtherInv, [Next]_vars
  PROVE  UNCHANGED <<resolved, reconciled>> \/ ResolveNote \/ ReconciledNote
<1>1. SameTrail => UNCHANGED <<resolved, reconciled>> BY DEF SameTrail
<1>2. TrailStep => UNCHANGED <<resolved, reconciled>> \/ ResolveNote \/ ReconciledNote
  BY DEF TrailStep, Refresh, PostCheckpoint, MarkNote, CreateIssue, OpenRepair, DecideRepair,
         comments
<1> QED BY <1>1, <1>2, TrailSteps

\* Every step keeps what the place tells of the repair.
LEMMA PlaceKept ==
  ASSUME TInv, TraceInv, [Next]_vars, [RepairsInOrder]_vars PROVE PlaceInv'
<1>0. /\ GitHubType /\ LoopType /\ SessionInv /\ TrailInv /\ PlaceInv /\ LoopInv /\ OtherInv
      /\ Repairs \subseteq Nat
  BY PlanAssumption DEF TInv, TraceInv
<1>a. \A r \in Repairs : /\ Opened(r) => Opened(r)'
                         /\ pr[r] \in {"merged", "closed"} => pr'[r] = pr[r]
  BY PrSteps
<1>b. \A q \in Repairs : kind # "none" => (Opened(q)' <=> Opened(q))
  <2> SUFFICES ASSUME NEW q \in Repairs, kind # "none", Opened(q)', ~Opened(q) PROVE FALSE
    BY <1>a
  <2>1. OpenRepair(q) BY PrSteps DEF Opened, DecideRepair
  <2> QED BY <1>0, <2>1 DEF OpenRepair, SessionInv
<1>1. ASSUME UNCHANGED session PROVE PlaceInv'
  <2>1. UNCHANGED <<resolved, reconciled>>
    BY <1>0, <1>1, NoteSteps DEF ResolveNote, ReconciledNote, Goto, session
  <2>2. UNCHANGED <<pc, kind, rep, found>> BY <1>1 DEF session, loop
  <2>3. pc \in RepairPC \/ kind = "repair" => Opened(rep)' /\ rep \in Repairs
    <3>1. pc \in RepairPC \/ kind = "repair" => rep \in Repairs /\ Opened(rep)
      BY <1>0 DEF PlaceInv, SessionInv
    <3>2. \A r \in Repairs : r = rep /\ Opened(r) => Opened(rep)'
      BY <1>a, <2>2 DEF Opened
    <3> QED BY <3>1, <3>2
  <2>4. pc \in RepairPC => (pr[rep] \in {"merged", "closed"} => pr'[rep] = pr[rep])
    BY <1>a, <2>3
  <2>5. \A r \in found : Opened(r)' BY <1>0, <1>a DEF PlaceInv, LoopType
  <2>6. InEnd \subseteq RepairPC /\ ItemPC \subseteq RepairPC BY DEF InEnd, ItemPC, InItem, RepairPC
  <2> QED BY <1>0, <1>b, <2>1, <2>2, <2>3, <2>4, <2>5, <2>6 DEF PlaceInv, RepairPC
<1>2. ASSUME Away PROVE PlaceInv'
  <2>1. UNCHANGED <<resolved, reconciled>>
    BY <1>0, <1>2, NoteSteps DEF ResolveNote, ReconciledNote, Goto, Away, RepairPC
  <2>2. kind' = "repair" => Opened(rep)'
    <3>1. kind' = "repair" => rep \in Repairs /\ Opened(rep) /\ rep' = rep
      BY <1>0, <1>2 DEF PlaceInv, SessionInv, Away
    <3>2. \A r \in Repairs : r = rep /\ rep' = rep /\ Opened(r) => Opened(rep)'
      BY <1>a DEF Opened
    <3> QED BY <3>1, <3>2
  <2>3. \A r \in found' : Opened(r)' BY <1>0, <1>2, <1>a DEF PlaceInv, LoopType, Away
  <2>4. pc' \notin InEnd /\ pc' \notin ItemPC /\ pc' \notin MarkPC
    BY <1>2 DEF Away, InEnd, ItemPC, InItem, MarkPC, RepairPC
  <2> QED BY <1>0, <1>2, <1>b, <2>1, <2>2, <2>3, <2>4 DEF PlaceInv, Away, RepairPC
<1>c. UNCHANGED pr => \A r : Opened(r)' <=> Opened(r) BY DEF Opened
<1>d. UNCHANGED <<pr, rep>> => (Opened(rep)' <=> Opened(rep)) BY DEF Opened
<1> USE DEF InEnd, ItemPC, InItem, MarkPC, RepairPC
<1>3. ASSUME NEW r \in Repairs, OpenRepair(r) PROVE PlaceInv'
  <2>1. /\ UNCHANGED <<found, resolved, reconciled>> /\ pc' = "check" /\ rep' = r
        /\ pr[r] = "none" /\ pr'[r] # "none"
    BY <1>0, <1>3 DEF OpenRepair, comments, GitHubType
  <2>2. RepairsInOrder /\ Opening(r) BY <2>1 DEF Opening, vars
  <2>3. Opened(rep)' BY <2>1 DEF Opened
  <2>4. \A q \in Repairs : Opened(q)' => Opened(q) \/ q = r
    BY <1>0, <1>3 DEF OpenRepair, GitHubType, Opened
  <2>5. \A q \in Repairs : Opened(q)' => q <= r
    BY <1>0, <2>2, <2>4 DEF RepairsInOrder
  <2>6. \A i \in Items : r \notin reconciled[i] /\ r \notin resolved[i]
    BY <1>0, <2>1 DEF TrailInv
  <2>7. \A q \in found' : Opened(q)' BY <1>0, <1>a, <2>1 DEF PlaceInv, LoopType
  <2> QED BY <2>1, <2>3, <2>5, <2>6, <2>7 DEF PlaceInv
<1>4. ASSUME Requeue PROVE PlaceInv'
  <2>1. /\ UNCHANGED <<pr, rep, kind, resolved, reconciled>> /\ pc' = "repair"
        /\ found' = Discovered
    BY <1>4 DEF Requeue, Goto, comments
  <2>2. \A r \in Discovered : Opened(r)' BY <1>0, <1>c, <2>1 DEF Discovered, TrailInv, Active
  <2> QED BY <1>0, <1>c, <1>d, <2>1, <2>2 DEF PlaceInv
<1>5. ASSUME CheckRepair PROVE PlaceInv'
  <2>1. CASE Raised BY <1>2, <2>1, RaisedAway
  <2>2. CASE ~Raised
    <3>1. /\ UNCHANGED <<pr, rep, kind, found, resolved, reconciled>>
          /\ pc' = IF kind = "repair" THEN "mark" ELSE "local"
      BY <1>5, <2>2 DEF CheckRepair, Goto, comments, loop
    <3> QED BY <1>0, <1>c, <1>d, <3>1 DEF PlaceInv
  <2> QED BY <2>1, <2>2
<1>6. ASSUME NEW r \in Repairs, NextRepair(r) PROVE PlaceInv'
  <2>1. /\ UNCHANGED <<pr, kind, resolved, reconciled>>
        /\ pc' = CASE pr[r] = "merged" -> "reconcile" [] pr[r] = "closed" -> "restore"
                   [] OTHER -> "mark"
        /\ rep' = r /\ found' \subseteq found /\ r \in found /\ pc = "repair"
    BY <1>6 DEF NextRepair, Goto, comments
  <2>2. kind = "none" BY <1>0, <2>1 DEF SessionInv
  <2>3. Opened(r) BY <1>0, <2>1 DEF PlaceInv
  <2>4. Opened(rep)' BY <2>1, <2>3 DEF Opened
  <2>5. pc' = "mark" => pr[r] \notin {"merged", "closed"} BY <2>1
  <2>6. pc' = "mark" => \A i \in Items : r \notin reconciled[i] /\ r \notin resolved[i]
    BY <1>0, <2>5 DEF TrailInv
  <2> QED BY <1>0, <1>c, <2>1, <2>2, <2>4, <2>6 DEF PlaceInv
<1>7. ASSUME Mark PROVE PlaceInv'
  <2>1. CASE Raised BY <1>2, <2>1, RaisedAway
  <2>2. CASE ~Raised
    <3>1. /\ UNCHANGED <<pr, rep, kind, found, resolved, reconciled>>
          /\ pc = "mark" /\ pc' = "markNote"
      BY <1>7, <2>2 DEF Mark, Goto, comments
    <3> QED BY <1>0, <1>c, <1>d, <3>1 DEF PlaceInv
  <2> QED BY <2>1, <2>2
<1>8. ASSUME \/ MarkLabel \/ Restore \/ Reconcile \/ Repoint \/ Supersede \/ RequeueLabel \/ ItemsDone
             \/ ClearRead
             \/ \E i \in Items : \/ MarkNote(i) \/ RestoreLabel(i) \/ CreateIssue(i)
                                 \/ ReconcileItem(i) \/ SkipItem(i) \/ Resolve(i)
      PROVE  PlaceInv'
  <2>1. /\ UNCHANGED <<pr, rep, kind, found, resolved, reconciled>>
        /\ \/ pc \in MarkPC /\ pc' \in MarkPC
           \/ pc \in {"restore", "restoreLabel"} /\ pc' \in InEnd \cup {"restoreLabel"}
           \/ pc \in ItemPC \cup {"reconcile"} /\ pc' \in ItemPC \cup {"resolve"}
           \/ pc = "resolve" /\ pc' \in InEnd
           \/ pc \in InEnd /\ pc' \in InEnd
    BY <1>8 DEF MarkLabel, Restore, Reconcile, Repoint, Supersede, RequeueLabel, ItemsDone,
       ClearRead, MarkNote, RestoreLabel, CreateIssue, ReconcileItem, SkipItem, Resolve, Goto,
       comments, loop
  <2>2. kind # "repair" \/ pc \in MarkPC BY <1>0, <2>1 DEF SessionInv
  <2> QED BY <1>0, <1>c, <1>d, <2>1, <2>2 DEF PlaceInv
<1>9. ASSUME Recompute \/ Clear PROVE PlaceInv'
  <2>1. /\ UNCHANGED <<pr, rep, kind, found, resolved, reconciled>>
        /\ \/ pc = "recompute" /\ pc' \in InItem
           \/ pc = "clear" /\ pc' = IF pr[rep] = "merged" THEN "resolve" ELSE "restoreLabel"
    BY <1>9 DEF Recompute, Clear, Goto, comments
  <2>2. kind # "repair" BY <1>0, <2>1 DEF SessionInv
  <2> QED BY <1>0, <1>c, <1>d, <2>1, <2>2 DEF PlaceInv
<1>10. ASSUME ResolveNote \/ ReconciledNote PROVE PlaceInv'
  <2>1. /\ UNCHANGED <<pr, rep, kind, found>>
        /\ \/ pc = "resolveNote" /\ pc' = "clearRead"
           \/ pc = "reconciledNote" /\ pc' = "item"
    BY <1>10 DEF ResolveNote, ReconciledNote, Goto, loop
  <2>2. kind # "repair" BY <1>0, <2>1 DEF SessionInv
  <2> QED BY <1>0, <1>c, <1>d, <2>1, <2>2 DEF PlaceInv
<1> QED BY <1>1, <1>2, <1>3, <1>4, <1>5, <1>6, <1>7, <1>8, <1>9, <1>10, SessionSteps, Zenon
        DEF RepairWork

\* A step that writes labels, or nothing, on GitHub.
SameRows ==
    \A j \in Items : issue'[j].state = issue[j].state /\ issue'[j].rev = issue[j].rev

\* It leaves the trail alone.
LEMMA LabelTrail ==
  ASSUME GitHubType, UNCHANGED comments, UNCHANGED pr,
         UNCHANGED issue \/ \E i, s, l : SetLabels(i, s, l)
  PROVE  SameTrail /\ SameRows
<1>1. SameRows
  <2>1. CASE UNCHANGED issue BY <2>1 DEF SameRows
  <2>2. ASSUME NEW i, NEW s, NEW l, SetLabels(i, s, l) PROVE SameRows
    BY <2>2, SetLabelsEffect DEF SameRows
  <2> QED BY <2>1, <2>2
<1> QED BY <1>1 DEF SameRows, SameTrail, Exists, comments

\* Every step keeps what the place tells of the issues.
LEMMA LoopKept ==
  ASSUME TInv, TraceInv, [Next]_vars PROVE LoopInv'
<1>0. /\ GitHubType /\ LoopType /\ SessionInv /\ TrailInv /\ PlaceInv /\ LoopInv /\ OtherInv
      /\ Affected \in [Repairs -> SUBSET Items]
  BY PlanAssumption DEF TInv, TraceInv
<1> USE DEF LoopPC, EndPC, InEnd, ItemPC, InItem, RepairPC
<1>a. pc \in RepairPC => rep \in Repairs /\ Affected[rep] \subseteq Items
  BY <1>0 DEF SessionInv
<1>b. ASSUME pc' \notin ItemPC, pc' \notin LoopPC PROVE LoopInv'
  BY <1>b DEF LoopInv
<1>1. ASSUME UNCHANGED session PROVE LoopInv'
  <2>1. UNCHANGED <<pc, rep, todo, cur, seen>> BY <1>1 DEF session, loop
  <2>2. SameTrail \/ \E r \in Repairs : DecideRepair(r)
    <3>1. CASE TrailStep
      BY <2>1, <3>1 DEF TrailStep, Refresh, ResolveNote, ReconciledNote, PostCheckpoint, MarkNote,
         CreateIssue, OpenRepair, Goto
    <3> QED BY <1>0, <3>1, TrailSteps
  <2>3. /\ \A i : Active(i)' = Active(i)
        /\ \A i \in Items : /\ Exists(i)' <=> Exists(i)
                            /\ issue'[i].state = "open" => issue[i].state = "open"
        /\ UNCHANGED reconciled
    <3>1. CASE SameTrail BY <3>1, SameTrailFacts DEF SameTrail
    <3>2. CASE \E r \in Repairs : DecideRepair(r)
      BY <3>2 DEF DecideRepair, comments, Active, Exists
    <3> QED BY <2>2, <3>1, <3>2
  <2>4. Active(cur)' = Active(cur)
    BY <2>1, <2>3 DEF Active
  <2>5. cur \in Items => (Exists(cur)' <=> Exists(cur)) BY <2>1, <2>3 DEF Exists
  <2>6. todo \subseteq Items BY <1>0 DEF LoopType
  <2> QED BY <1>0, <2>1, <2>3, <2>4, <2>5, <2>6 DEF LoopInv
<1>2. ASSUME Away \/ Requeue \/ CheckRepair \/ \E r \in Repairs : NextRepair(r) \/ OpenRepair(r)
      PROVE  LoopInv'
  <2>1. ASSUME CheckRepair PROVE pc' \notin ItemPC /\ pc' \notin LoopPC
    <3>1. CASE Raised BY <3>1, RaisedAway DEF Away
    <3>2. CASE ~Raised BY <2>1, <3>2 DEF CheckRepair, Goto
    <3> QED BY <3>1, <3>2
  <2>2. ASSUME Away \/ Requeue \/ \E r \in Repairs : NextRepair(r) \/ OpenRepair(r)
        PROVE  pc' \notin ItemPC /\ pc' \notin LoopPC
    BY <2>2 DEF Away, Requeue, NextRepair, OpenRepair, Goto
  <2> QED BY <1>2, <1>b, <2>1, <2>2
<1>3. ASSUME Mark PROVE LoopInv'
  <2>1. CASE Raised BY <1>2, <2>1, RaisedAway
  <2>2. CASE ~Raised
    <3>1. /\ UNCHANGED issue /\ rep' = rep /\ pc' = "markNote" /\ todo' = AffectedIssues
      BY <1>3, <2>2 DEF Mark, Goto
    <3> QED BY <3>1 DEF LoopInv, AffectedIssues, Exists
  <2> QED BY <2>1, <2>2
<1>4. ASSUME \/ MarkLabel \/ Restore \/ RequeueLabel \/ ItemsDone \/ ClearRead \/ Clear
             \/ \E i \in Items : MarkNote(i) \/ RestoreLabel(i) \/ Resolve(i)
      PROVE  LoopInv'
  <2>1. rep' = rep /\ (UNCHANGED issue \/ \E i, s, l : SetLabels(i, s, l))
    BY <1>4 DEF MarkLabel, Restore, RequeueLabel, ItemsDone, ClearRead, Clear, MarkNote,
       RestoreLabel, Resolve, loop
  <2>2. \A i \in Items : (Exists(i)' <=> Exists(i)) /\ issue'[i].state = issue[i].state
    <3>1. CASE UNCHANGED issue BY <3>1 DEF Exists
    <3>2. ASSUME NEW i, NEW s, NEW l, SetLabels(i, s, l)
          PROVE  \A j \in Items : (Exists(j)' <=> Exists(j)) /\ issue'[j].state = issue[j].state
      BY <1>0, <3>2, SetLabelsEffect DEF Exists
    <3> QED BY <2>1, <3>1, <3>2
  <2>3. CASE MarkLabel
    <3>1. pc = "markLabel" /\ pc' = "markNote" /\ todo' \subseteq todo
      BY <2>3 DEF MarkLabel, Goto
    <3> QED BY <1>0, <2>1, <2>2, <3>1 DEF LoopInv, LoopType
  <2>4. CASE Restore \/ ItemsDone
    <3>1. pc' \in {"restoreLabel", "resolve"} /\ todo' = AffectedIssues /\ pc \in RepairPC
      BY <2>4 DEF Restore, ItemsDone, Goto
    <3> QED BY <1>a, <2>1, <2>2, <3>1 DEF LoopInv, AffectedIssues
  <2>5. CASE RequeueLabel
    <3>1. /\ pc = "requeueLabel" /\ pc' = "reconciledNote" /\ UNCHANGED <<todo, cur, seen, reconciled>>
      BY <2>5 DEF RequeueLabel, Goto, loop, comments
    <3>2. cur \in Items BY <1>0, <3>1 DEF LoopInv, LoopType
    <3>3. Exists(cur)' BY <1>0, <2>2, <3>1, <3>2 DEF LoopInv, Exists
    <3> QED BY <1>0, <2>1, <2>2, <3>1, <3>3 DEF LoopInv
  <2>6. CASE ClearRead
    <3>1. /\ pc = "clearRead" /\ pc' = "clear" /\ UNCHANGED <<todo, cur, pending, resolved>>
      BY <2>6 DEF ClearRead, Goto, comments
    <3>2. Active(cur)' = Active(cur) BY <3>1 DEF Active
    <3> QED BY <1>0, <2>1, <2>2, <3>1, <3>2 DEF LoopInv, LoopType
  <2>7. CASE Clear
    <3>1. pc = "clear" /\ pc' \in {"resolve", "restoreLabel"} /\ todo' \subseteq todo
      BY <2>7 DEF Clear, Goto
    <3> QED BY <1>0, <2>1, <2>2, <3>1 DEF LoopInv, LoopType
  <2>8. ASSUME NEW i \in Items, MarkNote(i) PROVE LoopInv'
    <3>1. pc = "markNote" /\ pc' = "markLabel" /\ todo' = todo /\ cur' = i /\ i \in todo
      BY <2>8 DEF MarkNote, Goto
    <3> QED BY <1>0, <2>1, <2>2, <3>1 DEF LoopInv, LoopType
  <2>9. ASSUME NEW i \in Items, RestoreLabel(i) \/ Resolve(i) PROVE LoopInv'
    <3>1. /\ pc \in {"resolve", "restoreLabel"} /\ todo' = todo /\ cur' = i /\ i \in todo
          /\ pc' = IF rep \in Active(i) THEN "resolveNote" ELSE "clearRead"
          /\ UNCHANGED <<pending, resolved>>
      BY <2>9 DEF RestoreLabel, Resolve, Goto, comments
    <3>2. Active(cur)' = Active(i) BY <3>1 DEF Active
    <3> QED BY <1>0, <2>1, <2>2, <3>1, <3>2 DEF LoopInv, LoopType
  <2> QED BY <1>4, <2>3, <2>4, <2>5, <2>6, <2>7, <2>8, <2>9
<1>5. ASSUME Reconcile PROVE LoopInv'
  <2>1. UNCHANGED issue /\ rep' = rep /\ pc' = "item" /\ todo' = Affected[rep] /\ seen' = issue
    BY <1>5 DEF Reconcile, Goto
  <2> QED BY <2>1 DEF LoopInv, Exists
<1>6. ASSUME NEW i \in Items, CreateIssue(i) PROVE LoopInv'
  <2>1. /\ rep' = rep /\ pc = "item" /\ pc' = "pointer" /\ todo' = todo /\ cur' = i /\ i \in todo
        /\ seen[i].state = "absent" /\ UNCHANGED reconciled
    BY <1>6 DEF CreateIssue, Goto, comments
  <2>2. /\ \A j \in Items : j # i => issue'[j] = issue[j] /\ seen'[j] = seen[j]
        /\ issue'[i].state = "open" /\ seen'[i] = issue'[i]
    BY <1>6, CreateEffect
  <2>3. rep \notin reconciled[i]
    BY <1>0, <1>a, <2>1 DEF LoopInv, TrailInv
  <2>4. \A j \in Items : Exists(j)' <=> Exists(j) \/ j = i BY <2>2 DEF Exists
  <2>5. Exists(cur)' BY <2>1, <2>2 DEF Exists
  <2>6. \A j \in Items : /\ Exists(j)' <=> seen'[j].state # "absent"
                         /\ issue'[j].state = "open" => seen'[j].state = "open"
    <3>1. ASSUME NEW j \in Items, j # i
          PROVE  /\ Exists(j)' <=> seen'[j].state # "absent"
                 /\ issue'[j].state = "open" => seen'[j].state = "open"
      BY <1>0, <2>1, <2>2, <2>4, <3>1 DEF LoopInv
    <3>2. /\ Exists(i)' <=> seen'[i].state # "absent"
          /\ issue'[i].state = "open" => seen'[i].state = "open"
      BY <2>2 DEF Exists
    <3> QED BY <3>1, <3>2
  <2> QED BY <1>0, <2>1, <2>3, <2>5, <2>6 DEF LoopInv
<1>7. ASSUME NEW i \in Items, ReconcileItem(i) \/ SkipItem(i) PROVE LoopInv'
  <2>1. /\ rep' = rep /\ pc = "item" /\ todo' \subseteq todo /\ UNCHANGED <<issue, seen, reconciled>>
        /\ \/ pc' = "item"
           \/ /\ pc' = "pointer" /\ cur' = i /\ i \in todo' /\ seen[i].state # "absent"
              /\ rep \notin reconciled[i]
    BY <1>7 DEF ReconcileItem, SkipItem, Goto, comments
  <2>2. \A j : Exists(j)' <=> Exists(j) BY <2>1 DEF Exists
  <2>3. pc' = "pointer" => Exists(cur)' BY <1>0, <2>1 DEF LoopInv, Exists
  <2> QED BY <1>0, <2>1, <2>2, <2>3 DEF LoopInv
<1>8. ASSUME Repoint \/ Supersede \/ Recompute PROVE LoopInv'
  <2>1. /\ pc \in InItem /\ pc' \in InItem /\ UNCHANGED <<rep, todo, cur, reconciled>>
    BY <1>8 DEF Repoint, Supersede, Recompute, Goto, comments, loop
  <2>2. cur \in Items BY <1>0, <2>1 DEF LoopInv, LoopType
  <2>3. \A j \in Items : /\ issue'[j].state = issue[j].state
                            \/ (j = cur /\ issue'[j].state = "closed")
                         /\ seen'[j].state = seen[j].state
    <3>1. CASE Repoint BY <1>0, <3>1, RepointEffect DEF Repoint, loop
    <3>2. CASE Supersede BY <1>0, <3>2, SupersedeEffect DEF Supersede, loop
    <3>3. CASE Recompute
      <4>1. issue' = issue /\ (seen' = seen \/ seen' = [seen EXCEPT ![cur].label = issue[cur].label])
        BY <3>3 DEF Recompute
      <4>2. ASSUME NEW j \in Items PROVE seen'[j].state = seen[j].state
        <5>1. seen[j] \in Issue /\ DOMAIN seen = Items BY <1>0 DEF LoopType
        <5>2. CASE seen' # seen /\ j = cur
          <6>1. seen'[j] = [seen[j] EXCEPT !.label = issue[cur].label] BY <4>1, <5>1, <5>2
          <6> QED BY <5>1, <6>1 DEF Issue
        <5> QED BY <4>1, <5>1, <5>2
      <4> QED BY <4>1, <4>2
    <3> QED BY <1>8, <3>1, <3>2, <3>3
  <2>4. Exists(cur) BY <1>0, <2>1 DEF LoopInv
  <2>5. \A j \in Items : Exists(j)' <=> Exists(j) BY <2>3, <2>4 DEF Exists
  <2>6. Exists(cur)' BY <2>1, <2>2, <2>3, <2>4 DEF Exists
  <2> QED BY <1>0, <2>1, <2>3, <2>5, <2>6 DEF LoopInv
<1>9. ASSUME ReconciledNote PROVE LoopInv'
  <2>1. /\ pc = "reconciledNote" /\ pc' = "item" /\ todo' \subseteq todo
        /\ UNCHANGED <<issue, rep, seen>>
    BY <1>9 DEF ReconciledNote, Goto
  <2>2. \A j : Exists(j)' <=> Exists(j) BY <2>1 DEF Exists
  <2> QED BY <1>0, <2>1, <2>2 DEF LoopInv
<1>10. ASSUME ResolveNote PROVE LoopInv'
  <2>1. /\ pc = "resolveNote" /\ pc' = "clearRead" /\ UNCHANGED <<issue, rep, todo, cur>>
    BY <1>10 DEF ResolveNote, Goto, loop
  <2>2. \A j : Exists(j)' <=> Exists(j) BY <2>1 DEF Exists
  <2>3. cur \in Items BY <1>0, <2>1 DEF LoopInv, LoopType
  <2>4. rep \notin Active(cur)'
    <3>1. resolved'[cur] = resolved[cur] \cup {rep} BY <1>0, <1>10, <2>3 DEF ResolveNote, GitHubType
    <3> QED BY <2>1, <3>1 DEF Active
  <2> QED BY <1>0, <2>1, <2>2, <2>4 DEF LoopInv
<1> QED BY <1>1, <1>2, <1>3, <1>4, <1>5, <1>6, <1>7, <1>8, <1>9, <1>10, SessionSteps, Zenon
        DEF RepairWork

\* An issue stays there, and an issue that is not there is created by a repair.
LEMMA ExistsStays ==
  ASSUME TInv, LoopInv, OtherInv, [Next]_vars, NEW i \in Items
  PROVE  /\ Exists(i) => Exists(i)'
         /\ Exists(i)' => Exists(i) \/ CreateIssue(i)
<1>1. CASE SameTrail BY <1>1 DEF SameTrail
<1>2. ASSUME NEW j \in Items, CreateIssue(j)
      PROVE  (Exists(i) => Exists(i)') /\ (Exists(i)' => Exists(i) \/ CreateIssue(i))
  BY <1>2, CreateEffect DEF Exists
<1>3. CASE TrailStep /\ ~\E j \in Items : CreateIssue(j)
  <2>1. UNCHANGED issue
    BY <1>3 DEF TrailStep, Refresh, ResolveNote, ReconciledNote, PostCheckpoint, MarkNote,
       OpenRepair, DecideRepair
  <2> QED BY <2>1 DEF Exists
<1> QED BY <1>1, <1>2, <1>3, TrailSteps

\* The end of a session and the commands.
LEMMA OtherKept == ASSUME TInv, LoopInv, OtherInv, [Next]_vars PROVE OtherInv'
<1> DEFINE Ending == pc' \in {"outcome", "final", "refresh"} => ctx' = "end"
<1>1. Ending
  <2>1. ASSUME UNCHANGED session PROVE Ending BY <2>1 DEF session, OtherInv
  <2>2. ASSUME Raised \/ EndSession PROVE Ending BY <2>2 DEF Raised, EndSession
  <2>3. ASSUME RepairStep PROVE Ending
    <3>1. CASE Raised \/ EndSession BY <2>2, <3>1
    <3>2. CASE ~(Raised \/ EndSession)
      <4> DEFINE P == pc' \notin {"outcome", "final", "refresh"}
      <4>1. ASSUME \/ Requeue \/ MarkLabel \/ MarkDone \/ Restore \/ RestoreDone \/ Reconcile \/ Repoint
                 \/ Supersede \/ RequeueLabel \/ ReconciledNote \/ ItemsDone \/ ResolveNote
                 \/ ClearRead \/ Clear \/ ResolveDone
            PROVE  P
        BY <4>1 DEF Requeue, MarkLabel, MarkDone, Restore, RestoreDone, Reconcile, Repoint,
           Supersede, RequeueLabel, ReconciledNote, ItemsDone, ResolveNote, ClearRead, Clear,
           ResolveDone, Goto
      <4>2. ASSUME Recompute PROVE P BY <4>2 DEF Recompute, Goto
      <4>3. ASSUME RequeueDone \/ Mark PROVE P BY <3>2, <4>3 DEF RequeueDone, Mark, Goto
      <4>4. ASSUME \/ \E r \in Repairs : NextRepair(r)
                 \/ \E i \in Items : \/ MarkNote(i) \/ RestoreLabel(i) \/ CreateIssue(i)
                                     \/ ReconcileItem(i) \/ SkipItem(i) \/ Resolve(i)
            PROVE  P
        BY <4>4 DEF NextRepair, MarkNote, RestoreLabel, CreateIssue, ReconcileItem, SkipItem,
           Resolve, Goto
      <4> HIDE DEF P
      <4>5. P BY <2>3, <4>1, <4>2, <4>3, <4>4, Zenon DEF RepairStep
      <4> QED BY <4>5 DEF P
    <3> QED BY <3>1, <3>2
  <2>4. ASSUME \/ StartWorker \/ Promote \/ ListReady \/ ClaimRead \/ Claim \/ RunTask \/ WriteLocal
               \/ PostCheckpoint \/ Refresh \/ TaskReturns \/ Outcome \/ FinalStatus
               \/ \E i \in Items : PromoteIssue(i) \/ Demote(i) \/ StartContinue(i)
               \/ \E k \in {"plain", "pr", "manual"} : FinishTask(k)
               \/ \E r \in Repairs : OpenRepair(r)
        PROVE  Ending
    BY <2>4 DEF StartWorker, Promote, ListReady, ClaimRead, Claim, RunTask, WriteLocal,
       PostCheckpoint, Refresh, TaskReturns, Outcome, FinalStatus, PromoteIssue, Demote,
       StartContinue, FinishTask, OpenRepair, Goto, OtherInv
  <2>5. ASSUME NothingReady \/ RejectClaim \/ CallFails \/ Killed PROVE Ending
    BY <2>2, <2>5 DEF NothingReady, RejectClaim, CallFails, Killed
  <2>6. ASSUME CheckRepair \/ \E i \in Items : Select(i) PROVE Ending
    <3>1. CASE Raised BY <2>2, <3>1
    <3>2. CASE ~Raised BY <2>6, <3>2 DEF CheckRepair, Select, Goto
    <3> QED BY <3>1, <3>2
  <2>7. ASSUME Unlocked \/ Reviewers \/ UNCHANGED vars PROVE UNCHANGED session
    BY <2>7 DEF Unlocked, Reviewers, ObserveCi, FinishCommand, StartRefreshCi, StartFulfil,
       CloseIssue, RetryIssue, DecideRepair, vars
  <2> HIDE DEF Ending
  <2>8. CASE Next
    BY <2>1, <2>3, <2>4, <2>5, <2>6, <2>7, <2>8, Zenon DEF Next, Step, Requeuing
  <2> QED BY <2>1, <2>7, <2>8
<1>2. /\ command'.op = "ci" => command'.status \in Rest
      /\ command'.op = "fulfil" => Exists(command.item)'
  <2>1. CASE command' = command
    <3>1. command.op = "fulfil" => command.item \in Items BY DEF TInv, CommandInv
    <3>2. command.op = "fulfil" => Exists(command.item)'
      <4> SUFFICES ASSUME command.op = "fulfil" PROVE Exists(command.item)' OBVIOUS
      <4>1. PICK i \in Items : i = command.item BY <3>1
      <4>2. Exists(i)' BY <4>1, ExistsStays DEF OtherInv
      <4> QED BY <2>1, <4>1, <4>2 DEF Exists
    <3> QED BY <2>1, <3>2 DEF OtherInv
  <2>2. CASE ObserveCi BY <2>2 DEF ObserveCi, Command, Rest
  <2>3. CASE FinishCommand BY <2>3 DEF FinishCommand, NoCommand
  <2>4. ASSUME NEW i \in Items, StartRefreshCi(i) PROVE command'.op = "observe"
    BY <2>4 DEF StartRefreshCi, Command
  <2>5. ASSUME NEW i \in Items, StartFulfil(i)
        PROVE  command'.op = "fulfil" /\ Exists(command.item)'
    BY <2>5 DEF StartFulfil, Command, Exists
  <2>6. ASSUME ~Unlocked PROVE command' = command
    <3>1. CASE Requeuing BY <3>1 DEF Requeuing, outside
    <3>2. CASE \/ StartWorker \/ Promote \/ ListReady \/ NothingReady \/ ClaimRead \/ Claim
               \/ RejectClaim \/ RunTask \/ CheckRepair \/ WriteLocal \/ PostCheckpoint \/ Outcome
               \/ FinalStatus \/ Refresh \/ TaskReturns \/ CallFails \/ Killed
      BY <3>2 DEF StartWorker, Promote, ListReady, NothingReady, ClaimRead, Claim, RejectClaim,
         RunTask, CheckRepair, WriteLocal, PostCheckpoint, Outcome, FinalStatus, Refresh,
         TaskReturns, CallFails, Killed, outside
    <3>3. CASE \/ \E i \in Items : PromoteIssue(i) \/ Demote(i) \/ Select(i) \/ StartContinue(i)
               \/ \E k \in {"plain", "pr", "manual"} : FinishTask(k)
               \/ \E r \in Repairs : OpenRepair(r)
               \/ Reviewers \/ UNCHANGED vars
      BY <3>3 DEF PromoteIssue, Demote, Select, StartContinue, FinishTask, OpenRepair, Reviewers,
         CloseIssue, RetryIssue, DecideRepair, vars, outside
    <3> QED BY <2>6, <3>1, <3>2, <3>3, Zenon DEF Next, Step
  <2> QED BY <2>1, <2>2, <2>3, <2>4, <2>5, <2>6 DEF Unlocked
<1> QED BY <1>1, <1>2 DEF OtherInv

\* At the start there is no repair.
LEMMA TraceInit == Init => TraceInv
<1> SUFFICES ASSUME Init PROVE TraceInv OBVIOUS
<1>0. /\ Repairs \subseteq Nat \ {0} /\ Published \subseteq Items BY PlanAssumption
<1>1. \A i \in Items : Exists(i) <=> i \in Published BY DEF Init, Exists, Absent
<1>2. \A r \in Repairs : ~Opened(r) BY DEF Init, Opened
<1>3. /\ \A i \in Items : \A r \in Repairs : pending[i][r] = NoPending /\ published[i] # r
      /\ \A i \in Items : resolved[i] = {} /\ reconciled[i] = {}
  BY <1>0 DEF Init, NoPR
<1>4. TrailInv BY <1>0, <1>1, <1>2, <1>3 DEF TrailInv
<1>5. PlaceInv /\ LoopInv /\ OtherInv
  BY DEF Init, PlaceInv, LoopInv, OtherInv, RepairPC, ItemPC, InItem, InEnd, LoopPC, EndPC, MarkPC,
         NoCommand
<1> QED BY <1>4, <1>5 DEF TraceInv

\* What the trail and the places say holds whatever fails.
LEMMA TraceInductive == OrderlySpec => []TraceInv
<1>1. TInv /\ TraceInv /\ [Next]_vars /\ [RepairsInOrder]_vars => TraceInv'
  <2> SUFFICES ASSUME TInv, TraceInv, [Next]_vars, [RepairsInOrder]_vars PROVE TraceInv'
    OBVIOUS
  <2>1. TrailInv' BY TrailKept
  <2>2. PlaceInv' BY PlaceKept
  <2>3. LoopInv' BY LoopKept
  <2>4. OtherInv' BY OtherKept DEF TraceInv
  <2> QED BY <2>1, <2>2, <2>3, <2>4 DEF TraceInv
<1> QED BY <1>1, TraceInit, TypeInductive, PTL DEF OrderlySpec, Spec

-----------------------------------------------------------------------------
(* While nothing fails: a repair marks all its issues or none. *)

\* A step in which no call fails and no process is killed.
Quiet == [Next]_vars /\ [RepairsInOrder]_vars /\ ~CallFails /\ ~Killed

\* Nothing on GitHub mentions r.
Unheard(r) ==
    \A i \in Items : pending[i][r] = NoPending /\ published[i] # r /\ r \notin reconciled[i]

\* The checkpoint that reports r is marking its issues.
Marking(r) == rep = r /\ kind = "repair" /\ pc \in {"markNote", "markLabel"}

\* A repair that anything mentions has marked every issue it found there,
\* unless it is being reported; the repair that holds an issue is the newest
\* that ever did; and an issue that a repair affects was there before it or has
\* been reconciled with it.
HoldTrail ==
    /\ \A r \in Repairs : Marked(r) \/ Marking(r) \/ Unheard(r)
    /\ \A i \in Items : \A q \in Active(i) : \A r \in Repairs : pending[i][r] # NoPending => r <= q
    /\ \A r \in Repairs : \A i \in Affected[r] :
          Opened(r) /\ Exists(i) =>
             \/ i \in Old(r) \/ r \in reconciled[i]
             \/ /\ rep = r /\ cur = i /\ pc \in InItem
                /\ \A q \in Repairs : pending[i][q] = NoPending

\* The repairs a requeue handles are marked, and so is the one being reported
\* once the loop is over.
HoldPlace ==
    /\ \A r \in found : Marked(r)
    /\ pc \in RepairPC /\ kind # "repair" => Marked(rep)
    /\ pc \in {"local", "comment"} /\ kind = "repair" => Marked(rep)
    /\ pc \in {"markNote", "markLabel"} => \A i \in Old(rep) \ todo : pending[i][rep] # NoPending
    /\ pc = "markLabel" => pending[cur][rep] # NoPending
    /\ pc \in {"check", "mark"} /\ kind = "repair" => \A i \in Items : pending[i][rep] = NoPending

HoldInv == HoldTrail /\ HoldPlace

\* A pending comment stays, and a new one is written by MarkNote.
LEMMA PendingStays ==
  ASSUME TInv, TraceInv, [Next]_vars, NEW i \in Items, NEW r \in Repairs
  PROVE  /\ pending[i][r] # NoPending => pending'[i][r] # NoPending
         /\ pending'[i][r] # NoPending => pending[i][r] # NoPending \/ (MarkNote(i) /\ r = rep)
<1>0. PlaceInv /\ LoopInv /\ OtherInv BY DEF TraceInv
<1>1. CASE pending' = pending BY <1>1
<1>2. CASE Refresh BY <1>2, RefreshEffect
<1>3. ASSUME NEW j \in Items, MarkNote(j)
      PROVE  /\ pending[i][r] # NoPending => pending'[i][r] # NoPending
             /\ pending'[i][r] # NoPending => pending[i][r] # NoPending \/ (MarkNote(i) /\ r = rep)
  BY <1>0, <1>3, MarkNoteEffect
<1>4. \/ pending' = pending \/ Refresh \/ \E j \in Items : MarkNote(j)
  <2>1. SameTrail => pending' = pending BY DEF SameTrail
  <2>2. TrailStep => \/ pending' = pending \/ Refresh \/ \E j \in Items : MarkNote(j)
    BY DEF TrailStep, ResolveNote, ReconciledNote, PostCheckpoint, CreateIssue, OpenRepair,
       DecideRepair, comments
  <2> QED BY <1>0, <2>1, <2>2, TrailSteps
<1> QED BY <1>1, <1>2, <1>3, <1>4

\* A repair that is marked stays so.
LEMMA MarkedStays ==
  ASSUME TInv, TraceInv, [Next]_vars, [RepairsInOrder]_vars, NEW r \in Repairs, Opened(r), Marked(r)
  PROVE  Marked(r)'
<1>1. Old(r)' = Old(r) BY OldStays
<1>2. Old(r) \subseteq Items BY PlanAssumption DEF Old
<1>3. \A i \in Items : pending[i][r] # NoPending => pending'[i][r] # NoPending BY PendingStays
<1> QED BY <1>1, <1>2, <1>3 DEF Marked

\* What first mentions a repair.
LEMMA FirstMention ==
  ASSUME TInv, TraceInv, [Next]_vars, NEW r \in Repairs, Unheard(r)
  PROVE  \/ Unheard(r)'
         \/ r = rep /\ (ReconciledNote \/ (PostCheckpoint /\ kind = "repair")
                          \/ \E i \in Items : MarkNote(i))
<1>0. GitHubType /\ LoopInv /\ OtherInv /\ ImplPR \notin Repairs
  BY PlanAssumption DEF TInv, TraceInv, Revisions
<1>1. ASSUME NEW i \in Items
      PROVE  /\ pending'[i][r] # NoPending => MarkNote(i) /\ r = rep
             /\ published'[i] = r => PostCheckpoint /\ kind = "repair" /\ r = rep
             /\ r \in reconciled'[i] => ReconciledNote /\ r = rep
  <2>1. pending[i][r] = NoPending /\ published[i] # r /\ r \notin reconciled[i] BY DEF Unheard
  <2>2. pending'[i][r] # NoPending => MarkNote(i) /\ r = rep BY <2>1, PendingStays
  <2>3. published' = published \/ PostCheckpoint
    <3>1. SameTrail => published' = published BY DEF SameTrail
    <3>2. TrailStep => published' = published \/ PostCheckpoint
      BY DEF TrailStep, Refresh, ResolveNote, ReconciledNote, MarkNote, CreateIssue, OpenRepair,
         DecideRepair, comments
    <3> QED BY <1>0, <3>1, <3>2, TrailSteps
  <2>4. PostCheckpoint => published'[i] = published[i] \/ published'[i] = ImplPR
                           \/ (kind = "repair" /\ published'[i] = rep)
    BY <1>0 DEF PostCheckpoint, GitHubType
  <2>5. reconciled' = reconciled \/ ReconciledNote
    BY <1>0, NoteSteps DEF ResolveNote
  <2>6. ReconciledNote => reconciled'[i] \subseteq reconciled[i] \cup {rep}
    BY <1>0 DEF ReconciledNote, GitHubType
  <2> QED BY <1>0, <2>1, <2>2, <2>3, <2>4, <2>5, <2>6
<1> QED BY <1>1 DEF Unheard

\* A requeue finds a marked repair on every issue it affects, while the pull
\* request is undecided.
LEMMA HeldIssues ==
  ASSUME TInv, TraceInv, HoldInv, pc \in MarkPC, kind # "repair",
         NEW i \in Items, i \in Affected[rep], Exists(i)
  PROVE  rep \in Active(i)
<1>1. rep \in Repairs /\ Opened(rep) /\ Marked(rep)
  BY DEF TInv, SessionInv, TraceInv, PlaceInv, HoldInv, HoldPlace, MarkPC, RepairPC
<1>2. rep \notin reconciled[i] /\ rep \notin resolved[i] BY DEF TraceInv, PlaceInv
<1>3. i \in Old(rep) BY <1>1, <1>2 DEF HoldInv, HoldTrail, MarkPC, InItem
<1>4. pending[i][rep] # NoPending BY <1>1, <1>3 DEF Marked
<1> QED BY <1>1, <1>2, <1>4 DEF Active

\* The repair that holds an issue is no older than a marked one that affects it.
LEMMA HolderIsNewest ==
  ASSUME TInv, TraceInv, HoldInv, NEW r \in Repairs, Marked(r),
         NEW i \in Items, i \in Affected[r], NEW q \in Active(i)
  PROVE  r <= q
<1>0. q \in Repairs /\ pending[i][q] # NoPending /\ Repairs \subseteq Nat
  BY PlanAssumption DEF Active
<1>1. Opened(q) /\ i \in Affected[q] BY <1>0 DEF TraceInv, TrailInv
<1> SUFFICES ASSUME q < r PROVE FALSE BY <1>0
<1>2. i \in Old(r) BY <1>0, <1>1 DEF Old
<1>3. pending[i][r] # NoPending BY <1>2 DEF Marked
<1>4. r <= q BY <1>3 DEF HoldInv, HoldTrail
<1> QED BY <1>0, <1>4

\* In the loops over the issues of a repair only their steps move the session.
LEMMA LoopSteps ==
  ASSUME Quiet, pc \in RepairPC
  PROVE  UNCHANGED session \/ Requeuing
<1>1. CASE \/ StartWorker \/ Promote \/ ListReady \/ NothingReady \/ ClaimRead \/ Claim
           \/ RejectClaim \/ RunTask \/ CheckRepair \/ WriteLocal \/ PostCheckpoint \/ Outcome
           \/ FinalStatus \/ Refresh \/ TaskReturns
  BY <1>1 DEF StartWorker, Promote, ListReady, NothingReady, ClaimRead, Claim, RejectClaim,
     RunTask, CheckRepair, WriteLocal, PostCheckpoint, Outcome, FinalStatus, Refresh,
     TaskReturns, RepairPC
<1>2. CASE \/ \E i \in Items : PromoteIssue(i) \/ Demote(i) \/ Select(i) \/ StartContinue(i)
           \/ \E k \in {"plain", "pr", "manual"} : FinishTask(k)
           \/ \E r \in Repairs : OpenRepair(r)
  BY <1>2 DEF PromoteIssue, Demote, Select, StartContinue, FinishTask, OpenRepair, RepairPC
<1>3. CASE Unlocked \/ Reviewers \/ UNCHANGED vars
  BY <1>3 DEF Unlocked, Reviewers, ObserveCi, FinishCommand, StartRefreshCi, StartFulfil,
     CloseIssue, RetryIssue, DecideRepair, vars
<1> QED BY <1>1, <1>2, <1>3, Zenon DEF Quiet, Next, Step

\* The loop that marks issues.
LEMMA MarkingSteps ==
  ASSUME Quiet, pc \in {"markNote", "markLabel"}
  PROVE  UNCHANGED session \/ MarkLabel \/ MarkDone \/ \E i \in Items : MarkNote(i)
<1>1. ASSUME Requeuing PROVE MarkLabel \/ MarkDone \/ \E i \in Items : MarkNote(i)
  BY <1>1 DEF Requeuing, RepairStep, Requeue, RequeueDone, NextRepair, Mark, Restore, RestoreDone,
     Reconcile, Repoint, Supersede, Recompute, RequeueLabel, ReconciledNote, ItemsDone,
     ResolveNote, ClearRead, Clear, ResolveDone, RestoreLabel, CreateIssue, ReconcileItem,
     SkipItem, Resolve
<1> QED BY <1>1, LoopSteps DEF RepairPC

\* The steps on one issue of a merged repair.
LEMMA InItemSteps ==
  ASSUME Quiet, pc \in InItem
  PROVE  ReconciledNote \/ (UNCHANGED <<rep, cur>> /\ pc' \in InItem)
<1>1. ASSUME Requeuing PROVE Repoint \/ Supersede \/ Recompute \/ RequeueLabel \/ ReconciledNote
  BY <1>1 DEF Requeuing, RepairStep, Requeue, RequeueDone, NextRepair, Mark, MarkLabel, MarkDone,
     Restore, RestoreDone, Reconcile, ItemsDone, ResolveNote, ClearRead, Clear, ResolveDone,
     MarkNote, RestoreLabel, CreateIssue, ReconcileItem, SkipItem, Resolve, InItem
<1>2. ASSUME Repoint \/ Supersede \/ Recompute \/ RequeueLabel
      PROVE  UNCHANGED <<rep, cur>> /\ pc' \in InItem
  BY <1>2 DEF Repoint, Supersede, Recompute, RequeueLabel, Goto, loop, InItem
<1>3. ASSUME UNCHANGED session PROVE UNCHANGED <<rep, cur, pc>> BY <1>3 DEF session, loop
<1> QED BY <1>1, <1>2, <1>3, LoopSteps DEF InItem, RepairPC

\* Resolved comments stay, and what holds an issue held it or marks it.
LEMMA ActiveSteps ==
  ASSUME TInv, TraceInv, [Next]_vars, NEW i \in Items, NEW q \in Active(i)'
  PROVE  q \in Active(i) \/ (MarkNote(i) /\ q = rep)
<1>0. /\ GitHubType /\ LoopInv /\ OtherInv /\ q \in Repairs
      /\ pending'[i][q] # NoPending /\ q \notin resolved'[i]
  BY DEF TInv, TraceInv, Active
<1>1. resolved[i] \subseteq resolved'[i]
  <2>1. ResolveNote => resolved[i] \subseteq resolved'[i] BY <1>0 DEF ResolveNote, GitHubType
  <2>2. ReconciledNote => resolved' = resolved BY DEF ReconciledNote
  <2> QED BY <1>0, <2>1, <2>2, NoteSteps
<1>2. pending[i][q] # NoPending \/ (MarkNote(i) /\ q = rep) BY <1>0, PendingStays
<1> QED BY <1>0, <1>1, <1>2 DEF Active

\* A comment that marks an issue anew is of the checkpoint that reports the
\* repair.
LEMMA NewMark ==
  ASSUME TInv, TraceInv, HoldInv, NEW i \in Items, MarkNote(i), pending' # pending
  PROVE  kind = "repair" /\ \A q \in Repairs : Opened(q) => q <= rep
<1>0. PlaceInv /\ LoopInv /\ i \in todo /\ pc = "markNote" BY DEF TraceInv, MarkNote
<1>1. i \in Affected[rep] /\ Exists(i) BY <1>0 DEF LoopInv, LoopPC
<1>2. rep \notin Active(i) BY <1>0, MarkNoteEffect
<1>3. kind = "repair" BY <1>0, <1>1, <1>2, HeldIssues DEF MarkPC
<1> QED BY <1>0, <1>3 DEF PlaceInv

\* A quiet step keeps what the comments say of the marks.
LEMMA HoldTrailKept ==
  ASSUME TInv, ActiveInv, TraceInv, HoldInv, Quiet PROVE HoldTrail'
<1>0. /\ GitHubType /\ LoopType /\ SessionInv /\ TrailInv /\ PlaceInv /\ LoopInv /\ OtherInv
      /\ HoldTrail /\ HoldPlace /\ [Next]_vars /\ [RepairsInOrder]_vars
      /\ Repairs \subseteq Nat /\ Affected \in [Repairs -> SUBSET Items]
  BY PlanAssumption DEF TInv, TraceInv, HoldInv, Quiet
<1>1. ASSUME NEW r \in Repairs PROVE Marked(r)' \/ Marking(r)' \/ Unheard(r)'
  <2>1. CASE Opened(r) /\ Marked(r) BY <1>0, <2>1, MarkedStays
  <2>2. CASE Unheard(r)
    <3>1. CASE Unheard(r)' BY <3>1
    <3>2. CASE r = rep /\ ReconciledNote
      <4>1. Marked(rep) /\ Opened(rep)
        BY <1>0, <3>2 DEF ReconciledNote, SessionInv, PlaceInv, HoldPlace, RepairPC
      <4> QED BY <2>1, <3>2, <4>1
    <3>3. CASE r = rep /\ PostCheckpoint /\ kind = "repair"
      <4>1. Marked(rep) /\ Opened(rep)
        BY <1>0, <3>3 DEF PostCheckpoint, PlaceInv, HoldPlace
      <4> QED BY <2>1, <3>3, <4>1
    <3>4. ASSUME NEW i \in Items, r = rep, MarkNote(i) PROVE Marked(r)' \/ Marking(r)'
      <4>1. CASE kind = "repair" BY <3>4, <4>1 DEF MarkNote, Goto, Marking
      <4>2. CASE kind # "repair"
        <5>1. Marked(r) /\ Opened(r)
          BY <1>0, <3>4, <4>2 DEF MarkNote, PlaceInv, HoldPlace, RepairPC
        <5> QED BY <1>0, <5>1, MarkedStays
      <4> QED BY <4>1, <4>2
    <3> QED BY <1>0, <2>2, <3>1, <3>2, <3>3, <3>4, FirstMention
  <2>3. CASE Marking(r)
    <3>0. pc \in {"markNote", "markLabel"} /\ rep = r /\ kind = "repair" BY <2>3 DEF Marking
    <3>1. CASE UNCHANGED session BY <3>0, <3>1 DEF Marking, session, loop
    <3>2. CASE MarkLabel \/ \E i \in Items : MarkNote(i)
      BY <3>0, <3>2 DEF Marking, MarkLabel, MarkNote, Goto
    <3>3. CASE MarkDone
      <4>1. todo = {} /\ pc = "markNote" BY <3>3 DEF MarkDone
      <4>2. Marked(rep) BY <1>0, <4>1 DEF HoldPlace, Marked
      <4>3. Opened(rep) BY <1>0, <3>0 DEF PlaceInv
      <4> QED BY <2>1, <3>0, <4>2, <4>3
    <3>4. UNCHANGED session \/ MarkLabel \/ MarkDone \/ \E i \in Items : MarkNote(i)
      BY <3>0, MarkingSteps
    <3> QED BY <3>1, <3>2, <3>3, <3>4
  <2>4. Opened(r) \/ Unheard(r) BY <1>0 DEF TrailInv, Unheard, Opened
  <2> QED BY <1>0, <2>1, <2>2, <2>3, <2>4 DEF HoldTrail
<1>2. ASSUME NEW i \in Items, NEW q \in Active(i)', NEW r \in Repairs, pending'[i][r] # NoPending
      PROVE  r <= q
  <2>0. q \in Repairs BY <1>2 DEF Active
  <2>1. CASE pending' = pending \/ ~MarkNote(i)
    <3>1. q \in Active(i) /\ pending[i][r] # NoPending
      <4>1. CASE ~MarkNote(i) BY <1>0, <1>2, <4>1, ActiveSteps, PendingStays
      <4>2. CASE MarkNote(i) /\ pending' = pending
        <5>1. resolved' = resolved BY <4>2 DEF MarkNote
        <5> QED BY <1>2, <4>2, <5>1 DEF Active
      <4> QED BY <2>1, <4>1, <4>2
    <3> QED BY <1>0, <3>1 DEF HoldTrail
  <2>2. CASE MarkNote(i) /\ pending' # pending
    <3>1. \A x \in Repairs : Opened(x) => x <= rep BY <2>2, NewMark
    <3>2. pc' = "markLabel" /\ i \in todo' /\ rep' = rep BY <2>2 DEF MarkNote, Goto
    <3>3. ActiveInv' BY <1>0, ActiveStep
    <3>4. q = rep BY <1>2, <3>2, <3>3 DEF ActiveInv
    <3>5. r = rep \/ pending[i][r] # NoPending BY <1>0, <1>2, PendingStays
    <3>6. r = rep \/ Opened(r) BY <1>0, <3>5 DEF TrailInv
    <3> QED BY <1>0, <2>0, <3>1, <3>4, <3>6
  <2> QED BY <2>1, <2>2
<1>3. ASSUME NEW r \in Repairs, NEW i \in Affected[r], Opened(r)', Exists(i)'
      PROVE  \/ i \in Old(r)' \/ r \in reconciled'[i]
             \/ /\ rep' = r /\ cur' = i /\ pc' \in InItem
                /\ \A q \in Repairs : pending'[i][q] = NoPending
  <2>0. i \in Items BY <1>0
  <2>1. CASE ~Opened(r)
    <3>1. OpenRepair(r) /\ Opening(r)
      BY <1>0, <1>3, <2>1, PrSteps DEF Opened, DecideRepair
    <3>2. RepairsInOrder BY <1>0, <3>1 DEF vars, Opening
    <3>3. Exists(i) BY <1>3, <3>1 DEF OpenRepair, Exists
    <3>4. i \in Published \/ \E q \in Repairs : Opened(q) /\ i \in Affected[q]
      BY <1>0, <2>0, <3>3 DEF TrailInv
    <3>5. \A q \in Repairs : Opened(q) => q < r /\ Opened(q)'
      BY <1>0, <3>1, <3>2, PrSteps DEF RepairsInOrder
    <3> QED BY <1>3, <3>4, <3>5 DEF Old
  <2>2. CASE Opened(r) /\ Exists(i)
    <3>1. Old(r)' = Old(r) BY <1>0, <2>2, OldStays
    <3>2. reconciled[i] \subseteq reconciled'[i]
      <4>1. ReconciledNote => reconciled[i] \subseteq reconciled'[i]
        BY <1>0, <2>0 DEF ReconciledNote, GitHubType
      <4>2. ResolveNote => reconciled' = reconciled BY DEF ResolveNote
      <4> QED BY <1>0, <4>1, <4>2, NoteSteps
    <3>3. CASE i \in Old(r) \/ r \in reconciled[i] BY <3>1, <3>2, <3>3
    <3>4. CASE /\ rep = r /\ cur = i /\ pc \in InItem
               /\ \A q \in Repairs : pending[i][q] = NoPending
      <4>1. CASE ReconciledNote
        BY <1>0, <2>0, <3>4, <4>1 DEF ReconciledNote, GitHubType
      <4>2. CASE ~ReconciledNote
        <5>1. UNCHANGED <<rep, cur>> /\ pc' \in InItem
          BY <3>4, <4>2, InItemSteps
        <5>2. \A q \in Repairs : pending'[i][q] = NoPending
          BY <1>0, <2>0, <3>4, PendingStays DEF MarkNote, InItem
        <5> QED BY <3>4, <5>1, <5>2
      <4> QED BY <4>1, <4>2
    <3> QED BY <1>0, <1>3, <2>2, <3>3, <3>4 DEF HoldTrail
  <2>3. CASE Opened(r) /\ ~Exists(i)
    <3>1. CreateIssue(i) BY <1>0, <1>3, <2>0, <2>3, ExistsStays
    <3>2. /\ pc = "item" /\ pc' = "pointer" /\ cur' = i /\ rep' = rep /\ UNCHANGED pending
          /\ i \in todo
      BY <3>1 DEF CreateIssue, Goto, comments
    <3>3. rep \in Repairs /\ Opened(rep) /\ i \in Affected[rep]
      BY <1>0, <3>2 DEF SessionInv, PlaceInv, LoopInv, ItemPC, RepairPC
    <3>4. CASE r = rep
      <4>1. \A q \in Repairs : pending[i][q] = NoPending BY <1>0, <2>0, <2>3 DEF TrailInv
      <4> QED BY <3>2, <3>4, <4>1 DEF InItem
    <3>5. CASE rep < r
      <4>1. i \in Old(r) BY <3>3, <3>5 DEF Old
      <4>2. Old(r)' = Old(r) BY <1>0, <2>3, OldStays
      <4> QED BY <4>1, <4>2
    <3>6. CASE r < rep
      <4>1. i \in Old(rep) BY <2>3, <3>3, <3>6 DEF Old
      <4>2. Exists(i) BY <1>0, <2>0, <3>3, <4>1 DEF TrailInv
      <4> QED BY <2>3, <4>2
    <3> QED BY <1>0, <3>3, <3>4, <3>5, <3>6
  <2> QED BY <2>1, <2>2, <2>3
<1> QED BY <1>1, <1>2, <1>3 DEF HoldTrail

\* The steps that lead to a checkpoint and through it.
LEMMA CheckpointSteps ==
  ASSUME [Next]_vars, pc' \in {"check", "local", "comment"}
  PROVE  \/ UNCHANGED session \/ CheckRepair \/ MarkDone \/ WriteLocal
         \/ \E k \in {"plain", "pr", "manual"} : FinishTask(k)
         \/ \E r \in Repairs : OpenRepair(r)
<1>1. ASSUME Requeuing PROVE MarkDone
  <2> DEFINE P == pc' \notin {"check", "local", "comment"}
  <2>1. ASSUME Raised \/ EndSession PROVE P BY <2>1 DEF Raised, EndSession
  <2>2. ASSUME \/ Requeue \/ MarkLabel \/ Restore \/ RestoreDone \/ Reconcile \/ Repoint \/ Supersede
               \/ RequeueLabel \/ ReconciledNote \/ ItemsDone \/ ResolveNote \/ ClearRead \/ Clear
               \/ ResolveDone
        PROVE  P
    BY <2>2 DEF Requeue, MarkLabel, Restore, RestoreDone, Reconcile, Repoint, Supersede,
       RequeueLabel, ReconciledNote, ItemsDone, ResolveNote, ClearRead, Clear, ResolveDone, Goto
  <2>3. ASSUME Recompute PROVE P BY <2>3 DEF Recompute, Goto
  <2>4. ASSUME RequeueDone \/ Mark PROVE P BY <2>1, <2>4 DEF RequeueDone, Mark, Goto
  <2>5. ASSUME \/ \E r \in Repairs : NextRepair(r)
               \/ \E i \in Items : \/ MarkNote(i) \/ RestoreLabel(i) \/ CreateIssue(i)
                                   \/ ReconcileItem(i) \/ SkipItem(i) \/ Resolve(i)
        PROVE  P
    BY <2>5 DEF NextRepair, MarkNote, RestoreLabel, CreateIssue, ReconcileItem, SkipItem,
       Resolve, Goto
  <2>6. ~P OBVIOUS
  <2> HIDE DEF P
  <2> QED BY <1>1, <2>2, <2>3, <2>4, <2>5, <2>6, Zenon DEF Requeuing, RepairStep
<1>2. CASE \/ StartWorker \/ Promote \/ ListReady \/ NothingReady \/ ClaimRead \/ Claim
           \/ RejectClaim \/ RunTask \/ PostCheckpoint \/ Outcome
           \/ FinalStatus \/ Refresh \/ TaskReturns \/ CallFails \/ Killed
  BY <1>2 DEF StartWorker, Promote, ListReady, NothingReady, ClaimRead, Claim, RejectClaim,
     RunTask, PostCheckpoint, Outcome, FinalStatus, Refresh, TaskReturns, CallFails, Killed, Goto,
     EndSession, Raised
<1>3. CASE \E i \in Items : PromoteIssue(i) \/ Demote(i) \/ Select(i) \/ StartContinue(i)
  BY <1>3 DEF PromoteIssue, Demote, Select, StartContinue, Goto, Raised, EndSession
<1>4. CASE Unlocked \/ Reviewers \/ UNCHANGED vars
  BY <1>4 DEF Unlocked, Reviewers, ObserveCi, FinishCommand, StartRefreshCi, StartFulfil,
     CloseIssue, RetryIssue, DecideRepair, vars
<1> QED BY <1>1, <1>2, <1>3, <1>4, Zenon DEF Next, Step

\* A quiet step keeps what the place tells of the marks.
LEMMA HoldPlaceKept ==
  ASSUME TInv, ActiveInv, TraceInv, HoldInv, Quiet PROVE HoldPlace'
<1>0. /\ GitHubType /\ LoopType /\ SessionInv /\ TrailInv /\ PlaceInv /\ LoopInv /\ OtherInv
      /\ HoldTrail /\ HoldPlace /\ [Next]_vars /\ [RepairsInOrder]_vars
      /\ Affected \in [Repairs -> SUBSET Items]
  BY PlanAssumption DEF TInv, TraceInv, HoldInv, Quiet
<1> USE DEF RepairPC
<1>a. \A r \in Repairs : Opened(r) /\ Marked(r) => Marked(r)' BY <1>0, MarkedStays
<1>b. ASSUME rep' = rep, rep \in Repairs, Opened(rep), Marked(rep) PROVE Marked(rep)'
  <2>1. PICK r \in Repairs : r = rep BY <1>b
  <2>2. Marked(r)' BY <1>a, <1>b, <2>1
  <2> QED BY <1>b, <2>1, <2>2 DEF Marked, Old, Opened
<1>c. \A r \in found : Marked(r)' BY <1>0, <1>a DEF HoldPlace, PlaceInv, LoopType
<1>d. pc \in RepairPC \/ kind = "repair" => rep \in Repairs /\ Opened(rep)
  BY <1>0 DEF SessionInv, PlaceInv
<1>e. ASSUME rep' = rep, rep \in Repairs, Opened(rep) PROVE Old(rep)' = Old(rep)
  <2>1. PICK r \in Repairs : r = rep BY <1>e
  <2>2. Old(r)' = Old(r) BY <1>0, <1>e, <2>1, OldStays
  <2> QED BY <1>e, <2>1, <2>2 DEF Old, Opened
<1>f. \A i \in Items : \A r \in Repairs :
         /\ pending[i][r] # NoPending => pending'[i][r] # NoPending
         /\ ~MarkNote(i) => (pending'[i][r] # NoPending <=> pending[i][r] # NoPending)
  BY <1>0, PendingStays
<1>g. rep \in Repairs => Old(rep) \subseteq Items BY <1>0 DEF Old
<1>1. ASSUME UNCHANGED session PROVE HoldPlace'
  <2>1. UNCHANGED <<pc, kind, rep, found, todo, cur>> BY <1>1 DEF session, loop
  <2>2. \A i \in Items : ~MarkNote(i) BY <2>1 DEF MarkNote, Goto
  <2>3. cur \in Items \/ pc # "markLabel" BY <1>0 DEF LoopInv, LoopType
  <2> QED BY <1>0, <1>b, <1>c, <1>d, <1>e, <1>f, <1>g, <2>1, <2>2, <2>3 DEF HoldPlace
<1>2. ASSUME Away PROVE HoldPlace'
  <2>1. /\ pc' \notin RepairPC /\ found' \subseteq found
        /\ kind' = "repair" => kind = "repair" /\ rep' = rep
    BY <1>2 DEF Away
  <2>2. ASSUME pc' = "check", kind' = "repair" PROVE UNCHANGED session
    <3>1. kind = "repair" BY <2>1, <2>2
    <3>2. (pc # "run" /\ pc # "check") \/ UNCHANGED session
      BY <1>0, <2>2, <3>1, CheckpointSteps
         DEF SessionInv, CheckRepair, MarkDone, WriteLocal, FinishTask, OpenRepair, Goto, Raised,
             EndSession
    <3> QED BY <1>0, <2>2, <3>1, <3>2, CheckpointSteps
            DEF SessionInv, CheckRepair, MarkDone, WriteLocal, FinishTask, OpenRepair, Goto
  <2>3. ASSUME pc' \in {"local", "comment"}, kind' = "repair" PROVE Marked(rep)'
    <3>1. kind = "repair" /\ rep' = rep BY <2>1, <2>3
    <3>2. CASE UNCHANGED session
      <4>1. pc \in {"local", "comment"} BY <2>3, <3>2 DEF session
      <4> QED BY <1>0, <1>b, <1>d, <3>1, <4>1 DEF HoldPlace
    <3>3. CASE WriteLocal
      <4>1. pc = "local" BY <3>3 DEF WriteLocal
      <4> QED BY <1>0, <1>b, <1>d, <3>1, <4>1 DEF HoldPlace
    <3>4. CASE MarkDone
      <4>1. todo = {} /\ pc = "markNote" BY <3>4 DEF MarkDone
      <4>2. Marked(rep) BY <1>0, <4>1 DEF HoldPlace, Marked
      <4> QED BY <1>b, <1>d, <3>1, <4>2
    <3>5. ~CheckRepair
      BY <2>3, <3>1 DEF CheckRepair, Goto, Raised, EndSession
    <3> QED BY <1>0, <2>3, <3>2, <3>3, <3>4, <3>5, CheckpointSteps DEF FinishTask, OpenRepair
  <2>4. CASE UNCHANGED session BY <1>1, <2>4
  <2>5. CASE ~UNCHANGED session
    BY <1>c, <2>1, <2>2, <2>3, <2>5 DEF HoldPlace
  <2> QED BY <2>4, <2>5
<1>3. ASSUME NEW r \in Repairs, OpenRepair(r) PROVE HoldPlace'
  <2>1. pc' = "check" /\ rep' = r /\ UNCHANGED <<found, pending>> /\ pr[r] = "none"
    BY <1>3 DEF OpenRepair, comments
  <2>2. \A i \in Items : pending[i][r] = NoPending BY <1>0, <2>1 DEF TrailInv, Opened
  <2> QED BY <1>c, <2>1, <2>2 DEF HoldPlace
<1>4. ASSUME Requeue PROVE HoldPlace'
  <2>1. pc = "requeue" /\ pc' = "repair" /\ found' = Discovered /\ kind' = kind
    BY <1>4 DEF Requeue, Goto
  <2>2. ASSUME NEW r \in Discovered PROVE Marked(r)'
    <3>1. r \in Repairs /\ ~Unheard(r) BY <2>2 DEF Discovered, Unheard, Active
    <3>2. Marked(r) BY <1>0, <2>1, <3>1 DEF HoldTrail, Marking
    <3>3. Opened(r) BY <1>0, <2>2, <3>1 DEF Discovered, TrailInv, Active
    <3> QED BY <1>a, <3>1, <3>2, <3>3
  <2> QED BY <2>1, <2>2 DEF HoldPlace
<1>5. ASSUME CheckRepair PROVE HoldPlace'
  <2>1. CASE Raised BY <1>2, <2>1, RaisedAway
  <2>2. CASE ~Raised
    <3>1. /\ UNCHANGED <<rep, kind, found, pending>> /\ pc = "check"
          /\ pc' = IF kind = "repair" THEN "mark" ELSE "local"
      BY <1>5, <2>2 DEF CheckRepair, Goto, comments, loop
    <3> QED BY <1>0, <1>c, <3>1 DEF HoldPlace
  <2> QED BY <2>1, <2>2
<1>6. ASSUME NEW r \in Repairs, NextRepair(r) PROVE HoldPlace'
  <2>1. /\ rep' = r /\ found' \subseteq found /\ r \in found /\ pc = "repair" /\ kind' = kind
        /\ pc' \in {"reconcile", "restore", "mark"}
    BY <1>6 DEF NextRepair, Goto
  <2>2. kind = "none" BY <1>0, <2>1 DEF SessionInv
  <2>3. Marked(r)' BY <1>c, <2>1
  <2>4. Marked(rep)' BY <2>1, <2>3 DEF Marked, Old, Opened
  <2> QED BY <1>c, <2>1, <2>2, <2>4 DEF HoldPlace
<1>7. ASSUME Mark PROVE HoldPlace'
  <2>1. CASE Raised BY <1>2, <2>1, RaisedAway
  <2>2. CASE ~Raised
    <3>1. /\ UNCHANGED <<rep, kind, found>> /\ pc = "mark" /\ pc' = "markNote"
          /\ todo' = AffectedIssues
      BY <1>7, <2>2 DEF Mark, Goto
    <3>2. Old(rep) \subseteq AffectedIssues
      BY <1>0, <1>d, <3>1 DEF TrailInv, AffectedIssues, Old
    <3>3. Old(rep)' = Old(rep) BY <1>d, <1>e, <3>1
    <3> QED BY <1>0, <1>b, <1>c, <1>d, <3>1, <3>2, <3>3 DEF HoldPlace
  <2> QED BY <2>1, <2>2
<1>8. ASSUME NEW i \in Items, MarkNote(i) PROVE HoldPlace'
  <2>1. /\ UNCHANGED <<rep, kind, found, todo>> /\ pc = "markNote" /\ pc' = "markLabel" /\ cur' = i
    BY <1>8 DEF MarkNote, Goto
  <2>2. pending'[i][rep] # NoPending BY <1>0, <1>8, MarkNoteEffect
  <2>3. Old(rep)' = Old(rep) BY <1>d, <1>e, <2>1
  <2> QED BY <1>0, <1>b, <1>c, <1>d, <1>f, <1>g, <2>1, <2>2, <2>3 DEF HoldPlace
<1>9. ASSUME MarkLabel PROVE HoldPlace'
  <2>1. /\ UNCHANGED <<rep, kind, found, pending>> /\ pc = "markLabel" /\ pc' = "markNote"
        /\ todo' = todo \ {cur}
    BY <1>9 DEF MarkLabel, Goto, comments
  <2>2. Old(rep)' = Old(rep) BY <1>d, <1>e, <2>1
  <2> QED BY <1>0, <1>b, <1>c, <1>d, <2>1, <2>2 DEF HoldPlace
<1>10. ASSUME \/ Restore \/ Reconcile \/ Repoint \/ Supersede \/ Recompute
              \/ RequeueLabel \/ ReconciledNote \/ ItemsDone \/ ResolveNote \/ ClearRead \/ Clear
              \/ \E i \in Items : \/ RestoreLabel(i) \/ CreateIssue(i) \/ ReconcileItem(i)
                                  \/ SkipItem(i) \/ Resolve(i)
       PROVE  HoldPlace'
  <2>1. /\ UNCHANGED <<rep, kind, found>> /\ pc \in RepairPC \ MarkPC
    BY <1>10 DEF Restore, Reconcile, Repoint, Supersede, Recompute, RequeueLabel, ReconciledNote,
       ItemsDone, ResolveNote, ClearRead, Clear, RestoreLabel, CreateIssue, ReconcileItem,
       SkipItem, Resolve, Goto, loop, MarkPC
  <2>2. pc' \in RepairPC \ MarkPC
    <3>1. CASE Recompute BY <3>1 DEF Recompute, Goto, MarkPC
    <3>2. CASE ~Recompute
      BY <1>10, <3>2 DEF Restore, Reconcile, Repoint, Supersede, RequeueLabel, ReconciledNote,
         ItemsDone, ResolveNote, ClearRead, Clear, RestoreLabel, CreateIssue, ReconcileItem,
         SkipItem, Resolve, Goto, MarkPC
    <3> QED BY <3>1, <3>2
  <2>3. kind # "repair" BY <1>0, <2>1 DEF SessionInv, MarkPC
  <2> QED BY <1>0, <1>b, <1>c, <1>d, <2>1, <2>2, <2>3 DEF HoldPlace, MarkPC
<1> QED BY <1>0, <1>1, <1>2, <1>3, <1>4, <1>5, <1>6, <1>7, <1>8, <1>9, <1>10, SessionSteps, Zenon
        DEF RepairWork

\* A quiet step keeps what comments and places tell of the marks.
LEMMA HoldKept == ASSUME TInv, ActiveInv, TraceInv, HoldInv, Quiet PROVE HoldInv'
BY HoldTrailKept, HoldPlaceKept DEF HoldInv

-----------------------------------------------------------------------------
(* While nothing fails: the label leads to every pending repair. *)

\* Open issues under a pending repair, but for those whose label a command that
\* takes no lock has erased.
Pends(i) == i \notin dropped /\ issue[i].state = "open" /\ Active(i) # {}

\* The requeue under way has yet to bring the issue up to date with its repair.
Ahead(i) ==
    \E q \in Active(i) :
        \/ q \in found
        \/ pc \in RepairPC /\ q = rep /\ (pc \notin LoopPC \/ i \in todo)

\* The session has written the final status of i, and requeues next.
Closing(i) == i = item /\ ctx = "end" /\ pc \in {"refresh", "requeue"}

\* Repairs are handled in the order of their numbers, and a requeue finds them
\* all: a repair that holds an issue is still to come, or has been passed.
FoundInv ==
    /\ pc # "repair" /\ pc \notin RepairPC => found = {}
    /\ kind = "repair" => found = {}
    /\ pc \in RepairPC => \A x \in found : rep < x
    /\ \A i \in Items : Pends(i) => \A q \in Active(i) :
         /\ pc = "repair" => q \in found \/ \A x \in found : q < x
         /\ pc \in RepairPC /\ kind # "repair" => q \in found \/ q <= rep

\* An open issue under a pending repair carries the label, and waits, or the
\* requeue under way will see to it.
ShownInv ==
    \A i \in Items : Pends(i) =>
        /\ issue[i].label \/ Ahead(i)
        /\ issue[i].status \in Rest \/ Ahead(i) \/ Closing(i)

\* What the session has read since is no reason to undo that.
ReadInv ==
    /\ pc \in {"promoting", "select"} => \A i \in todo : i \in dropped \/ Active(i) = {}
    /\ pc \in {"claimRead", "claim"} => cur \in dropped \/ Active(cur) = {}
    /\ pc = "claimed" => item \in dropped \/ Active(item) = {}
    /\ pc = "final" /\ item \in Items => (Pends(item) => seen[item].label)
    /\ pc \in {"markNote", "markLabel"} => \A i \in todo : issue[i].state = "open" =>
         /\ seen[i].state = "open"
         /\ i \in dropped \/ (seen[i].label => /\ issue[i].label
                                               /\ seen[i].status = "blocked"
                                                     => issue[i].status \in Rest)

LabelInv == FoundInv /\ ShownInv /\ ReadInv

\* Steps of nobody in the session; steps of the session that handle no repair;
\* the end of the loop over the issues of one.
OutsideStep == Unlocked \/ Reviewers \/ UNCHANGED vars

OwnStep ==
    \/ StartWorker \/ Promote \/ ListReady \/ NothingReady \/ ClaimRead \/ Claim \/ RejectClaim
    \/ RunTask \/ WriteLocal \/ PostCheckpoint \/ Outcome \/ FinalStatus \/ Refresh \/ TaskReturns
    \/ \E i \in Items : PromoteIssue(i) \/ Demote(i) \/ Select(i) \/ StartContinue(i)
    \/ \E k \in {"plain", "pr", "manual"} : FinishTask(k)

LoopEnd == MarkDone \/ RestoreDone \/ ResolveDone

\* These are all the steps.
LEMMA QuietSteps ==
  ASSUME Quiet PROVE OutsideStep \/ OwnStep \/ LoopEnd \/ RequeueDone \/ RepairWork
<1>1. CASE Requeuing BY <1>1, Zenon DEF Requeuing, RepairStep, RepairWork, LoopEnd
<1>2. CASE ~Requeuing
  BY <1>2, Zenon DEF Quiet, Next, Step, OutsideStep, OwnStep, RepairWork
<1> QED BY <1>1, <1>2

\* The steps of nobody in the session leave it where it is.
LEMMA OutsideSession == ASSUME OutsideStep PROVE UNCHANGED session
BY DEF OutsideStep, Unlocked, Reviewers, ObserveCi, FinishCommand, StartRefreshCi, StartFulfil,
       CloseIssue, RetryIssue, DecideRepair, vars

\* The steps that handle no repair stay away from repairs.
LEMMA OwnAway ==
  ASSUME OwnStep
  PROVE  /\ pc # "repair" /\ pc \notin RepairPC /\ pc' # "repair" /\ pc' \notin RepairPC
         /\ found' = found \/ found' = {}
         /\ kind' = "repair" => kind = "repair"
<1> DEFINE P == /\ pc # "repair" /\ pc \notin RepairPC /\ pc' # "repair" /\ pc' \notin RepairPC
                /\ found' = found \/ found' = {}
                /\ kind' = "repair" => kind = "repair"
<1>1. ASSUME \/ StartWorker \/ Promote \/ ListReady \/ ClaimRead \/ Claim \/ RunTask \/ WriteLocal
             \/ PostCheckpoint \/ Outcome \/ FinalStatus \/ Refresh \/ TaskReturns
             \/ \E i \in Items : PromoteIssue(i) \/ Demote(i) \/ StartContinue(i)
             \/ \E k \in {"plain", "pr", "manual"} : FinishTask(k)
      PROVE  P
  BY <1>1 DEF StartWorker, Promote, ListReady, ClaimRead, Claim, RunTask, WriteLocal,
     PostCheckpoint, Outcome, FinalStatus, Refresh, TaskReturns, PromoteIssue, Demote,
     StartContinue, FinishTask, Goto, Forget, loop, RepairPC
<1>2. ASSUME Raised \/ EndSession
      PROVE  pc' \in {"idle", "outcome"} /\ found' = {} /\ kind' = "none"
  BY <1>2 DEF Raised, EndSession, Forget
<1>3. ASSUME NothingReady \/ RejectClaim PROVE P
  BY <1>2, <1>3 DEF NothingReady, RejectClaim, RepairPC
<1>4. ASSUME NEW i \in Items, Select(i) PROVE P
  <2>1. pc = "select" BY <1>4 DEF Select
  <2>2. CASE Raised BY <1>2, <2>1, <2>2 DEF RepairPC
  <2>3. CASE ~Raised BY <1>4, <2>3 DEF Select, RepairPC
  <2> QED BY <2>2, <2>3
<1> HIDE DEF P
<1>5. P BY <1>1, <1>3, <1>4, Zenon DEF OwnStep
<1> QED BY <1>5 DEF P

\* Only a command that takes no lock makes a label go missing.
LEMMA DroppedSteps ==
  ASSUME Quiet PROVE dropped' = dropped \/ (FinishCommand /\ dropped \subseteq dropped')
<1>1. OutsideStep => dropped' = dropped \/ (FinishCommand /\ dropped \subseteq dropped')
  BY DEF OutsideStep, Unlocked, Reviewers, ObserveCi, FinishCommand, StartRefreshCi, StartFulfil,
         CloseIssue, RetryIssue, DecideRepair, vars, outside
<1>2. OwnStep => dropped' = dropped
  BY DEF OwnStep, StartWorker, Promote, ListReady, NothingReady, ClaimRead, Claim, RejectClaim,
     RunTask, WriteLocal, PostCheckpoint, Outcome, FinalStatus, Refresh, TaskReturns,
     PromoteIssue, Demote, Select, StartContinue, FinishTask, outside
<1>3. Requeuing \/ CheckRepair \/ (\E r \in Repairs : OpenRepair(r)) => dropped' = dropped
  BY DEF Requeuing, CheckRepair, OpenRepair, outside
<1>4. OutsideStep \/ OwnStep \/ Requeuing \/ CheckRepair \/ \E r \in Repairs : OpenRepair(r)
  <2>1. CASE Requeuing BY <2>1
  <2>2. CASE ~Requeuing BY <2>2, Zenon DEF Quiet, Next, Step, OutsideStep, OwnStep
  <2> QED BY <2>1, <2>2
<1> QED BY <1>1, <1>2, <1>3, <1>4

\* Nobody opens an issue again.
LEMMA OpenSteps ==
  ASSUME TInv, TraceInv, [Next]_vars, NEW i \in Items, issue'[i].state = "open"
  PROVE  issue[i].state = "open" \/ CreateIssue(i)
<1>0. LoopInv /\ OtherInv BY DEF TraceInv
<1>1. CASE SameTrail BY <1>1 DEF SameTrail
<1>2. ASSUME NEW j \in Items, CreateIssue(j) PROVE issue[i].state = "open" \/ CreateIssue(i)
  BY <1>2, CreateEffect
<1>3. CASE TrailStep /\ ~\E j \in Items : CreateIssue(j)
  <2>1. UNCHANGED issue
    BY <1>3 DEF TrailStep, Refresh, ResolveNote, ReconciledNote, PostCheckpoint, MarkNote,
       OpenRepair, DecideRepair
  <2> QED BY <2>1
<1> QED BY <1>0, <1>1, <1>2, <1>3, TrailSteps

\* An issue comes under a pending repair when it is marked.
LEMMA PendsSteps ==
  ASSUME TInv, TraceInv, Quiet, NEW i \in Items, Pends(i)'
  PROVE  /\ i \notin dropped /\ issue[i].state = "open" /\ ~CreateIssue(i)
         /\ \A q \in Active(i)' : q \in Active(i) \/ (MarkNote(i) /\ q = rep)
         /\ Pends(i) \/ MarkNote(i)
<1>0. [Next]_vars /\ LoopInv /\ OtherInv /\ TrailInv BY DEF Quiet, TraceInv
<1>1. i \notin dropped BY DroppedSteps DEF Pends
<1>2. \A q \in Active(i)' : q \in Active(i) \/ (MarkNote(i) /\ q = rep) BY <1>0, ActiveSteps
<1>3. Active(i)' # {} /\ issue'[i].state = "open" BY DEF Pends
<1>4. ~CreateIssue(i)
  <2> SUFFICES ASSUME CreateIssue(i) PROVE FALSE OBVIOUS
  <2>1. pc = "item" /\ seen[i].state = "absent" BY DEF CreateIssue
  <2>2. ~Exists(i) BY <1>0, <2>1 DEF LoopInv, ItemPC
  <2>3. Active(i) = {} BY <1>0, <2>2 DEF TrailInv, Active
  <2> QED BY <1>2, <1>3, <2>1, <2>3 DEF MarkNote
<1>5. issue[i].state = "open" BY <1>0, <1>3, <1>4, OpenSteps
<1> QED BY <1>1, <1>2, <1>3, <1>4, <1>5 DEF Pends

\* The order in which a requeue handles the repairs.
LEMMA FoundKept ==
  ASSUME TInv, TraceInv, HoldInv, LabelInv, Quiet PROVE FoundInv'
<1>0. /\ GitHubType /\ LoopType /\ SessionInv /\ TrailInv /\ PlaceInv /\ LoopInv
      /\ FoundInv /\ ShownInv /\ [Next]_vars /\ Repairs \subseteq Nat
      /\ \A i : Active(i) \subseteq Repairs
  BY PlanAssumption DEF TInv, TraceInv, LabelInv, Quiet, Active
<1>a. ASSUME pc' # "repair", pc' \notin RepairPC, found' = {} PROVE FoundInv'
  BY <1>a DEF FoundInv
<1>b. \A i \in Items : Pends(i)' =>
         \A q \in Active(i)' : (Pends(i) /\ q \in Active(i)) \/ (MarkNote(i) /\ q = rep)
  <2> SUFFICES ASSUME NEW i \in Items, Pends(i)', NEW q \in Active(i)'
               PROVE  (Pends(i) /\ q \in Active(i)) \/ (MarkNote(i) /\ q = rep)
    OBVIOUS
  <2>1. /\ i \notin dropped /\ issue[i].state = "open"
        /\ q \in Active(i) \/ (MarkNote(i) /\ q = rep)
    BY PendsSteps
  <2> QED BY <2>1 DEF Pends
<1>c. ASSUME Raised PROVE FoundInv'
  BY <1>a, <1>c DEF Raised, EndSession, Forget, RepairPC
<1>1. ASSUME OutsideStep PROVE FoundInv'
  <2>1. UNCHANGED <<pc, kind, rep, found>> BY <1>1, OutsideSession DEF session, loop
  <2>2. \A i \in Items : ~MarkNote(i) BY <2>1 DEF MarkNote, Goto
  <2> QED BY <1>0, <1>b, <2>1, <2>2 DEF FoundInv
<1>2. ASSUME OwnStep PROVE FoundInv' BY <1>0, <1>2, <1>a, OwnAway DEF FoundInv
<1>3. ASSUME LoopEnd PROVE FoundInv'
  <2>1. /\ UNCHANGED <<kind, rep, found>> /\ pc \in RepairPC
        /\ pc' = IF MarkDone /\ kind = "repair" THEN "local" ELSE "repair"
        /\ pc \in {"markNote", "restoreLabel", "resolve"} /\ (pc = "markNote" <=> MarkDone)
    BY <1>3 DEF LoopEnd, MarkDone, RestoreDone, ResolveDone, Goto, loop, RepairPC
  <2>2. \A i \in Items : ~MarkNote(i) BY <2>1 DEF MarkNote, Goto
  <2>3. CASE pc' = "local" BY <1>0, <1>a, <2>1, <2>3 DEF FoundInv, RepairPC
  <2>4. CASE pc' = "repair"
    <3>1. kind # "repair" BY <1>0, <2>1, <2>4 DEF SessionInv
    <3>2. rep \in Repairs BY <1>0, <2>1 DEF SessionInv
    <3>3. ASSUME NEW i \in Items, Pends(i)', NEW q \in Active(i)'
          PROVE  q \in found \/ \A x \in found : q < x
      <4>1. q \in found \/ q <= rep BY <1>0, <1>b, <2>1, <2>2, <3>1, <3>3 DEF FoundInv
      <4>2. q \in Nat /\ rep \in Nat /\ found \subseteq Nat
        BY <1>0, <1>b, <2>2, <3>2, <3>3 DEF LoopType
      <4>3. \A x \in found : rep < x BY <1>0, <2>1 DEF FoundInv
      <4> QED BY <4>1, <4>2, <4>3
    <3> QED BY <2>1, <2>4, <3>1, <3>3 DEF FoundInv, RepairPC
  <2> QED BY <2>1, <2>3, <2>4
<1>4. ASSUME RequeueDone PROVE FoundInv'
  BY <1>4, <1>a DEF RequeueDone, EndSession, Goto, Forget, RepairPC
<1>5. ASSUME Requeue PROVE FoundInv'
  <2>1. /\ pc = "requeue" /\ pc' = "repair" /\ found' = Discovered /\ kind' = kind
        /\ UNCHANGED <<issue, pending, resolved>>
    BY <1>5 DEF Requeue, Goto, comments
  <2>2. kind # "repair" BY <1>0, <2>1 DEF SessionInv
  <2>3. ASSUME NEW i \in Items, Pends(i)', NEW q \in Active(i)' PROVE q \in found'
    <3>1. Pends(i) /\ q \in Active(i) BY <1>b, <2>1, <2>3 DEF MarkNote
    <3>2. ~Ahead(i) BY <1>0, <2>1 DEF FoundInv, Ahead, RepairPC
    <3>3. issue[i].label BY <1>0, <3>1, <3>2 DEF ShownInv
    <3> QED BY <1>0, <2>1, <3>1, <3>3 DEF Discovered
  <2> QED BY <2>1, <2>2, <2>3 DEF FoundInv, RepairPC
<1>6. ASSUME NEW r \in Repairs, NextRepair(r) PROVE FoundInv'
  <2>1. /\ rep' = r /\ found' = found \ {r} /\ r \in found /\ \A q \in found : r <= q
        /\ pc = "repair" /\ kind' = kind /\ pc' \in {"reconcile", "restore", "mark"}
    BY <1>6 DEF NextRepair, Goto
  <2>2. kind = "none" BY <1>0, <2>1 DEF SessionInv
  <2>3. found \subseteq Nat /\ r \in Nat BY <1>0 DEF LoopType
  <2>4. \A x \in found' : r < x BY <2>1, <2>3
  <2>5. ASSUME NEW i \in Items, Pends(i)', NEW q \in Active(i)' PROVE q \in found' \/ q <= r
    <3>1. Pends(i) /\ q \in Active(i) BY <1>b, <2>1, <2>5 DEF MarkNote
    <3>2. q \in found \/ q < r BY <1>0, <2>1, <3>1 DEF FoundInv
    <3>3. q \in Nat BY <1>0, <3>1
    <3> QED BY <2>1, <2>3, <3>2, <3>3
  <2> QED BY <2>1, <2>2, <2>4, <2>5 DEF FoundInv, RepairPC
<1>7. ASSUME NEW r \in Repairs, OpenRepair(r) PROVE FoundInv'
  <2>1. pc = "run" /\ pc' = "check" /\ found' = found BY <1>7 DEF OpenRepair
  <2> QED BY <1>0, <1>a, <2>1 DEF FoundInv, RepairPC
<1>8. ASSUME CheckRepair PROVE FoundInv'
  <2>1. CASE Raised BY <1>c, <2>1
  <2>2. CASE ~Raised
    <3>1. /\ UNCHANGED <<rep, kind, found>> /\ pc = "check"
          /\ pc' = IF kind = "repair" THEN "mark" ELSE "local"
      BY <1>8, <2>2 DEF CheckRepair, Goto, loop
    <3> QED BY <1>0, <3>1 DEF FoundInv, RepairPC
  <2> QED BY <2>1, <2>2
<1>9. ASSUME \/ MarkLabel \/ Restore \/ Reconcile \/ Repoint \/ Supersede \/ Recompute
             \/ RequeueLabel \/ ReconciledNote \/ ItemsDone \/ ResolveNote \/ ClearRead \/ Clear
             \/ (Mark /\ ~Raised)
             \/ \E i \in Items : \/ MarkNote(i) \/ RestoreLabel(i) \/ CreateIssue(i)
                                 \/ ReconcileItem(i) \/ SkipItem(i) \/ Resolve(i)
      PROVE  FoundInv'
  <2>1. UNCHANGED <<rep, kind, found>> /\ pc \in RepairPC
    BY <1>9 DEF MarkLabel, Restore, Reconcile, Repoint, Supersede, Recompute, RequeueLabel,
       ReconciledNote, ItemsDone, ResolveNote, ClearRead, Clear, Mark, MarkNote, RestoreLabel,
       CreateIssue, ReconcileItem, SkipItem, Resolve, Goto, loop, RepairPC
  <2>2. pc' \in RepairPC
    <3>1. CASE Recompute BY <3>1 DEF Recompute, Goto, RepairPC
    <3>2. CASE Mark /\ ~Raised BY <3>2 DEF Mark, Goto, RepairPC
    <3>3. CASE ~Recompute /\ ~(Mark /\ ~Raised)
      BY <1>9, <3>3 DEF MarkLabel, Restore, Reconcile, Repoint, Supersede, RequeueLabel,
         ReconciledNote, ItemsDone, ResolveNote, ClearRead, Clear, MarkNote, RestoreLabel,
         CreateIssue, ReconcileItem, SkipItem, Resolve, Goto, RepairPC
    <3> QED BY <1>9, <3>1, <3>2, <3>3
  <2>3. ASSUME NEW i \in Items, Pends(i)', NEW q \in Active(i)', kind # "repair"
        PROVE  q \in found \/ q <= rep
    <3>1. (Pends(i) /\ q \in Active(i)) \/ q = rep BY <1>b, <2>3
    <3>2. rep \in Nat BY <1>0, <2>1 DEF SessionInv
    <3> QED BY <1>0, <2>1, <2>3, <3>1, <3>2 DEF FoundInv
  <2> QED BY <1>0, <2>1, <2>2, <2>3 DEF FoundInv, RepairPC
<1>10. ASSUME Mark, Raised PROVE FoundInv' BY <1>10, <1>c
<1> QED BY <1>1, <1>2, <1>3, <1>4, <1>5, <1>6, <1>7, <1>8, <1>9, <1>10, QuietSteps, Zenon
        DEF RepairWork

\* Commands and reviewers leave a label and a status that waits alone.
LEMMA OutsideRow ==
  ASSUME TInv, TraceInv, OutsideStep, NEW i \in Items, i \notin dropped', issue'[i].state = "open"
  PROVE  /\ issue[i].state = "open" /\ i \notin dropped
         /\ issue[i].label => /\ issue'[i].label
                              /\ issue[i].status \in Rest => issue'[i].status \in Rest
<1> DEFINE P == /\ issue[i].state = "open" /\ i \notin dropped
                /\ issue[i].label => /\ issue'[i].label
                                     /\ issue[i].status \in Rest => issue'[i].status \in Rest
<1>0. GitHubType /\ OtherInv /\ issue[i] \in Issue BY DEF TInv, TraceInv, GitHubType
<1>1. ASSUME \/ ObserveCi \/ UNCHANGED vars
             \/ \E j \in Items : StartRefreshCi(j) \/ StartFulfil(j)
             \/ \E r \in Repairs : DecideRepair(r)
      PROVE  P
  BY <1>1 DEF ObserveCi, StartRefreshCi, StartFulfil, DecideRepair, vars, outside
<1>2. ASSUME FinishCommand PROVE P
  <2>1. dropped \subseteq dropped' BY <1>2 DEF FinishCommand
  <2>2. CASE i # command.item BY <1>2, <2>1, <2>2, FinishEffect
  <2>3. CASE i = command.item
    <3>1. /\ issue'[i].status = command.status /\ issue'[i].label = command.label
          /\ issue'[i].state = IF command.op = "fulfil" THEN "closed" ELSE issue[i].state
      BY <1>2, <2>3, FinishEffect
    <3>2. command.op = "ci" BY <1>2, <3>1 DEF FinishCommand
    <3>3. command.status \in Rest BY <1>0, <3>2 DEF OtherInv
    <3>4. issue[i].label => command.label BY <1>2, <2>3 DEF FinishCommand
    <3> QED BY <2>1, <3>1, <3>2, <3>3, <3>4
  <2> QED BY <2>2, <2>3
<1>3. ASSUME NEW j \in Items, CloseIssue(j) \/ RetryIssue(j) PROVE P
  <2>0. dropped' = dropped BY <1>3 DEF CloseIssue, RetryIssue, outside
  <2>1. CASE i # j BY <1>0, <1>3, <2>0, <2>1, ReviewEffect
  <2>2. CASE i = j
    <3>1. ~CloseIssue(j) BY <1>0, <2>2, ReviewEffect
    <3>2. issue'[i].label = issue[i].label BY <1>0, <1>3, <2>2, ReviewEffect
    <3>3. /\ issue[i].state = "open"
          /\ (issue[i].status = "blocked" /\ ~issue[i].label) \/ issue[i].status = "claimed"
      BY <1>3, <2>2, <3>1 DEF RetryIssue
    <3> QED BY <2>0, <3>2, <3>3 DEF Rest
  <2> QED BY <2>1, <2>2
<1> HIDE DEF P
<1>4. P BY <1>1, <1>2, <1>3, Zenon DEF OutsideStep, Unlocked, Reviewers
<1> QED BY <1>4 DEF P

\* They write no comment.
LEMMA OutsideComments == ASSUME OutsideStep PROVE UNCHANGED comments
BY DEF OutsideStep, Unlocked, Reviewers, ObserveCi, FinishCommand, StartRefreshCi, StartFulfil,
       CloseIssue, RetryIssue, DecideRepair, vars

\* A repair that a requeue handles meets no other on its issues.
LEMMA MarkRaises ==
  ASSUME TInv, ActiveInv, TraceInv, HoldInv, Mark, Raised PROVE kind = "repair"
<1> SUFFICES ASSUME kind # "repair" PROVE FALSE OBVIOUS
<1>0. pc = "mark" /\ rep \in Repairs /\ Affected[rep] \subseteq Items
  BY PlanAssumption DEF Mark, TInv, SessionInv, RepairPC
<1>1. MarkConflict BY <1>0 DEF Mark, Raised, EndSession, Goto
<1>2. PICK i \in AffectedIssues : Active(i) \ {rep} # {} BY <1>1 DEF MarkConflict
<1>3. i \in Items /\ i \in Affected[rep] /\ Exists(i) BY <1>0 DEF AffectedIssues
<1>4. rep \in Active(i) BY <1>0, <1>3, HeldIssues DEF MarkPC
<1> QED BY <1>2, <1>3, <1>4 DEF ActiveInv

\* While a session handles no repair, none is ahead.
LEMMA NoneAhead ==
  ASSUME TInv, ActiveInv, TraceInv, HoldInv, FoundInv, NEW i \in Items,
         \/ pc # "repair" /\ pc \notin RepairPC
         \/ RequeueDone \/ (Mark /\ Raised)
  PROVE  ~Ahead(i)
<1>1. CASE pc # "repair" /\ pc \notin RepairPC BY <1>1 DEF FoundInv, Ahead
<1>2. CASE RequeueDone BY <1>2 DEF RequeueDone, Ahead, RepairPC
<1>3. CASE Mark /\ Raised
  <2>1. kind = "repair" /\ pc = "mark" BY <1>3, MarkRaises DEF Mark
  <2>2. found = {} /\ pending[i][rep] = NoPending BY <2>1 DEF FoundInv, HoldInv, HoldPlace
  <2> QED BY <2>2 DEF Ahead, Active
<1> QED BY <1>1, <1>2, <1>3

\* The repair that holds the issue at hand, if it is another, comes later in
\* the same requeue.
LEMMA OtherAhead ==
  ASSUME TInv, TraceInv, HoldInv, FoundInv, pc \in RepairPC, kind # "repair",
         NEW i \in Items, Pends(i), i \in Affected[rep], NEW q \in Active(i), q # rep
  PROVE  q \in found
<1>0. rep \in Repairs /\ Marked(rep) /\ q \in Repairs /\ Repairs \subseteq Nat
  BY PlanAssumption DEF TInv, SessionInv, HoldInv, HoldPlace, Active
<1>1. rep <= q BY <1>0, HolderIsNewest
<1>2. q \in found \/ q <= rep BY DEF FoundInv
<1> QED BY <1>0, <1>1, <1>2

\* Every write of labels leaves a pending label in place, or comes before the
\* requeue that sets it again.
LEMMA ShownKept ==
  ASSUME TInv, ActiveInv, TraceInv, HoldInv, LabelInv, Quiet PROVE ShownInv'
<1>0. /\ GitHubType /\ LoopType /\ SessionInv /\ TrailInv /\ PlaceInv /\ LoopInv /\ OtherInv
      /\ FoundInv /\ ShownInv /\ ReadInv /\ [Next]_vars
      /\ Affected \in [Repairs -> SUBSET Items]
  BY PlanAssumption DEF TInv, TraceInv, LabelInv, Quiet
<1> SUFFICES ASSUME NEW i \in Items, Pends(i)', ~Ahead(i)'
             PROVE  issue'[i].label /\ (issue'[i].status \in Rest \/ Closing(i)')
  BY DEF ShownInv
<1> DEFINE G == issue'[i].label /\ (issue'[i].status \in Rest \/ Closing(i)')
<1>a. Pends(i) /\ ~MarkNote(i) /\ ~CreateIssue(i) /\ issue'[i].state = "open"
  <2>1. ~MarkNote(i)
    <3> SUFFICES ASSUME MarkNote(i) PROVE FALSE OBVIOUS
    <3>1. rep \in Active(i)' BY <1>0, MarkNoteEffect
    <3>2. pc' = "markLabel" /\ rep' = rep /\ i \in todo' BY DEF MarkNote, Goto
    <3> QED BY <3>1, <3>2 DEF Ahead, RepairPC
  <2> QED BY <2>1, PendsSteps DEF Pends
<1>b. ~Ahead(i) => issue[i].label /\ (issue[i].status \in Rest \/ Closing(i))
  BY <1>0, <1>a DEF ShownInv
<1>c. ASSUME ~Ahead(i), issue'[i].label = issue[i].label, issue'[i].status = issue[i].status,
             pc \notin {"refresh", "requeue"}
      PROVE  G
  BY <1>b, <1>c DEF Closing
<1>d. ASSUME UNCHANGED <<pending, resolved, rep>>, found' = found, pc' \in RepairPC,
             pc' \notin LoopPC \/ i \in todo' \/ rep \notin Active(i)
      PROVE  ~Ahead(i)
  BY <1>d DEF Ahead, Active
<1> USE DEF RepairPC
<1>1. ASSUME OutsideStep PROVE G
  <2>1. UNCHANGED <<pc, ctx, item, rep, found, todo, pending, resolved>>
    BY <1>1, OutsideSession, OutsideComments DEF session, loop, worker, comments
  <2>2. ~Ahead(i) BY <2>1 DEF Ahead, Active
  <2>3. Closing(i) => Closing(i)' BY <2>1 DEF Closing
  <2>4. i \notin dropped' BY DEF Pends
  <2> QED BY <1>1, <1>a, <1>b, <2>2, <2>3, <2>4, OutsideRow
<1>2. ASSUME OwnStep PROVE G
  <2>0. ~Ahead(i) BY <1>0, <1>2, NoneAhead, OwnAway
  <2>1. ASSUME \/ StartWorker \/ Promote \/ ListReady \/ NothingReady \/ ClaimRead \/ RunTask
               \/ WriteLocal \/ PostCheckpoint \/ Outcome \/ TaskReturns
               \/ \E j \in Items : Select(j) \/ StartContinue(j)
               \/ \E k \in {"plain", "pr", "manual"} : FinishTask(k)
        PROVE  G
    <3>1. issue' = issue /\ pc \notin {"refresh", "requeue"}
      BY <2>1 DEF StartWorker, Promote, ListReady, NothingReady, ClaimRead, RunTask, WriteLocal,
         PostCheckpoint, Outcome, TaskReturns, Select, StartContinue, FinishTask
    <3> QED BY <1>c, <2>0, <3>1
  <2>2. ASSUME Refresh PROVE G
    <3>1. issue' = issue /\ pc' = "requeue" /\ UNCHANGED <<item, ctx>>
      BY <2>2 DEF Refresh, Goto, worker
    <3> QED BY <1>b, <2>0, <3>1 DEF Closing
  <2>3. ASSUME NEW j, NEW s, NEW l, SetLabels(j, s, l), j # i, pc \notin {"refresh", "requeue"}
        PROVE  G
    BY <1>0, <1>c, <2>0, <2>3, SetLabelsEffect
  <2>4. ASSUME NEW j \in Items, PromoteIssue(j) \/ Demote(j) PROVE G
    <3>1. /\ pc \in {"promoting", "select"} /\ j \in todo
          /\ issue' = issue \/ \E s, l : SetLabels(j, s, l)
      BY <2>4 DEF PromoteIssue, Demote
    <3>2. j # i BY <1>0, <1>a, <3>1 DEF ReadInv, Pends
    <3> QED BY <1>c, <2>0, <2>3, <3>1, <3>2
  <2>5. ASSUME Claim PROVE G
    <3>1. pc = "claim" /\ \E s, l : SetLabels(cur, s, l) BY <2>5 DEF Claim
    <3>2. cur # i BY <1>0, <1>a, <3>1 DEF ReadInv, Pends
    <3> QED BY <2>3, <3>1, <3>2
  <2>6. ASSUME RejectClaim PROVE G
    <3>1. pc = "claimed" /\ \E s, l : SetLabels(item, s, l) BY <2>6 DEF RejectClaim
    <3>2. item # i BY <1>0, <1>a, <3>1 DEF ReadInv, Pends
    <3> QED BY <2>3, <3>1, <3>2
  <2>7. ASSUME FinalStatus PROVE G
    <3>1. /\ pc = "final" /\ SetLabels(item, status, seen[item].label)
          /\ pc' = "refresh" /\ UNCHANGED <<item, ctx>>
      BY <2>7 DEF FinalStatus, Goto, worker
    <3>2. CASE item # i BY <2>3, <3>1, <3>2
    <3>3. CASE item = i
      <4>1. seen[item].label /\ ctx = "end" BY <1>0, <1>a, <3>1, <3>3 DEF ReadInv, OtherInv
      <4>2. issue'[i].label = seen[item].label BY <1>0, <3>1, <3>3, SetLabelsEffect
      <4> QED BY <3>1, <3>3, <4>1, <4>2 DEF Closing
    <3> QED BY <3>2, <3>3
  <2> HIDE DEF G
  <2> QED BY <1>2, <2>1, <2>2, <2>4, <2>5, <2>6, <2>7, Zenon DEF OwnStep
<1>3. ASSUME LoopEnd PROVE G
  <2>1. /\ issue' = issue /\ UNCHANGED <<pending, resolved, found>> /\ todo = {}
        /\ pc \in {"markNote", "restoreLabel", "resolve"}
    BY <1>3 DEF LoopEnd, MarkDone, RestoreDone, ResolveDone, comments, loop
  <2>2. ~Ahead(i) BY <2>1 DEF Ahead, Active, LoopPC, EndPC
  <2> QED BY <1>c, <2>1, <2>2
<1>4. ASSUME RequeueDone PROVE G
  <2>1. issue' = issue /\ pc = "repair" BY <1>4 DEF RequeueDone
  <2> QED BY <1>0, <1>4, <1>c, <2>1, NoneAhead
<1>5. ASSUME Requeue PROVE G
  <2>1. /\ pc = "requeue" /\ found' = Discovered /\ UNCHANGED <<pending, resolved>>
    BY <1>5 DEF Requeue, comments
  <2>2. issue[i].label BY <1>0, <1>b, <2>1, NoneAhead
  <2>3. Active(i) # {} /\ Active(i)' = Active(i) /\ Active(i) \subseteq Repairs
    BY <1>a, <2>1 DEF Pends, Active
  <2>4. Active(i) \subseteq Discovered BY <2>2, <2>3 DEF Discovered
  <2> QED BY <2>1, <2>3, <2>4 DEF Ahead
<1>6. ASSUME NEW r \in Repairs, NextRepair(r) PROVE G
  <2>1. /\ pc = "repair" /\ rep' = r /\ found' = found \ {r} /\ pc' \in {"reconcile", "restore", "mark"}
        /\ issue' = issue /\ UNCHANGED <<pending, resolved>>
    BY <1>6 DEF NextRepair, Goto, comments
  <2>2. ~Ahead(i) BY <2>1 DEF Ahead, Active, LoopPC, EndPC, InEnd
  <2> QED BY <1>c, <2>1, <2>2
<1>7. ASSUME CheckRepair \/ \E r \in Repairs : OpenRepair(r) PROVE G
  <2>1. issue' = issue /\ pc \in {"run", "check"} BY <1>7 DEF CheckRepair, OpenRepair
  <2>2. ~Ahead(i) BY <1>0, <2>1, NoneAhead
  <2> QED BY <1>c, <2>1, <2>2
<1>8. ASSUME Mark PROVE G
  <2>1. issue' = issue /\ pc = "mark" /\ UNCHANGED <<pending, resolved>> BY <1>8 DEF Mark, comments
  <2>2. ~Ahead(i)
    <3>1. CASE Raised BY <1>0, <1>8, <3>1, NoneAhead
    <3>2. CASE ~Raised
      <4>1. UNCHANGED <<rep, found>> /\ pc' = "markNote" /\ todo' = AffectedIssues
        BY <1>8, <3>2 DEF Mark, Goto
      <4>2. rep \in Active(i) => i \in AffectedIssues
        BY <1>0, <2>1 DEF TrailInv, Active, AffectedIssues
      <4> QED BY <1>d, <2>1, <4>1, <4>2
    <3> QED BY <3>1, <3>2
  <2> QED BY <1>c, <2>1, <2>2
<1>9. ASSUME \/ Restore \/ Reconcile \/ Recompute \/ ReconciledNote \/ ItemsDone \/ ClearRead
             \/ \E j \in Items : MarkNote(j) \/ ReconcileItem(j) \/ SkipItem(j) \/ Resolve(j)
      PROVE  G
  <2>1. issue' = issue /\ UNCHANGED <<resolved, rep, found>> /\ pc \in RepairPC
    BY <1>9 DEF Restore, Reconcile, Recompute, ReconciledNote, ItemsDone, ClearRead, MarkNote,
       ReconcileItem, SkipItem, Resolve, comments
  <2>2. CASE Restore \/ ItemsDone
    <3>1. UNCHANGED pending /\ todo' = AffectedIssues /\ pc' \in RepairPC
      BY <2>2 DEF Restore, ItemsDone, Goto, comments
    <3>2. rep \in Active(i) => i \in AffectedIssues
      BY <1>0, <2>1 DEF TrailInv, Active, AffectedIssues
    <3> QED BY <1>c, <1>d, <2>1, <3>1, <3>2
  <2>3. CASE \/ Reconcile \/ Recompute \/ ReconciledNote
             \/ \E j \in Items : ReconcileItem(j) \/ SkipItem(j)
    <3>1. UNCHANGED pending
      BY <2>3 DEF Reconcile, Recompute, ReconciledNote, ReconcileItem, SkipItem, comments
    <3>2. pc' \in RepairPC /\ pc' \notin LoopPC
      <4>1. CASE Recompute BY <4>1 DEF Recompute, Goto, LoopPC, EndPC, InEnd
      <4>2. CASE ~Recompute
        BY <2>3, <4>2 DEF Reconcile, ReconciledNote, ReconcileItem, SkipItem, Goto, LoopPC, EndPC,
           InEnd
      <4> QED BY <4>1, <4>2
    <3> QED BY <1>c, <1>d, <2>1, <3>1, <3>2
  <2>4. CASE ClearRead \/ \E j \in Items : Resolve(j)
    <3>1. UNCHANGED <<pending, todo>> /\ pc \in LoopPC /\ pc' \in RepairPC
      BY <2>4 DEF ClearRead, Resolve, Goto, comments, LoopPC, EndPC, InEnd
    <3>2. ~Ahead(i) BY <2>1, <3>1 DEF Ahead, Active
    <3> QED BY <1>c, <2>1, <3>2
  <2>5. ASSUME NEW j \in Items, MarkNote(j) PROVE G
    <3>1. UNCHANGED todo /\ pc = "markNote" /\ pc' = "markLabel" BY <2>5 DEF MarkNote, Goto
    <3>2. Active(i)' = Active(i) BY <1>0, <1>a, <2>5, MarkNoteEffect
    <3>3. ~Ahead(i) BY <2>1, <3>1, <3>2 DEF Ahead, LoopPC
    <3> QED BY <1>c, <2>1, <3>3
  <2> QED BY <1>9, <2>2, <2>3, <2>4, <2>5
<1>10. ASSUME MarkLabel PROVE G
  <2>1. /\ pc = "markLabel" /\ pc' = "markNote" /\ todo' = todo \ {cur}
        /\ UNCHANGED <<pending, resolved, rep, found>>
        /\ IF seen[cur].state = "open" /\ (seen[cur].status # "blocked" \/ ~seen[cur].label)
           THEN SetLabels(cur, "blocked", TRUE) ELSE UNCHANGED issue
    BY <1>10 DEF MarkLabel, Goto, comments
  <2>2. CASE i # cur
    <3>1. ~Ahead(i) BY <2>1, <2>2 DEF Ahead, Active, LoopPC
    <3>2. issue'[i].label = issue[i].label /\ issue'[i].status = issue[i].status
      BY <1>0, <2>1, <2>2, SetLabelsEffect
    <3> QED BY <1>c, <2>1, <3>1, <3>2
  <2>3. CASE i = cur
    <3>1. CASE SetLabels(cur, "blocked", TRUE) BY <1>0, <2>3, <3>1, SetLabelsEffect DEF Rest
    <3>2. CASE ~SetLabels(cur, "blocked", TRUE)
      <4>1. issue' = issue BY <2>1, <3>2
      <4>2. i \in todo /\ i \notin dropped /\ issue[i].state = "open"
        BY <1>0, <1>a, <2>1, <2>3 DEF LoopInv, Pends
      <4>3. /\ seen[i].state = "open"
            /\ seen[i].label => /\ issue[i].label
                                /\ seen[i].status = "blocked" => issue[i].status \in Rest
        BY <1>0, <2>1, <4>2 DEF ReadInv
      <4> QED BY <2>1, <2>3, <3>2, <4>1, <4>3
    <3> QED BY <3>1, <3>2
  <2> QED BY <2>2, <2>3
<1>11. ASSUME NEW j \in Items, RestoreLabel(j) PROVE G
  <2>1. /\ pc = "restoreLabel" /\ j \in todo /\ todo' = todo /\ pc' \in {"resolveNote", "clearRead"}
        /\ UNCHANGED <<pending, resolved, rep, found>>
        /\ issue' = issue \/ (rep \in Active(j) /\ \E s, l : SetLabels(j, s, l))
    BY <1>11 DEF RestoreLabel, Goto, comments
  <2>2. ~Ahead(i) BY <2>1 DEF Ahead, Active, LoopPC, EndPC, InEnd
  <2>3. rep \in Active(i) => i \notin todo BY <2>1, <2>2 DEF Ahead
  <2>4. issue'[i].label = issue[i].label /\ issue'[i].status = issue[i].status
    BY <1>0, <2>1, <2>3, SetLabelsEffect
  <2> QED BY <1>c, <2>1, <2>2, <2>4
<1>12. ASSUME ResolveNote PROVE G
  <2>1. /\ pc = "resolveNote" /\ pc' = "clearRead" /\ UNCHANGED <<issue, rep, found, todo>>
    BY <1>12 DEF ResolveNote, Goto, loop
  <2>2. Active(i)' = IF i = cur THEN Active(i) \ {rep} ELSE Active(i) BY <1>12, ResolveEffect
  <2>3. i # cur
    <3> SUFFICES ASSUME i = cur PROVE FALSE OBVIOUS
    <3>1. rep \in Active(i) BY <1>0, <2>1 DEF LoopInv
    <3>2. Active(i) = {rep} BY <3>1 DEF ActiveInv
    <3> QED BY <2>2, <3>2 DEF Pends
  <2>4. ~Ahead(i) BY <2>1, <2>2, <2>3 DEF Ahead, LoopPC, EndPC, InEnd
  <2> QED BY <1>c, <2>1, <2>4
<1>e. ASSUME i = cur, cur \in todo, pc \in ItemPC \cup LoopPC, kind # "repair", found' = found,
             UNCHANGED <<pending, resolved>>, rep \notin Active(i) \/ (pc' \in RepairPC \ LoopPC /\ rep' = rep)
      PROVE  FALSE
  <2>1. PICK q : q \in Active(i) BY <1>a DEF Pends
  <2>2. q \in Active(i)' BY <1>e, <2>1 DEF Active
  <2>3. q # rep BY <1>e, <2>1, <2>2 DEF Ahead
  <2>4. i \in Affected[rep] /\ pc \in RepairPC
    BY <1>0, <1>e DEF LoopInv, ItemPC, InItem, LoopPC, EndPC, InEnd
  <2>5. q \in found BY <1>0, <1>a, <1>e, <2>1, <2>3, <2>4, OtherAhead
  <2> QED BY <1>e, <2>2, <2>5 DEF Ahead
<1>13. ASSUME Clear PROVE G
  <2>1. /\ pc = "clear" /\ pc' \in {"resolve", "restoreLabel"} /\ todo' = todo \ {cur}
        /\ UNCHANGED <<pending, resolved, rep, found>>
        /\ issue' = issue \/ \E s, l : SetLabels(cur, s, l)
    BY <1>13 DEF Clear, Goto, comments
  <2>2. i # cur
    <3>1. cur \in todo /\ rep \notin Active(cur) /\ kind # "repair"
      BY <1>0, <2>1 DEF LoopInv, InEnd, SessionInv
    <3> QED BY <1>e, <2>1, <3>1 DEF LoopPC, EndPC, InEnd
  <2>3. ~Ahead(i) BY <2>1, <2>2 DEF Ahead, Active, LoopPC, EndPC, InEnd
  <2>4. issue'[i].label = issue[i].label /\ issue'[i].status = issue[i].status
    BY <1>0, <2>1, <2>2, SetLabelsEffect
  <2> QED BY <1>c, <2>1, <2>3, <2>4
<1>14. ASSUME RequeueLabel PROVE G
  <2>1. /\ pc = "requeueLabel" /\ pc' = "reconciledNote"
        /\ UNCHANGED <<pending, resolved, rep, found, todo>>
        /\ \E s, l : SetLabels(cur, s, l)
    BY <1>14 DEF RequeueLabel, Goto, comments, loop
  <2>2. i # cur
    <3>1. cur \in todo /\ kind # "repair" BY <1>0, <2>1 DEF LoopInv, InItem, SessionInv
    <3> QED BY <1>e, <2>1, <3>1 DEF ItemPC, InItem, LoopPC, EndPC, InEnd
  <2>3. ~Ahead(i) BY <1>d, <2>1 DEF LoopPC, EndPC, InEnd
  <2>4. issue'[i].label = issue[i].label /\ issue'[i].status = issue[i].status
    BY <1>0, <2>1, <2>2, SetLabelsEffect
  <2> QED BY <1>c, <2>1, <2>3, <2>4
<1>15. ASSUME Repoint \/ Supersede PROVE G
  <2>1. /\ pc = "pointer" /\ pc' \in {"recompute", "reconciledNote"}
        /\ UNCHANGED <<pending, resolved, rep, found, todo>>
    BY <1>15 DEF Repoint, Supersede, Goto, comments, loop
  <2>2. ~Ahead(i) BY <1>d, <2>1 DEF LoopPC, EndPC, InEnd
  <2>3. issue'[i].label = issue[i].label /\ issue'[i].status = issue[i].status
    <3>1. CASE Repoint BY <1>0, <3>1, RepointEffect
    <3>2. CASE Supersede
      <4>1. i = cur => seen[cur].state = "open" BY <1>0, <1>a, <2>1 DEF LoopInv, ItemPC, InItem, Pends
      <4>2. i # cur BY <1>0, <1>a, <3>2, <4>1, SupersedeEffect
      <4> QED BY <1>0, <3>2, <4>2, SupersedeEffect
    <3> QED BY <1>15, <3>1, <3>2
  <2> QED BY <1>c, <2>1, <2>2, <2>3
<1>16. ASSUME NEW j \in Items, CreateIssue(j) PROVE G
  <2>1. /\ pc = "item" /\ pc' = "pointer" /\ UNCHANGED <<pending, resolved, rep, found, todo>>
    BY <1>16 DEF CreateIssue, Goto, comments
  <2>2. ~Ahead(i) BY <1>d, <2>1 DEF LoopPC, EndPC, InEnd
  <2>3. issue'[i] = issue[i] BY <1>16, <1>a, CreateEffect
  <2> QED BY <1>c, <2>1, <2>2, <2>3
<1> HIDE DEF G
<1>17. G
  BY <1>1, <1>2, <1>3, <1>4, <1>5, <1>6, <1>7, <1>8, <1>9, <1>10, <1>11, <1>12, <1>13, <1>14, <1>15,
     <1>16, QuietSteps, Zenon DEF RepairWork
<1> QED BY <1>17 DEF G

\* What the session reads is fresh enough for what it writes.
LEMMA ReadKept ==
  ASSUME TInv, ActiveInv, TraceInv, HoldInv, LabelInv, Quiet PROVE ReadInv'
<1>0. /\ GitHubType /\ LoopType /\ LoopInv /\ FoundInv /\ ShownInv /\ ReadInv /\ [Next]_vars
  BY DEF TInv, TraceInv, LabelInv, Quiet
<1>a. UNCHANGED <<pending, resolved>> => \A i : Active(i)' = Active(i) BY DEF Active
<1>b. ASSUME pc' \notin {"promoting", "select", "claimRead", "claim", "claimed", "final",
                         "markNote", "markLabel"}
      PROVE  ReadInv'
  BY <1>b DEF ReadInv
<1>c. ASSUME Raised \/ EndSession PROVE ReadInv' BY <1>b, <1>c DEF Raised, EndSession
<1>d. dropped \subseteq dropped' BY DroppedSteps
<1>e. ASSUME NEW i \in Items, Pends(i), pc # "repair", pc \notin RepairPC
      PROVE  issue[i].label /\ (issue[i].status \in Rest \/ Closing(i))
  BY <1>0, <1>e, NoneAhead DEF ShownInv
<1>1. ASSUME OutsideStep PROVE ReadInv'
  <2>1. UNCHANGED <<pc, todo, cur, seen, item>> BY <1>1, OutsideSession DEF session, loop, worker
  <2>2. \A i : Active(i)' = Active(i) BY <1>1, <1>a, OutsideComments DEF comments
  <2>3. ASSUME item \in Items, Pends(item)' PROVE Pends(item)
    <3>1. PICK i \in Items : i = item BY <2>3
    <3>2. Pends(i)' BY <2>1, <2>3, <3>1 DEF Pends, Active
    <3>3. ~MarkNote(i) BY <2>1 DEF MarkNote, Goto
    <3> QED BY <3>1, <3>2, <3>3, PendsSteps
  <2>4. ASSUME pc \in {"markNote", "markLabel"}, NEW i \in todo, issue'[i].state = "open"
        PROVE  /\ seen[i].state = "open"
               /\ i \in dropped' \/ (seen[i].label => /\ issue'[i].label
                                                      /\ seen[i].status = "blocked"
                                                            => issue'[i].status \in Rest)
    <3>0. i \in Items BY <1>0 DEF LoopType
    <3>1. issue[i].state = "open"
      BY <1>0, <2>1, <2>4, <3>0, OpenSteps DEF CreateIssue, Goto
    <3>2. /\ seen[i].state = "open"
          /\ i \in dropped \/ (seen[i].label => /\ issue[i].label
                                                /\ seen[i].status = "blocked"
                                                      => issue[i].status \in Rest)
      BY <1>0, <2>4, <3>1 DEF ReadInv
    <3>3. CASE i \in dropped' BY <3>2, <3>3
    <3>4. CASE i \notin dropped' BY <1>1, <1>d, <2>4, <3>0, <3>2, <3>4, OutsideRow
    <3> QED BY <3>3, <3>4
  <2>5. Active(cur)' = Active(cur) /\ Active(item)' = Active(item)
    BY <2>1, <2>2 DEF Active
  <2> QED BY <1>0, <1>d, <2>1, <2>2, <2>3, <2>4, <2>5 DEF ReadInv
<1>2. ASSUME OwnStep PROVE ReadInv'
  <2>1. ASSUME \/ StartWorker \/ RunTask \/ WriteLocal \/ PostCheckpoint \/ FinalStatus \/ Refresh
               \/ TaskReturns
               \/ \E j \in Items : StartContinue(j)
               \/ \E k \in {"plain", "pr", "manual"} : FinishTask(k)
        PROVE  ReadInv'
    BY <1>b, <2>1 DEF StartWorker, RunTask, WriteLocal, PostCheckpoint, FinalStatus, Refresh,
       TaskReturns, StartContinue, FinishTask, Goto
  <2>2. ASSUME NothingReady \/ RejectClaim PROVE ReadInv'
    BY <1>c, <2>2 DEF NothingReady, RejectClaim
  <2>3. ASSUME Promote \/ ListReady PROVE ReadInv'
    <3>1. /\ pc \in {"promote", "promoting"} /\ pc' \in {"promoting", "select"}
          /\ UNCHANGED <<pending, resolved>>
          /\ \A i \in todo' : i \in Items /\ issue[i].state = "open"
                              /\ issue[i].status \in {"blocked_on_dependency", "ready"}
      BY <2>3 DEF Promote, ListReady, Goto, comments
    <3>2. \A i \in todo' : i \in dropped \/ Active(i) = {}
      BY <1>e, <3>1 DEF Pends, Closing, Rest, RepairPC
    <3> QED BY <1>a, <1>d, <3>1, <3>2 DEF ReadInv
  <2>4. ASSUME NEW j \in Items, PromoteIssue(j) \/ Demote(j) PROVE ReadInv'
    <3>1. /\ pc \in {"promoting", "select"} /\ pc' \in {"promoting", "select"}
          /\ UNCHANGED <<pending, resolved>> /\ todo' \subseteq todo
      BY <2>4 DEF PromoteIssue, Demote, Goto, comments
    <3> QED BY <1>0, <1>a, <1>d, <3>1 DEF ReadInv
  <2>5. ASSUME NEW j \in Items, Select(j) PROVE ReadInv'
    <3>1. CASE Raised BY <1>c, <3>1
    <3>2. CASE ~Raised
      <4>1. /\ pc = "select" /\ pc' = "claimRead" /\ UNCHANGED <<pending, resolved>>
            /\ j \in todo /\ cur' = j
        BY <2>5, <3>2 DEF Select, comments
      <4>2. j \in dropped' \/ Active(j)' = {} BY <1>0, <1>a, <1>d, <4>1 DEF ReadInv
      <4>3. cur' \in dropped' \/ Active(cur)' = {} BY <4>1, <4>2 DEF Active
      <4> QED BY <4>1, <4>3 DEF ReadInv
    <3> QED BY <3>1, <3>2
  <2>6. ASSUME ClaimRead \/ Claim PROVE ReadInv'
    <3>1. /\ UNCHANGED <<pending, resolved, cur>>
          /\ \/ pc = "claimRead" /\ pc' = "claim"
             \/ pc = "claim" /\ pc' = "claimed" /\ item' = cur
      BY <2>6 DEF ClaimRead, Claim, Goto, comments, loop
    <3>2. cur \in dropped \/ Active(cur) = {} BY <1>0, <3>1 DEF ReadInv
    <3>3. Active(cur)' = Active(cur) BY <3>1 DEF Active
    <3>4. pc' = "claimed" => Active(item)' = Active(cur) BY <3>1 DEF Active
    <3> QED BY <1>d, <3>1, <3>2, <3>3, <3>4 DEF ReadInv
  <2>7. ASSUME Outcome PROVE ReadInv'
    <3>1. /\ pc = "outcome" /\ pc' = "final" /\ item' = item /\ issue' = issue
          /\ seen' = [seen EXCEPT ![item] = issue[item]]
          /\ UNCHANGED <<pending, resolved>>
      BY <2>7 DEF Outcome, Goto, comments, worker
    <3>2. ASSUME item \in Items, Pends(item)' PROVE seen'[item].label
      <4>1. Pends(item) BY <1>d, <3>1, <3>2 DEF Pends, Active
      <4>2. issue[item].label BY <1>e, <3>1, <3>2, <4>1 DEF RepairPC
      <4>3. seen'[item] = issue[item] BY <1>0, <3>1, <3>2 DEF LoopType
      <4> QED BY <4>2, <4>3
    <3> QED BY <3>1, <3>2 DEF ReadInv
  <2> QED BY <1>2, <2>1, <2>2, <2>3, <2>4, <2>5, <2>6, <2>7, Zenon DEF OwnStep
<1>3. ASSUME LoopEnd PROVE ReadInv'
  BY <1>3, <1>b DEF LoopEnd, MarkDone, RestoreDone, ResolveDone, Goto
<1>4. ASSUME RequeueDone PROVE ReadInv' BY <1>4, <1>b, <1>c DEF RequeueDone, Goto
<1>5. ASSUME Mark PROVE ReadInv'
  <2>1. CASE Raised BY <1>c, <2>1
  <2>2. CASE ~Raised
    <3>1. pc' = "markNote" /\ seen' = issue /\ issue' = issue BY <1>5, <2>2 DEF Mark, Goto
    <3> QED BY <3>1 DEF ReadInv, Rest
  <2> QED BY <2>1, <2>2
<1>6. ASSUME NEW j \in Items, MarkNote(j) PROVE ReadInv'
  <2>1. pc = "markNote" /\ pc' = "markLabel" /\ UNCHANGED <<issue, seen, todo>>
    BY <1>6 DEF MarkNote, Goto
  <2> QED BY <1>0, <1>d, <2>1 DEF ReadInv
<1>7. ASSUME MarkLabel PROVE ReadInv'
  <2>1. /\ pc = "markLabel" /\ pc' = "markNote" /\ UNCHANGED seen /\ todo' = todo \ {cur}
        /\ issue' = issue \/ \E s, l : SetLabels(cur, s, l)
    BY <1>7 DEF MarkLabel, Goto
  <2>2. \A i \in todo' : /\ i \in todo /\ issue'[i].state = issue[i].state
                         /\ issue'[i].label = issue[i].label /\ issue'[i].status = issue[i].status
    BY <1>0, <2>1, SetLabelsEffect DEF LoopType
  <2> QED BY <1>0, <1>d, <2>1, <2>2 DEF ReadInv
<1>8. ASSUME \/ Restore \/ Reconcile \/ Repoint \/ Supersede \/ RequeueLabel \/ ReconciledNote
             \/ ItemsDone \/ ResolveNote \/ ClearRead \/ Clear \/ Requeue
             \/ \E r \in Repairs : NextRepair(r) \/ OpenRepair(r)
             \/ \E i \in Items : \/ RestoreLabel(i) \/ CreateIssue(i) \/ ReconcileItem(i)
                                 \/ SkipItem(i) \/ Resolve(i)
      PROVE  ReadInv'
  BY <1>8, <1>b DEF Restore, Reconcile, Repoint, Supersede, RequeueLabel, ReconciledNote,
     ItemsDone, ResolveNote, ClearRead, Clear, Requeue, NextRepair, OpenRepair, RestoreLabel,
     CreateIssue, ReconcileItem, SkipItem, Resolve, Goto
<1>9. ASSUME Recompute PROVE ReadInv' BY <1>9, <1>b DEF Recompute, Goto
<1>10. ASSUME CheckRepair PROVE ReadInv'
  <2>1. CASE Raised BY <1>c, <2>1
  <2>2. CASE ~Raised BY <1>10, <1>b, <2>2 DEF CheckRepair, Goto
  <2> QED BY <2>1, <2>2
<1> QED BY <1>1, <1>2, <1>3, <1>4, <1>5, <1>6, <1>7, <1>8, <1>9, <1>10, QuietSteps, Zenon
        DEF RepairWork

\* Only a failed call and a kill count as faults.
LEMMA FaultSteps ==
  ASSUME TInv, [Next]_vars, [RepairsInOrder]_vars, faults' = 0 PROVE faults = 0 /\ Quiet
<1>0. faults \in Nat BY PlanAssumption DEF TInv
<1>1. ~CallFails /\ ~Killed BY <1>0 DEF CallFails, Killed
<1>2. Quiet BY <1>1 DEF Quiet
<1>3. OutsideStep => faults' = faults
  BY DEF OutsideStep, Unlocked, Reviewers, ObserveCi, FinishCommand, StartRefreshCi, StartFulfil,
         CloseIssue, RetryIssue, DecideRepair, vars
<1>4. OwnStep => faults' = faults
  BY DEF OwnStep, StartWorker, Promote, ListReady, NothingReady, ClaimRead, Claim, RejectClaim,
     RunTask, WriteLocal, PostCheckpoint, Outcome, FinalStatus, Refresh, TaskReturns,
     PromoteIssue, Demote, Select, StartContinue, FinishTask
<1>5. LoopEnd \/ RequeueDone \/ RepairWork => faults' = faults
  BY DEF LoopEnd, RepairWork, Requeue, RequeueDone, NextRepair, Mark, MarkLabel, MarkDone, Restore,
     RestoreDone, Reconcile, Repoint, Supersede, Recompute, RequeueLabel, ReconciledNote,
     ItemsDone, ResolveNote, ClearRead, Clear, ResolveDone, MarkNote, RestoreLabel, CreateIssue,
     ReconcileItem, SkipItem, Resolve, CheckRepair, OpenRepair
<1> QED BY <1>2, <1>3, <1>4, <1>5, QuietSteps

\* As long as nothing has failed.
Faultless == faults = 0 => HoldInv /\ LabelInv

\* At the start nothing is marked.
LEMMA FaultlessInit == Init => Faultless
<1> SUFFICES ASSUME Init PROVE HoldInv /\ LabelInv BY DEF Faultless
<1>0. Repairs \subseteq Nat \ {0} BY PlanAssumption
<1>1. /\ \A i \in Items : \A r \in Repairs : pending[i][r] = NoPending /\ published[i] # r
      /\ \A i \in Items : reconciled[i] = {}
      /\ \A r \in Repairs : ~Opened(r)
      /\ pc = "idle" /\ kind = "none" /\ found = {}
  BY <1>0 DEF Init, NoPR, Opened
<1>2. \A i \in Items : Active(i) = {} BY <1>1 DEF Active
<1>3. HoldTrail BY <1>1, <1>2 DEF HoldTrail, Unheard
<1>4. HoldPlace BY <1>1 DEF HoldPlace, RepairPC
<1>5. FoundInv /\ ShownInv /\ ReadInv BY <1>1, <1>2 DEF FoundInv, ShownInv, ReadInv, Pends, RepairPC
<1> QED BY <1>3, <1>4, <1>5 DEF HoldInv, LabelInv

\* Marks, order and labels, together.
LEMMA FaultlessInductive == OrderlySpec => []Faultless
<1>1. TInv /\ ActiveInv /\ TraceInv /\ Faultless /\ [Next]_vars /\ [RepairsInOrder]_vars
        => Faultless'
  <2> SUFFICES ASSUME TInv, ActiveInv, TraceInv, Faultless, [Next]_vars, [RepairsInOrder]_vars,
                      faults' = 0
               PROVE  HoldInv' /\ LabelInv'
    BY DEF Faultless
  <2>1. HoldInv /\ LabelInv /\ Quiet BY FaultSteps DEF Faultless
  <2>2. HoldInv' BY <2>1, HoldKept
  <2>3. FoundInv' BY <2>1, FoundKept
  <2>4. ShownInv' BY <2>1, ShownKept
  <2>5. ReadInv' BY <2>1, ReadKept
  <2> QED BY <2>2, <2>3, <2>4, <2>5 DEF LabelInv
<1> QED BY <1>1, FaultlessInit, TypeInductive, ActiveInductive, TraceInductive, PTL
        DEF OrderlySpec, Spec

\* Between sessions every open issue under a pending repair carries the pending
\* label, for every plan and every set of repairs, if pull requests are numbered
\* in the order they are opened: no session loses it by writing the labels it
\* read before (_replace_queue_status).
THEOREM LabelSurvives == OrderlySpec => []PendingLabelStays
<1>1. TInv /\ ActiveInv /\ TraceInv /\ Faultless => PendingLabelStays
  <2> SUFFICES ASSUME TInv, ActiveInv, TraceInv, Faultless, pc = "idle", faults = 0,
                      NEW i \in Items \ dropped, issue[i].state = "open", Active(i) # {}
               PROVE  issue[i].label
    BY DEF PendingLabelStays
  <2>1. HoldInv /\ FoundInv /\ ShownInv BY DEF Faultless, LabelInv
  <2>2. ~Ahead(i) BY <2>1, NoneAhead DEF RepairPC
  <2> QED BY <2>1, <2>2 DEF ShownInv, Pends
<1> QED BY <1>1, FaultlessInductive, TypeInductive, ActiveInductive, TraceInductive, PTL
        DEF OrderlySpec

\* A session takes up work by a claim or by the continuation of work that waits
\* for a human.
LEMMA TakeSteps ==
  ASSUME [Next]_vars, item' # item, item' # NoItem
  PROVE  Claim \/ \E i \in Items : StartContinue(i)
<1>1. ~UNCHANGED worker /\ ~EndSession /\ ~Raised BY DEF worker, EndSession, Raised
<1>2. OutsideStep => UNCHANGED worker BY OutsideSession DEF session
<1>3. ASSUME OwnStep PROVE UNCHANGED worker \/ EndSession \/ Raised \/ Claim
                           \/ \E i \in Items : StartContinue(i)
  BY <1>1, <1>3 DEF OwnStep, StartWorker, Promote, ListReady, NothingReady, ClaimRead,
     RejectClaim, RunTask, WriteLocal, PostCheckpoint, Outcome, FinalStatus, Refresh, TaskReturns,
     PromoteIssue, Demote, Select, FinishTask, Goto, worker
<1>4. LoopEnd \/ RequeueDone => UNCHANGED worker \/ EndSession
  BY DEF LoopEnd, RequeueDone, MarkDone, RestoreDone, ResolveDone, Goto
<1>5. Recompute => UNCHANGED worker BY DEF Recompute, Goto
<1>6. RepairWork /\ ~Recompute => UNCHANGED worker \/ Raised
  BY DEF RepairWork, Requeue, NextRepair, Mark, MarkLabel, Restore, Reconcile, Repoint, Supersede,
     RequeueLabel, ReconciledNote, ItemsDone, ResolveNote, ClearRead, Clear, MarkNote,
     RestoreLabel, CreateIssue, ReconcileItem, SkipItem, Resolve, CheckRepair, OpenRepair, Goto
<1>7. CallFails \/ Killed => Raised \/ EndSession BY DEF CallFails, Killed
<1>8. CallFails \/ Killed \/ OutsideStep \/ OwnStep \/ LoopEnd \/ RequeueDone \/ RepairWork
  <2>1. CASE Requeuing BY <2>1, Zenon DEF Requeuing, RepairStep, RepairWork, LoopEnd
  <2>2. CASE ~Requeuing BY <2>2, Zenon DEF Next, Step, OutsideStep, OwnStep, RepairWork
  <2> QED BY <2>1, <2>2
<1> QED BY <1>1, <1>2, <1>3, <1>4, <1>5, <1>6, <1>7, <1>8

\* No session takes up an item under a pending repair, unless a command that
\* takes no lock has erased the label: the requeue that run_worker_once starts
\* with marks what it finds before anything is claimed, and the continuation of
\* a manual prerequisite finds no such issue waiting.
THEOREM NothingTakenUnderRepair == OrderlySpec => NotTakenUnderRepair
<1>1. ASSUME TInv, ActiveInv, TraceInv, Faultless, [Next]_vars,
             item' # item, item' # NoItem, faults = 0
      PROVE  Active(item') = {} \/ item' \in dropped
  <2>0. HoldInv /\ FoundInv /\ ShownInv /\ ReadInv BY <1>1 DEF Faultless, LabelInv
  <2>1. CASE Claim
    <3>1. item' = cur /\ pc = "claim" BY <2>1 DEF Claim
    <3>2. cur \in dropped \/ Active(cur) = {} BY <2>0, <3>1 DEF ReadInv
    <3> QED BY <3>1, <3>2
  <2>2. ASSUME NEW i \in Items, StartContinue(i) PROVE Active(item') = {} \/ item' \in dropped
    <3>1. /\ item' = i /\ pc = "idle" /\ issue[i].state = "open"
          /\ issue[i].status = "awaiting_human"
      BY <2>2 DEF StartContinue
    <3>2. ~Ahead(i) BY <1>1, <2>0, <3>1, NoneAhead DEF RepairPC
    <3>3. ~Pends(i) BY <2>0, <3>1, <3>2 DEF ShownInv, Closing, Rest
    <3>4. Active(i) = {} \/ i \in dropped BY <3>1, <3>3 DEF Pends
    <3> QED BY <3>1, <3>4
  <2> QED BY <1>1, <2>1, <2>2, TakeSteps
<1>2. TInv /\ ActiveInv /\ TraceInv /\ Faultless /\ [Next]_vars =>
        [item' # item /\ item' # NoItem /\ faults = 0
            => Active(item') = {} \/ item' \in dropped]_vars
  BY <1>1
<1> QED BY <1>2, FaultlessInductive, TypeInductive, ActiveInductive, TraceInductive, PTL
        DEF OrderlySpec, Spec, NotTakenUnderRepair

-----------------------------------------------------------------------------
(* While nothing fails: no work before the work it depends on. *)

\* A merged repair lets go of an issue only after it has been reconciled with
\* it, and of no issue before all are.
MergeInv ==
    /\ \A i \in Items : \A r \in Repairs :
         pr[r] = "merged" /\ r \in resolved[i] => r \in reconciled[i]
    /\ pc \in ItemPC => \A i \in Affected[rep] \ todo : rep \in reconciled[i] \/ ~Exists(i)
    /\ pc \in EndPC /\ pr[rep] = "merged"
          => \A i \in Affected[rep] : rep \in reconciled[i] \/ ~Exists(i)

\* An issue that was closed without being done was retired by a repair, and an
\* open one points to the newest revision it has been reconciled with.
RetireInv ==
    /\ \A d \in Items : issue[d].state = "closed" /\ d \notin done =>
         \E r \in Repairs : /\ d \in Superseded[r]
                            /\ \/ r \in reconciled[d]
                               \/ rep = r /\ cur = d /\ pc = "reconciledNote"
    /\ \A i \in Items : issue[i].state = "open" => \A v \in reconciled[i] : v <= issue[i].rev
    /\ pc \in {"recompute", "requeueLabel", "reconciledNote"} /\ issue[cur].state = "open"
          => issue[cur].rev = rep

\* The repair under way has yet to reconcile i.
Unreconciled(i) == pc \in ItemPC /\ i \in todo /\ rep \notin reconciled[i]

\* A closed dependency of an open issue is done, unless the repair that retires
\* it has still to reach the issue.
DepsInv ==
    \A i \in Items : issue[i].state = "open" =>
        \A d \in Deps[issue[i].rev][i] :
            issue[d].state = "closed" => d \in done \/ Unreconciled(i)

\* No repair retires what an item it leaves alone depends on, or what a later
\* one makes an item depend on; and an issue points to a repair that affects it.
PlanInv ==
    /\ \A i \in Items : Exists(i) =>
         \/ issue[i].rev = 0
         \/ issue[i].rev \in Repairs /\ Opened(issue[i].rev) /\ i \in Affected[issue[i].rev]
    /\ \A r \in Repairs : \A v \in Revisions : \A i \in Items :
         Opened(r) /\ Retires(r, v, i) =>
            /\ v \in Repairs /\ Opened(v) /\ i \in Affected[v] => v < r
            /\ Stands(v, i) => i \in Affected[r]

\* From there to the task.
TaskInv ==
    /\ pc = "select" => \A i \in todo : \A d \in Deps[seen[i].rev][i] :
                           seen[d].state = "closed" => d \in done
    /\ pc \in {"claimRead", "claim"} => Deps[base][cur] \subseteq done
    /\ pc = "claimed" => Deps[base][item] \subseteq done
    /\ DependenciesDone

ItemInv == MergeInv /\ RetireInv /\ PlanInv /\ DepsInv /\ TaskInv

\* The repair that is being reconciled with an issue is newer than any other
\* marked one that affects it: an older one that still held it would have been
\* found first, and a newer one could not have marked it.
LEMMA NewestRepair ==
  ASSUME TInv, TraceInv, HoldInv, MergeInv, pc \in InItem,
         NEW v \in Repairs, v # rep, Opened(v), ~Unheard(v), cur \in Affected[v]
  PROVE  v < rep
<1>0. /\ SessionInv /\ TrailInv /\ PlaceInv /\ LoopInv /\ HoldTrail /\ HoldPlace /\ Repairs \subseteq Nat
      /\ Affected \in [Repairs -> SUBSET Items]
  BY PlanAssumption DEF TInv, TraceInv, HoldInv
<1>1. /\ rep \in Repairs /\ pr[rep] = "merged" /\ Opened(rep) /\ cur \in Affected[rep] /\ Exists(cur)
      /\ rep \notin reconciled[cur] /\ kind # "repair"
  BY <1>0 DEF SessionInv, PlaceInv, LoopInv, InItem, ItemPC, RepairPC
<1>2. cur \in Items /\ Marked(rep) /\ Marked(v)
  BY <1>0, <1>1 DEF HoldPlace, HoldTrail, Marking, InItem, RepairPC
<1> SUFFICES ASSUME rep < v PROVE FALSE BY <1>0, <1>1
<1>3. pending[cur][v] # NoPending BY <1>1, <1>2 DEF Old, Marked
<1>4. cur \in Old(rep) BY <1>0, <1>1, <1>2, <1>3 DEF HoldTrail
<1>5. pending[cur][rep] # NoPending BY <1>2, <1>4 DEF Marked
<1>6. rep \in Active(cur) BY <1>1, <1>2, <1>5 DEF MergeInv, Active
<1>7. v <= rep BY <1>0, <1>2, <1>3, <1>6 DEF HoldTrail
<1> QED BY <1>0, <1>1, <1>7

\* A repair moves an issue to its revision, and retires or creates issues;
\* whatever else closes an issue has it done.
LEMMA RowSteps ==
  ASSUME TInv, Quiet, NEW i \in Items
  PROVE  /\ issue'[i].rev = issue[i].rev \/ (Repoint /\ i = cur) \/ CreateIssue(i)
         /\ issue'[i].state = "closed"
               => issue[i].state = "closed" \/ i \in done' \/ (Supersede /\ i = cur)
<1> DEFINE P == /\ issue'[i].rev = issue[i].rev \/ (Repoint /\ i = cur) \/ CreateIssue(i)
                /\ issue'[i].state = "closed"
                      => issue[i].state = "closed" \/ i \in done' \/ (Supersede /\ i = cur)
<1>0. GitHubType BY DEF TInv
<1>a. ASSUME issue' = issue \/ \E j, s, l : SetLabels(j, s, l) PROVE P
  BY <1>0, <1>a, SetLabelsEffect
<1>1. ASSUME \/ Requeue \/ RequeueDone \/ Mark \/ MarkLabel \/ MarkDone \/ Restore \/ RestoreDone
             \/ Reconcile \/ Recompute \/ RequeueLabel \/ ReconciledNote \/ ItemsDone \/ ResolveNote
             \/ ClearRead \/ Clear \/ ResolveDone
             \/ \E r \in Repairs : NextRepair(r)
             \/ \E j \in Items : \/ MarkNote(j) \/ RestoreLabel(j) \/ ReconcileItem(j) \/ SkipItem(j)
                                 \/ Resolve(j)
      PROVE  P
  <2>1. issue' = issue \/ \E j, s, l : SetLabels(j, s, l)
    BY <1>1 DEF Requeue, RequeueDone, Mark, MarkLabel, MarkDone, Restore, RestoreDone, Reconcile,
       Recompute, RequeueLabel, ReconciledNote, ItemsDone, ResolveNote, ClearRead, Clear,
       ResolveDone, NextRepair, MarkNote, RestoreLabel, ReconcileItem, SkipItem, Resolve
  <2> QED BY <1>a, <2>1
<1>2. ASSUME Repoint PROVE P BY <1>0, <1>2, RepointEffect
<1>3. ASSUME Supersede PROVE P
  <2>1. CASE i = cur
    <3>1. issue'[i].rev = issue[i].rev BY <1>0, <1>3, <2>1, SupersedeEffect
    <3> QED BY <1>3, <2>1, <3>1
  <2>2. CASE i # cur BY <1>0, <1>3, <2>2, SupersedeEffect
  <2> QED BY <2>1, <2>2
<1>4. ASSUME NEW j \in Items, CreateIssue(j) PROVE P
  <2>1. CASE i = j BY <1>4, <2>1, CreateEffect
  <2>2. CASE i # j BY <1>4, <2>2, CreateEffect
  <2> QED BY <2>1, <2>2
<1>5. ASSUME OwnStep \/ CheckRepair \/ \E r \in Repairs : OpenRepair(r) PROVE P
  <2>1. issue' = issue \/ \E j, s, l : SetLabels(j, s, l)
    BY <1>5 DEF OwnStep, StartWorker, Promote, ListReady, NothingReady, ClaimRead, Claim,
       RejectClaim, RunTask, WriteLocal, PostCheckpoint, Outcome, FinalStatus, Refresh,
       TaskReturns, PromoteIssue, Demote, Select, StartContinue, FinishTask, CheckRepair, OpenRepair
  <2> QED BY <1>a, <2>1
<1>6. ASSUME \/ ObserveCi \/ UNCHANGED vars
             \/ \E j \in Items : StartRefreshCi(j) \/ StartFulfil(j)
             \/ \E r \in Repairs : DecideRepair(r)
      PROVE  P
  BY <1>6, <1>a DEF ObserveCi, StartRefreshCi, StartFulfil, DecideRepair, vars
<1>7. ASSUME FinishCommand PROVE P
  <2>1. CASE i # command.item BY <1>7, <2>1, FinishEffect
  <2>2. CASE i = command.item
    <3>1. command.op = "fulfil" => i \in done' BY <1>7, <2>2 DEF FinishCommand
    <3> QED BY <1>7, <2>2, <3>1, FinishEffect
  <2> QED BY <2>1, <2>2
<1>8. ASSUME NEW j \in Items, CloseIssue(j) \/ RetryIssue(j) PROVE P
  <2>1. CASE i # j BY <1>0, <1>8, <2>1, ReviewEffect
  <2>2. CASE i = j
    <3>1. CloseIssue(j) => j \in done' BY DEF CloseIssue
    <3> QED BY <1>0, <1>8, <2>2, <3>1, ReviewEffect
  <2> QED BY <2>1, <2>2
<1> HIDE DEF P
<1>9. P
  <2>1. CASE Requeuing
    BY <1>1, <1>2, <1>3, <1>4, <2>1, Zenon DEF Requeuing, RepairStep
  <2>2. CASE ~Requeuing
    <3>1. OutsideStep \/ OwnStep \/ CheckRepair \/ \E r \in Repairs : OpenRepair(r)
      BY <2>2, Zenon DEF Quiet, Next, Step, OutsideStep, OwnStep
    <3> QED BY <1>5, <1>6, <1>7, <1>8, <3>1, Zenon DEF OutsideStep, Unlocked, Reviewers
  <2> QED BY <2>1, <2>2
<1> QED BY <1>9 DEF P

\* Work stays done.
LEMMA DoneStays == ASSUME Quiet PROVE done \subseteq done'
<1>1. OutsideStep => done \subseteq done'
  BY DEF OutsideStep, Unlocked, Reviewers, ObserveCi, FinishCommand, StartRefreshCi, StartFulfil,
         CloseIssue, RetryIssue, DecideRepair, vars, outside
<1>2. OwnStep => done' = done
  BY DEF OwnStep, StartWorker, Promote, ListReady, NothingReady, ClaimRead, Claim, RejectClaim,
     RunTask, WriteLocal, PostCheckpoint, Outcome, FinalStatus, Refresh, TaskReturns,
     PromoteIssue, Demote, Select, StartContinue, FinishTask, outside
<1>3. Requeuing \/ CheckRepair \/ (\E r \in Repairs : OpenRepair(r)) => done' = done
  BY DEF Requeuing, CheckRepair, OpenRepair, outside
<1>4. OutsideStep \/ OwnStep \/ Requeuing \/ CheckRepair \/ \E r \in Repairs : OpenRepair(r)
  <2>1. CASE Requeuing BY <2>1
  <2>2. CASE ~Requeuing BY <2>2, Zenon DEF Quiet, Next, Step, OutsideStep, OwnStep
  <2> QED BY <2>1, <2>2
<1> QED BY <1>1, <1>2, <1>3, <1>4

\* The steps of the two loops over the issues of a merged repair.
LEMMA ItemSteps ==
  ASSUME Quiet
  PROVE  /\ pc' \in ItemPC =>
              \/ OutsideStep \/ Reconcile \/ Repoint \/ Supersede \/ Recompute \/ RequeueLabel
              \/ ReconciledNote
              \/ \E i \in Items : CreateIssue(i) \/ ReconcileItem(i) \/ SkipItem(i)
         /\ pc' \in EndPC =>
              \/ OutsideStep \/ Restore \/ ItemsDone \/ ResolveNote \/ ClearRead \/ Clear
              \/ \E i \in Items : RestoreLabel(i) \/ Resolve(i)
<1> DEFINE Items1 == \/ OutsideStep \/ Reconcile \/ Repoint \/ Supersede \/ Recompute \/ RequeueLabel
                     \/ ReconciledNote
                     \/ \E i \in Items : CreateIssue(i) \/ ReconcileItem(i) \/ SkipItem(i)
           Items2 == \/ OutsideStep \/ Restore \/ ItemsDone \/ ResolveNote \/ ClearRead \/ Clear
                     \/ \E i \in Items : RestoreLabel(i) \/ Resolve(i)
           P == pc' \notin ItemPC
           Q == pc' \notin EndPC
<1> USE DEF ItemPC, InItem, EndPC, InEnd
<1>1. ASSUME OwnStep PROVE P /\ Q BY <1>1, OwnAway DEF RepairPC
<1>2. ASSUME LoopEnd PROVE P /\ Q
  BY <1>2 DEF LoopEnd, MarkDone, RestoreDone, ResolveDone, Goto
<1>3. ASSUME Raised \/ EndSession PROVE P /\ Q BY <1>3 DEF Raised, EndSession
<1>4. ASSUME RequeueDone PROVE P /\ Q BY <1>3, <1>4 DEF RequeueDone, Goto
<1>5. ASSUME Mark \/ CheckRepair PROVE P /\ Q
  <2>1. CASE Raised BY <1>3, <2>1
  <2>2. CASE ~Raised BY <1>5, <2>2 DEF Mark, CheckRepair, Goto
  <2> QED BY <2>1, <2>2
<1>6. ASSUME \/ Requeue \/ MarkLabel
             \/ \E r \in Repairs : NextRepair(r) \/ OpenRepair(r)
             \/ \E i \in Items : MarkNote(i)
      PROVE  P /\ Q
  BY <1>6 DEF Requeue, MarkLabel, NextRepair, OpenRepair, MarkNote, Goto
<1>7. ASSUME \/ Restore \/ ItemsDone \/ ResolveNote \/ ClearRead \/ Clear
             \/ \E i \in Items : RestoreLabel(i) \/ Resolve(i)
      PROVE  P
  BY <1>7 DEF Restore, ItemsDone, ResolveNote, ClearRead, Clear, RestoreLabel, Resolve, Goto
<1>8. ASSUME \/ Reconcile \/ Repoint \/ Supersede \/ RequeueLabel \/ ReconciledNote
             \/ \E i \in Items : CreateIssue(i) \/ ReconcileItem(i) \/ SkipItem(i)
      PROVE  Q
  BY <1>8 DEF Reconcile, Repoint, Supersede, RequeueLabel, ReconciledNote, CreateIssue,
     ReconcileItem, SkipItem, Goto
<1>9. ASSUME Recompute PROVE Q BY <1>9 DEF Recompute, Goto
<1> HIDE DEF P, Q
<1>10. P \/ Items1
  BY <1>1, <1>2, <1>4, <1>5, <1>6, <1>7, QuietSteps, Zenon DEF RepairWork
<1>11. Q \/ Items2
  BY <1>1, <1>2, <1>4, <1>5, <1>6, <1>8, <1>9, QuietSteps, Zenon DEF RepairWork
<1> QED BY <1>10, <1>11 DEF P, Q

\* Reconciled comments stay.
LEMMA ReconciledStays ==
  ASSUME TInv, TraceInv, [Next]_vars, NEW i \in Items
  PROVE  /\ reconciled[i] \subseteq reconciled'[i]
         /\ \A v \in reconciled'[i] : v \in reconciled[i] \/ (ReconciledNote /\ i = cur /\ v = rep)
<1>0. GitHubType /\ LoopInv /\ OtherInv BY DEF TInv, TraceInv
<1>1. ResolveNote => reconciled' = reconciled BY DEF ResolveNote
<1>2. ReconciledNote => reconciled'[i] = IF i = cur THEN reconciled[i] \cup {rep} ELSE reconciled[i]
  BY <1>0 DEF ReconciledNote, GitHubType
<1> QED BY <1>0, <1>1, <1>2, NoteSteps

\* A merged repair is reconciled with all its issues before it lets one go.
LEMMA MergeKept ==
  ASSUME TInv, TraceInv, MergeInv, Quiet PROVE MergeInv'
<1>0. /\ GitHubType /\ LoopType /\ SessionInv /\ TrailInv /\ PlaceInv /\ LoopInv /\ OtherInv
      /\ [Next]_vars /\ Affected \in [Repairs -> SUBSET Items]
  BY PlanAssumption DEF TInv, TraceInv, Quiet
<1>a. \A i \in Items : reconciled[i] \subseteq reconciled'[i] BY <1>0, ReconciledStays
<1>b. \A i \in Items : Exists(i)' => Exists(i) \/ CreateIssue(i) BY <1>0, ExistsStays
<1>c. pc \in RepairPC => rep \in Repairs /\ Affected[rep] \subseteq Items BY <1>0 DEF SessionInv
<1> USE DEF ItemPC, InItem, EndPC, InEnd, RepairPC
<1>1. ASSUME NEW i \in Items, NEW r \in Repairs, pr'[r] = "merged", r \in resolved'[i]
      PROVE  r \in reconciled'[i]
  <2>1. CASE r \in resolved[i]
    <3>1. pr'[r] = pr[r] BY <1>0, <2>1, PrSteps DEF TrailInv
    <3> QED BY <1>1, <1>a, <2>1, <3>1 DEF MergeInv
  <2>2. CASE r \notin resolved[i]
    <3>1. ResolveNote BY <1>0, <1>1, <2>2, NoteSteps DEF ReconciledNote
    <3>2. i = cur /\ r = rep BY <1>1, <2>2, <3>1, ResolveEffect
    <3>3. pc = "resolveNote" /\ pr' = pr BY <3>1 DEF ResolveNote
    <3>4. cur \in Affected[rep] /\ Exists(cur) BY <1>0, <3>3 DEF LoopInv, LoopPC
    <3>5. rep \in reconciled[cur] BY <1>1, <3>2, <3>3, <3>4 DEF MergeInv
    <3> QED BY <1>a, <3>2, <3>5
  <2> QED BY <2>1, <2>2
<1>2. ASSUME pc' \in ItemPC, NEW i \in Affected[rep'] \ todo'
      PROVE  rep' \in reconciled'[i] \/ ~Exists(i)'
  <2> DEFINE G == rep' \in reconciled'[i] \/ ~Exists(i)'
  <2>a. ASSUME rep' = rep, pc \in ItemPC, i \notin todo, ~CreateIssue(i) PROVE G
    <3>1. i \in Items BY <1>2, <1>c, <2>a
    <3>2. rep \in reconciled[i] \/ ~Exists(i) BY <1>2, <2>a DEF MergeInv
    <3> QED BY <1>a, <1>b, <2>a, <3>1, <3>2
  <2>1. ASSUME OutsideStep PROVE G
    <3>1. UNCHANGED <<pc, rep, todo>> BY <2>1, OutsideSession DEF session, loop
    <3>2. ~CreateIssue(i) BY <3>1 DEF CreateIssue, Goto
    <3> QED BY <1>2, <2>a, <3>1, <3>2
  <2>2. ASSUME Reconcile PROVE G
    BY <1>2, <2>2 DEF Reconcile
  <2>3. ASSUME \/ Repoint \/ Supersede \/ RequeueLabel
               \/ \E j \in Items : ReconcileItem(j)
        PROVE  G
    <3>1. pc \in ItemPC /\ UNCHANGED <<rep, todo>> /\ ~CreateIssue(i)
      BY <2>3 DEF Repoint, Supersede, RequeueLabel, ReconcileItem, CreateIssue, loop
    <3> QED BY <1>2, <2>a, <3>1
  <2>4. ASSUME Recompute PROVE G
    <3>1. pc \in ItemPC /\ UNCHANGED <<rep, todo>> /\ ~CreateIssue(i)
      BY <2>4 DEF Recompute, CreateIssue
    <3> QED BY <1>2, <2>a, <3>1
  <2>5. ASSUME ReconciledNote PROVE G
    <3>1. /\ pc = "reconciledNote" /\ rep' = rep /\ todo' = todo \ {cur} /\ ~CreateIssue(i)
          /\ reconciled' = [reconciled EXCEPT ![cur] = @ \cup {rep}]
      BY <2>5 DEF ReconciledNote, CreateIssue
    <3>2. CASE i = cur
      <4>1. cur \in Items BY <1>0, <3>1 DEF LoopInv, LoopType
      <4> QED BY <1>0, <3>1, <3>2, <4>1 DEF GitHubType
    <3>3. CASE i # cur BY <1>2, <2>a, <3>1, <3>3
    <3> QED BY <3>2, <3>3
  <2>6. ASSUME NEW j \in Items, CreateIssue(j) PROVE G
    <3>1. /\ pc = "item" /\ UNCHANGED <<rep, todo>> /\ j \in todo BY <2>6 DEF CreateIssue
    <3>2. i # j /\ i \in Items BY <1>2, <1>c, <3>1
    <3>3. rep \in reconciled[i] \/ ~Exists(i) BY <1>2, <3>1 DEF MergeInv
    <3>4. Exists(i)' => Exists(i) BY <2>6, <3>2, CreateEffect DEF Exists
    <3> QED BY <1>a, <3>1, <3>2, <3>3, <3>4
  <2>7. ASSUME NEW j \in Items, SkipItem(j) PROVE G
    <3>1. /\ pc = "item" /\ UNCHANGED <<rep, issue>> /\ todo' = todo \ {j} /\ pc' = "item"
          /\ rep \in reconciled[j] \/ seen[j].state = "absent"
      BY <2>7 DEF SkipItem, Goto
    <3>2. CASE i = j
      <4>1. rep \in reconciled[j] \/ ~Exists(j) BY <1>0, <3>1 DEF LoopInv
      <4> QED BY <1>a, <3>1, <3>2, <4>1 DEF Exists
    <3>3. CASE i # j
      <4>1. ~CreateIssue(i) BY <3>1 DEF CreateIssue, Goto
      <4> QED BY <1>2, <2>a, <3>1, <3>3, <4>1
    <3> QED BY <3>2, <3>3
  <2> HIDE DEF G
  <2>8. G BY <1>2, <2>1, <2>2, <2>3, <2>4, <2>5, <2>6, <2>7, ItemSteps
  <2> QED BY <2>8 DEF G
<1>3. ASSUME pc' \in EndPC, pr'[rep'] = "merged", NEW i \in Affected[rep']
      PROVE  rep' \in reconciled'[i] \/ ~Exists(i)'
  <2>1. CASE Restore
    <3>1. pr' = pr /\ rep' = rep /\ pc = "restore" BY <2>1 DEF Restore
    <3> QED BY <1>0, <1>3, <3>1 DEF PlaceInv
  <2>2. CASE ItemsDone
    <3>1. rep' = rep /\ pc = "item" /\ todo = {} BY <2>2 DEF ItemsDone
    <3>2. i \in Items /\ ~CreateIssue(i) BY <1>3, <1>c, <3>1 DEF CreateIssue
    <3>3. rep \in reconciled[i] \/ ~Exists(i) BY <1>3, <3>1 DEF MergeInv
    <3> QED BY <1>a, <1>b, <3>1, <3>2, <3>3
  <2>3. CASE \/ OutsideStep \/ ResolveNote \/ ClearRead \/ Clear
             \/ \E j \in Items : RestoreLabel(j) \/ Resolve(j)
    <3>1. rep' = rep /\ pc \in EndPC
      <4>1. OutsideStep => rep' = rep /\ pc' = pc BY OutsideSession DEF session, loop
      <4> QED BY <1>3, <2>3, <4>1 DEF ResolveNote, ClearRead, Clear, RestoreLabel, Resolve, loop
    <3>2. pr[rep] \in {"merged", "closed"} /\ rep \in Repairs
      BY <1>0, <1>c, <3>1 DEF PlaceInv
    <3>3. pr[rep] = "merged" BY <1>0, <1>3, <3>1, <3>2, PrSteps
    <3>4. i \in Items /\ ~CreateIssue(i) BY <1>3, <1>c, <3>1 DEF CreateIssue
    <3>5. rep \in reconciled[i] \/ ~Exists(i) BY <1>3, <3>1, <3>3 DEF MergeInv
    <3> QED BY <1>a, <1>b, <3>1, <3>4, <3>5
  <2> QED BY <1>3, <2>1, <2>2, <2>3, ItemSteps
<1> QED BY <1>1, <1>2, <1>3 DEF MergeInv

\* Retired issues keep the trace of the repair that retired them, and open ones
\* the newest revision.
LEMMA RetireKept ==
  ASSUME TInv, TraceInv, HoldInv, MergeInv, RetireInv, Quiet PROVE RetireInv'
<1>0. /\ GitHubType /\ LoopType /\ SessionInv /\ TrailInv /\ PlaceInv /\ LoopInv /\ OtherInv
      /\ [Next]_vars /\ Affected \in [Repairs -> SUBSET Items] /\ Repairs \subseteq Nat
  BY PlanAssumption DEF TInv, TraceInv, Quiet
<1>a. \A i \in Items : \A v \in reconciled'[i] :
         v \in reconciled[i] \/ (ReconciledNote /\ i = cur /\ v = rep)
  BY <1>0, ReconciledStays
<1>b. \A i \in Items : reconciled[i] \subseteq reconciled'[i] BY <1>0, ReconciledStays
<1>c. pc \in InItem => cur \in Items /\ rep \in Repairs /\ Exists(cur)
  BY <1>0 DEF LoopInv, LoopType, SessionInv, InItem, RepairPC
<1>1. ASSUME NEW d \in Items, issue'[d].state = "closed", d \notin done'
      PROVE  \E r \in Repairs : /\ d \in Superseded[r]
                                /\ \/ r \in reconciled'[d]
                                   \/ rep' = r /\ cur' = d /\ pc' = "reconciledNote"
  <2>1. CASE Supersede /\ d = cur
    <3>1. cur \in Superseded[rep] /\ rep' = rep /\ cur' = cur /\ pc' = "reconciledNote"
          /\ pc = "pointer"
      BY <2>1 DEF Supersede, Goto, loop
    <3> QED BY <1>c, <2>1, <3>1 DEF InItem
  <2>2. CASE ~(Supersede /\ d = cur)
    <3>1. issue[d].state = "closed" BY <1>1, <2>2, RowSteps
    <3>2. d \notin done BY <1>1, DoneStays
    <3>3. PICK r \in Repairs : /\ d \in Superseded[r]
                               /\ \/ r \in reconciled[d]
                                  \/ rep = r /\ cur = d /\ pc = "reconciledNote"
      BY <3>1, <3>2 DEF RetireInv
    <3>4. CASE r \in reconciled[d] BY <1>b, <3>3, <3>4
    <3>5. CASE rep = r /\ cur = d /\ pc = "reconciledNote"
      <4>1. CASE ReconciledNote
        <5>1. r \in reconciled'[d] BY <1>0, <3>5, <4>1 DEF ReconciledNote, GitHubType
        <5> QED BY <3>3, <5>1
      <4>2. CASE ~ReconciledNote
        <5>1. UNCHANGED <<rep, cur, pc>>
          <6>1. UNCHANGED session \/ Requeuing BY <3>5, LoopSteps DEF RepairPC
          <6>2. ~Requeuing
            BY <3>5, <4>2 DEF Requeuing, RepairStep, Requeue, RequeueDone, NextRepair, Mark,
               MarkLabel, MarkDone, Restore, RestoreDone, Reconcile, Repoint, Supersede, Recompute,
               RequeueLabel, ItemsDone, ResolveNote, ClearRead, Clear, ResolveDone, MarkNote,
               RestoreLabel, CreateIssue, ReconcileItem, SkipItem, Resolve
          <6> QED BY <6>1, <6>2 DEF session, loop
        <5> QED BY <3>3, <3>5, <5>1
      <4> QED BY <4>1, <4>2
    <3> QED BY <3>3, <3>4, <3>5
  <2> QED BY <2>1, <2>2
<1>2. ASSUME NEW i \in Items, issue'[i].state = "open", NEW v \in reconciled'[i]
      PROVE  v <= issue'[i].rev
  <2>0. v \in Repairs BY <1>0, <1>2, <1>a, <1>c DEF GitHubType, ReconciledNote, InItem
  <2>1. CASE CreateIssue(i)
    <3>1. pc = "item" /\ seen[i].state = "absent" BY <2>1 DEF CreateIssue
    <3>2. ~Exists(i) BY <1>0, <3>1 DEF LoopInv, ItemPC
    <3>3. v \in reconciled[i] BY <1>2, <1>a, <3>1 DEF ReconciledNote
    <3> QED BY <1>0, <2>0, <3>2, <3>3 DEF TrailInv
  <2>2. CASE Repoint /\ i = cur
    <3>1. pc = "pointer" /\ issue'[i].rev = rep /\ rep \in Repairs
      BY <1>0, <1>c, <2>2, RepointEffect DEF Repoint, InItem
    <3>2. v \in reconciled[i] BY <1>2, <1>a, <3>1 DEF ReconciledNote
    <3>3. Opened(v) /\ cur \in Affected[v] /\ ~Unheard(v)
      BY <1>0, <2>0, <2>2, <3>2 DEF TrailInv, Opened, Unheard
    <3>4. v = rep \/ v < rep BY <2>0, <3>1, <3>3, NewestRepair DEF InItem
    <3> QED BY <1>0, <2>0, <3>1, <3>4
  <2>3. CASE ~CreateIssue(i) /\ ~(Repoint /\ i = cur)
    <3>1. issue'[i].rev = issue[i].rev BY <2>3, RowSteps
    <3>2. issue[i].state = "open" BY <1>0, <1>2, <2>3, OpenSteps
    <3>3. CASE v \in reconciled[i] BY <3>1, <3>2, <3>3 DEF RetireInv
    <3>4. CASE ReconciledNote /\ i = cur /\ v = rep
      <4>1. issue[cur].rev = rep BY <3>2, <3>4 DEF RetireInv, ReconciledNote
      <4> QED BY <1>0, <2>0, <3>1, <3>4, <4>1
    <3> QED BY <1>2, <1>a, <3>3, <3>4
  <2> QED BY <2>1, <2>2, <2>3
<1>3. ASSUME pc' \in {"recompute", "requeueLabel", "reconciledNote"}, issue'[cur'].state = "open"
      PROVE  issue'[cur'].rev = rep'
  <2> DEFINE G == issue'[cur'].rev = rep'
  <2>1. ASSUME OutsideStep PROVE G
    <3>1. UNCHANGED <<pc, rep, cur>> BY <2>1, OutsideSession DEF session, loop
    <3>2. cur \in Items BY <1>3, <1>c, <3>1 DEF InItem
    <3>3. ~CreateIssue(cur) /\ ~Repoint BY <1>3, <3>1 DEF CreateIssue, Repoint, Goto
    <3>4. issue[cur].state = "open" BY <1>0, <1>3, <3>1, <3>2, <3>3, OpenSteps
    <3>5. issue'[cur].rev = issue[cur].rev BY <3>2, <3>3, RowSteps
    <3> QED BY <1>3, <3>1, <3>4, <3>5 DEF RetireInv
  <2>2. ASSUME Repoint PROVE G
    <3>1. pc = "pointer" /\ rep' = rep /\ cur' = cur BY <2>2 DEF Repoint, loop
    <3> QED BY <1>0, <1>c, <2>2, <3>1, RepointEffect DEF InItem
  <2>3. ASSUME Supersede PROVE G
    <3>1. pc = "pointer" /\ rep' = rep /\ cur' = cur BY <2>3 DEF Supersede, loop
    <3>2. cur \in Items BY <1>c, <3>1 DEF InItem
    <3>3. seen[cur].state # "open" /\ issue' = issue
      BY <1>0, <1>3, <2>3, <3>1, <3>2, SupersedeEffect
    <3>4. issue[cur].state # "open" BY <1>0, <3>1, <3>2, <3>3 DEF LoopInv, ItemPC, InItem
    <3> QED BY <1>3, <3>1, <3>3, <3>4
  <2>4. ASSUME Recompute PROVE G
    <3>1. pc = "recompute" /\ UNCHANGED <<issue, rep, cur>> BY <2>4 DEF Recompute
    <3> QED BY <1>3, <3>1 DEF RetireInv
  <2>5. ASSUME RequeueLabel PROVE G
    <3>1. pc = "requeueLabel" /\ UNCHANGED <<rep, cur>> BY <2>5 DEF RequeueLabel, loop
    <3>2. cur \in Items BY <1>c, <3>1 DEF InItem
    <3>3. issue'[cur].state = issue[cur].state /\ issue'[cur].rev = issue[cur].rev
      BY <1>0, <2>5, <3>2, SetLabelsEffect DEF RequeueLabel
    <3> QED BY <1>3, <3>1, <3>3 DEF RetireInv
  <2>6. ASSUME \/ Reconcile \/ ReconciledNote
               \/ \E i \in Items : CreateIssue(i) \/ ReconcileItem(i) \/ SkipItem(i)
        PROVE  G
    BY <1>3, <2>6 DEF Reconcile, ReconciledNote, CreateIssue, ReconcileItem, SkipItem, Goto
  <2> HIDE DEF G
  <2>7. G BY <1>3, <2>1, <2>2, <2>3, <2>4, <2>5, <2>6, ItemSteps DEF ItemPC, InItem
  <2> QED BY <2>7 DEF G
<1> QED BY <1>1, <1>2, <1>3 DEF RetireInv

\* The patches of the repairs keep fitting the plan.
LEMMA PlanKept ==
  ASSUME TInv, TraceInv, PlanInv, Quiet, [PatchesFit]_vars PROVE PlanInv'
<1>0. /\ GitHubType /\ LoopType /\ SessionInv /\ TrailInv /\ PlaceInv /\ LoopInv /\ OtherInv
      /\ [Next]_vars /\ [RepairsInOrder]_vars /\ Affected \in [Repairs -> SUBSET Items]
      /\ Repairs \subseteq Nat
  BY PlanAssumption DEF TInv, TraceInv, Quiet
<1>a. \A r \in Repairs : /\ Opened(r) => Opened(r)'
                         /\ Opening(r) <=> Opened(r)' /\ ~Opened(r)
  BY <1>0, PrSteps
<1>b. \A i \in Items : /\ Exists(i)' => Exists(i) \/ CreateIssue(i)
                       /\ reconciled[i] \subseteq reconciled'[i]
  BY <1>0, ExistsStays, ReconciledStays
<1>c. ASSUME NEW q \in Repairs, Opening(q)
      PROVE  RepairsInOrder /\ PatchesFit /\ \A r \in Repairs : Opening(r) => r = q
  <2>1. ~UNCHANGED pr BY <1>c DEF Opening
  <2>2. RepairsInOrder /\ PatchesFit BY <1>0, <2>1 DEF vars
  <2>3. OpenRepair(q) BY <1>0, <1>c, PrSteps DEF Opening, DecideRepair
  <2>4. \A r \in Repairs : r # q => pr'[r] = pr[r] BY <1>0, <2>3 DEF OpenRepair, GitHubType
  <2> QED BY <2>2, <2>4 DEF Opening
<1>d. ASSUME NEW i \in Items, Exists(i)'
      PROVE  \/ Exists(i) /\ issue'[i].rev = issue[i].rev
             \/ /\ issue'[i].rev = rep /\ rep \in Repairs /\ Opened(rep) /\ i \in Affected[rep]
                /\ rep \notin reconciled[i]
  <2>1. CASE CreateIssue(i)
    <3>1. pc = "item" /\ i \in todo /\ seen[i].state = "absent" BY <2>1 DEF CreateIssue
    <3>2. issue'[i].rev = rep BY <2>1, CreateEffect
    <3>3. rep \in Repairs /\ Opened(rep) /\ i \in Affected[rep] /\ ~Exists(i)
      BY <1>0, <3>1 DEF SessionInv, PlaceInv, LoopInv, RepairPC, ItemPC
    <3>4. rep \notin reconciled[i] BY <1>0, <3>3 DEF TrailInv
    <3> QED BY <3>2, <3>3, <3>4
  <2>2. CASE Repoint /\ i = cur
    <3>1. pc = "pointer" /\ issue'[i].rev = rep BY <1>0, <2>2, RepointEffect DEF Repoint
    <3>2. rep \in Repairs /\ Opened(rep) /\ cur \in Affected[rep] /\ rep \notin reconciled[cur]
      BY <1>0, <3>1 DEF SessionInv, PlaceInv, LoopInv, RepairPC, ItemPC, InItem
    <3> QED BY <2>2, <3>1, <3>2
  <2>3. CASE ~CreateIssue(i) /\ ~(Repoint /\ i = cur) BY <1>b, <1>d, <2>3, RowSteps
  <2> QED BY <2>1, <2>2, <2>3
<1>e. ASSUME NEW i \in Items, NEW v \in Revisions, Stands(v, i)'
      PROVE  Stands(v, i) \/ (v \in Repairs /\ Opening(v) /\ i \in Affected[v])
  <2>1. CASE Exists(i)' /\ v = issue'[i].rev BY <1>d, <2>1 DEF Stands
  <2>2. CASE v \in Repairs /\ Opened(v)' /\ i \in Affected[v] /\ v \notin reconciled'[i]
    BY <1>a, <1>b, <2>2 DEF Stands
  <2> QED BY <1>e, <2>1, <2>2 DEF Stands
<1>1. ASSUME NEW i \in Items, Exists(i)'
      PROVE  \/ issue'[i].rev = 0
             \/ /\ issue'[i].rev \in Repairs /\ pr'[issue'[i].rev] # "none"
                /\ i \in Affected[issue'[i].rev]
  <2>1. CASE Exists(i) /\ issue'[i].rev = issue[i].rev
    <3>1. PICK v : v = issue[i].rev OBVIOUS
    <3>2. v = 0 \/ (v \in Repairs /\ Opened(v) /\ i \in Affected[v]) BY <2>1, <3>1 DEF PlanInv
    <3>3. v = 0 \/ (v \in Repairs /\ pr'[v] # "none" /\ i \in Affected[v])
      BY <1>a, <3>2 DEF Opened
    <3> QED BY <2>1, <3>1, <3>3
  <2>2. CASE issue'[i].rev = rep /\ rep \in Repairs /\ Opened(rep) /\ i \in Affected[rep]
    <3>1. pr'[rep] # "none"
      <4>1. PICK v \in Repairs : v = rep BY <2>2
      <4>2. pr'[v] # "none" BY <1>a, <2>2, <4>1 DEF Opened
      <4> QED BY <4>1, <4>2
    <3> QED BY <2>2, <3>1
  <2> QED BY <1>1, <1>d, <2>1, <2>2
<1>2. ASSUME NEW r \in Repairs, NEW v \in Repairs, NEW i \in Items, Opened(r)', Retires(r, v, i),
             Opened(v)', i \in Affected[v]
      PROVE  v < r
  <2>0. v \in Revisions BY DEF Revisions
  <2>1. CASE Opening(v)
    <3>1. Opened(r) \/ r = v BY <1>2, <1>a, <1>c, <2>1
    <3> QED BY <1>2, <1>c, <2>1, <3>1 DEF PatchesFit
  <2>2. CASE ~Opening(v) /\ Opening(r)
    <3>1. Opened(v) BY <1>2, <1>a, <2>2
    <3> QED BY <1>c, <2>2, <3>1 DEF RepairsInOrder
  <2>3. CASE ~Opening(v) /\ ~Opening(r)
    <3>1. Opened(v) /\ Opened(r) BY <1>2, <1>a, <2>3
    <3> QED BY <1>2, <2>0, <3>1 DEF PlanInv
  <2> QED BY <2>1, <2>2, <2>3
<1>3. ASSUME NEW r \in Repairs, NEW v \in Revisions, NEW i \in Items, Opened(r)',
             Retires(r, v, i), Stands(v, i)'
      PROVE  i \in Affected[r]
  <2>1. CASE Opening(r)
    <3>1. CASE Stands(v, i) BY <1>3, <1>c, <2>1, <3>1 DEF PatchesFit
    <3>2. CASE v \in Repairs /\ Opening(v) /\ i \in Affected[v] BY <1>c, <2>1, <3>2
    <3> QED BY <1>3, <1>e, <3>1, <3>2
  <2>2. CASE ~Opening(r)
    <3>0. Opened(r) BY <1>3, <1>a, <2>2
    <3>1. CASE Stands(v, i) BY <1>3, <3>0, <3>1 DEF PlanInv
    <3>2. CASE v \in Repairs /\ Opening(v) /\ i \in Affected[v]
      BY <1>3, <1>c, <3>0, <3>2 DEF PatchesFit
    <3> QED BY <1>3, <1>e, <3>1, <3>2
  <2> QED BY <2>1, <2>2
<1>4. \A r \in Repairs : \A v \in Revisions : \A i \in Items :
        Opened(r)' /\ Retires(r, v, i) =>
           /\ v \in Repairs /\ Opened(v)' /\ i \in Affected[v] => v < r
           /\ Stands(v, i)' => i \in Affected[r]
  BY <1>2, <1>3
<1>5. \A i \in Items : Exists(i)' =>
        \/ issue'[i].rev = 0
        \/ /\ issue'[i].rev \in Repairs /\ pr'[issue'[i].rev] # "none"
           /\ i \in Affected[issue'[i].rev]
  BY <1>1
<1>6. (\A i \in Items : Exists(i) =>
         \/ issue[i].rev = 0
         \/ /\ issue[i].rev \in Repairs /\ Opened(issue[i].rev)
            /\ i \in Affected[issue[i].rev])'
  BY <1>5 DEF Opened
<1> QED BY <1>4, <1>6, Zenon DEF PlanInv, Retires

\* An issue that awaits the repair under way does so until it is reconciled.
LEMMA UnreconciledStays ==
  ASSUME TInv, TraceInv, Quiet, NEW i \in Items, Exists(i), Unreconciled(i),
         ~(ReconciledNote /\ i = cur)
  PROVE  Unreconciled(i)'
<1>0. LoopInv /\ [Next]_vars BY DEF TraceInv, Quiet
<1>1. pc \in ItemPC /\ i \in todo /\ rep \notin reconciled[i] BY DEF Unreconciled
<1>2. rep \notin reconciled'[i] BY <1>0, <1>1, ReconciledStays
<1> USE DEF ItemPC, InItem
<1> DEFINE G == rep' = rep /\ i \in todo' /\ pc' \in ItemPC
<1>3. ASSUME UNCHANGED session PROVE G BY <1>1, <1>3 DEF session, loop
<1>4. ASSUME Repoint \/ Supersede \/ RequeueLabel \/ \E j \in Items : CreateIssue(j) \/ ReconcileItem(j)
      PROVE  G
  BY <1>1, <1>4 DEF Repoint, Supersede, RequeueLabel, CreateIssue, ReconcileItem, Goto, loop
<1>5. ASSUME Recompute PROVE G BY <1>1, <1>5 DEF Recompute, Goto
<1>6. ASSUME ReconciledNote PROVE G BY <1>1, <1>6 DEF ReconciledNote, Goto
<1>7. ASSUME NEW j \in Items, SkipItem(j) PROVE G
  <2>1. pc = "item" /\ rep' = rep /\ todo' = todo \ {j} /\ pc' = "item"
        /\ (rep \in reconciled[j] \/ seen[j].state = "absent")
    BY <1>7 DEF SkipItem, Goto
  <2>2. seen[i].state # "absent" BY <1>0, <2>1 DEF LoopInv
  <2> QED BY <1>1, <2>1, <2>2
<1>8. ASSUME Requeuing
      PROVE  \/ Repoint \/ Supersede \/ RequeueLabel \/ Recompute \/ ReconciledNote
             \/ \E j \in Items : CreateIssue(j) \/ ReconcileItem(j) \/ SkipItem(j)
  BY <1>1, <1>8 DEF Requeuing, RepairStep, Requeue, RequeueDone, NextRepair, Mark, MarkLabel,
     MarkDone, Restore, RestoreDone, Reconcile, ItemsDone, ResolveNote, ClearRead, Clear,
     ResolveDone, MarkNote, RestoreLabel, Resolve
<1>9. G
  <2>1. CASE Requeuing BY <1>4, <1>5, <1>6, <1>7, <1>8, <2>1
  <2> QED BY <1>1, <1>3, <2>1, LoopSteps DEF RepairPC
<1> QED BY <1>2, <1>9 DEF Unreconciled

\* Whatever an open issue depends on is done if it is closed, or the issue still
\* awaits the repair that retires the dependency.
LEMMA DepsKept ==
  ASSUME TInv, TraceInv, HoldInv, MergeInv, RetireInv, PlanInv, DepsInv, Quiet PROVE DepsInv'
<1>0. /\ GitHubType /\ LoopType /\ SessionInv /\ TrailInv /\ PlaceInv /\ LoopInv /\ OtherInv
      /\ [Next]_vars /\ Repairs \subseteq Nat
      /\ Affected \in [Repairs -> SUBSET Items] /\ Deps \in [Revisions -> [Items -> SUBSET Items]]
  BY PlanAssumption DEF TInv, TraceInv, Quiet
<1>a. \A r \in Revisions : r \in Nat BY <1>0 DEF Revisions
<1> SUFFICES ASSUME NEW i \in Items, issue'[i].state = "open", NEW d \in Deps[issue'[i].rev][i],
                    issue'[d].state = "closed", d \notin done'
             PROVE  Unreconciled(i)'
  BY DEF DepsInv
<1>1. CASE CreateIssue(i)
  <2>1. /\ pc = "item" /\ i \in todo /\ seen[i].state = "absent" /\ pc' = "pointer"
        /\ UNCHANGED <<rep, todo, reconciled>>
    BY <1>1 DEF CreateIssue, Goto, comments
  <2>2. ~Exists(i) /\ rep \in Repairs BY <1>0, <2>1 DEF LoopInv, ItemPC, SessionInv, RepairPC
  <2>3. rep \notin reconciled[i] BY <1>0, <2>2 DEF TrailInv
  <2> QED BY <2>1, <2>3 DEF Unreconciled, ItemPC, InItem
<1>2. CASE Repoint /\ i = cur
  <2>1. pc = "pointer" /\ pc' = "recompute" /\ UNCHANGED <<rep, todo, reconciled>>
    BY <1>2 DEF Repoint, Goto, comments, loop
  <2>2. cur \in todo /\ rep \notin reconciled[cur] BY <1>0, <2>1 DEF LoopInv, InItem
  <2> QED BY <1>2, <2>1, <2>2 DEF Unreconciled, ItemPC, InItem
<1>3. CASE ~CreateIssue(i) /\ ~(Repoint /\ i = cur)
  <2>1. issue'[i].rev = issue[i].rev BY <1>3, RowSteps
  <2>2. issue[i].state = "open" /\ Exists(i) BY <1>0, <1>3, OpenSteps DEF Exists
  <2>3. issue[i].rev \in Revisions BY <1>0 DEF GitHubType, Issue
  <2>4. d \in Items /\ d \in Deps[issue[i].rev][i] BY <1>0, <2>1, <2>3
  <2>5. d \notin done BY DoneStays
  <2>6. CASE Supersede /\ d = cur
    <3>1. /\ pc = "pointer" /\ cur \in Superseded[rep] /\ pc' = "reconciledNote"
          /\ UNCHANGED <<rep, todo, reconciled>>
      BY <2>6 DEF Supersede, Goto, comments, loop
    <3>2. rep \in Repairs BY <1>0, <3>1 DEF SessionInv, RepairPC
    <3>3. i \in Affected[rep] /\ issue[i].rev < rep
      <4>1. Retires(rep, issue[i].rev, i) BY <2>4, <2>6, <3>1 DEF Retires
      <4>2. Opened(rep) BY <1>0, <3>1 DEF PlaceInv, RepairPC
      <4>3. i \in Affected[rep] BY <2>2, <2>3, <3>2, <4>1, <4>2 DEF PlanInv, Stands
      <4>4. CASE issue[i].rev = 0 BY <3>2, <4>3, <4>4, PlanAssumption
      <4>5. CASE issue[i].rev # 0 BY <2>2, <2>3, <3>2, <4>1, <4>2, <4>3, <4>5 DEF PlanInv
      <4> QED BY <4>4, <4>5
    <3>4. rep \notin reconciled[i]
      <4>1. rep \in reconciled[i] => rep <= issue[i].rev BY <2>2 DEF RetireInv
      <4>2. issue[i].rev \in Nat /\ rep \in Nat BY <1>0, <1>a, <2>3, <3>2
      <4> QED BY <3>3, <4>1, <4>2
    <3>5. i \in todo BY <2>2, <3>1, <3>3, <3>4 DEF MergeInv, ItemPC, InItem
    <3> QED BY <3>1, <3>4, <3>5 DEF Unreconciled, ItemPC, InItem
  <2>7. CASE ~(Supersede /\ d = cur)
    <3>1. issue[d].state = "closed" BY <2>4, <2>7, RowSteps
    <3>2. Unreconciled(i) BY <2>2, <2>4, <2>5, <3>1 DEF DepsInv
    <3>3. ASSUME ReconciledNote, i = cur PROVE FALSE
      <4>1. pc = "reconciledNote" BY <3>3 DEF ReconciledNote
      <4>2. rep \in Repairs /\ issue[cur].rev = rep
        BY <1>0, <2>2, <3>3, <4>1 DEF RetireInv, SessionInv, RepairPC
      <4>3. PICK r \in Repairs : d \in Superseded[r] /\ r \in reconciled[d]
        BY <2>2, <2>4, <2>5, <3>1, <3>3 DEF RetireInv
      <4>5. Opened(r) /\ ~Unheard(r)
        BY <1>0, <2>4, <4>3 DEF TrailInv, Opened, Unheard
      <4>4. cur \in Affected[r] /\ rep < r
        <5>1. Retires(r, rep, cur) BY <2>4, <3>3, <4>2, <4>3 DEF Retires
        <5>2. rep \in Revisions BY <4>2 DEF Revisions
        <5>3. Stands(rep, cur) BY <2>2, <3>3, <4>2 DEF Stands
        <5>4. Opened(rep) /\ cur \in Affected[rep]
          BY <1>0, <4>1 DEF PlaceInv, LoopInv, RepairPC, ItemPC, InItem
        <5>5. cur \in Items BY <3>3
        <5> QED BY <4>2, <4>3, <4>5, <5>1, <5>2, <5>3, <5>4, <5>5 DEF PlanInv
      <4>6. r # rep BY <1>0, <4>2, <4>4
      <4>7. r < rep BY <4>1, <4>4, <4>5, <4>6, NewestRepair DEF InItem
      <4> QED BY <1>0, <4>2, <4>4, <4>7
    <3> QED BY <2>2, <3>2, <3>3, UnreconciledStays
  <2> QED BY <2>6, <2>7
<1> QED BY <1>1, <1>2, <1>3

\* The steps that lead to a task.
LEMMA TaskSteps ==
  ASSUME Quiet, CtxInv
  PROVE  /\ pc' \in {"select", "claimRead", "claim", "claimed"} =>
              \/ OutsideStep \/ ListReady \/ ClaimRead \/ Claim
              \/ \E i \in Items : Demote(i) \/ Select(i)
         /\ ctx' = "task" =>
              \/ ctx = "task" /\ UNCHANGED worker
              \/ RunTask \/ \E i \in Items : StartContinue(i)
<1> DEFINE Early == \/ OutsideStep \/ ListReady \/ ClaimRead \/ Claim
                    \/ \E i \in Items : Demote(i) \/ Select(i)
           P == pc' \notin {"select", "claimRead", "claim", "claimed"}
           Q == ctx' = "task" => ctx = "task" /\ UNCHANGED worker
<1>1. ASSUME Raised \/ EndSession PROVE P /\ Q BY <1>1 DEF Raised, EndSession
<1>2. ASSUME OutsideStep PROVE Q BY <1>2, OutsideSession DEF session
<1>3. ASSUME \/ ListReady \/ ClaimRead \/ \E i \in Items : Demote(i) PROVE Q
  BY <1>3 DEF ListReady, ClaimRead, Demote, Goto
<1>4. ASSUME Claim PROVE Q BY <1>4 DEF Claim, CtxInv
<1>5. ASSUME NEW i \in Items, Select(i) PROVE Q
  <2>1. CASE Raised BY <1>1, <2>1
  <2>2. CASE ~Raised BY <1>5, <2>2 DEF Select, CtxInv
  <2> QED BY <2>1, <2>2
<1>6. ASSUME RunTask \/ \E i \in Items : StartContinue(i) PROVE P
  BY <1>6 DEF RunTask, StartContinue
<1>7. ASSUME \/ StartWorker \/ Promote \/ WriteLocal \/ Outcome \/ FinalStatus \/ Refresh
             \/ \E i \in Items : PromoteIssue(i)
      PROVE  P /\ Q
  BY <1>7 DEF StartWorker, Promote, WriteLocal, Outcome, FinalStatus, Refresh, PromoteIssue, Goto
<1>8. ASSUME \/ PostCheckpoint \/ TaskReturns
             \/ \E k \in {"plain", "pr", "manual"} : FinishTask(k)
             \/ \E r \in Repairs : OpenRepair(r)
      PROVE  P /\ Q
  BY <1>8 DEF PostCheckpoint, TaskReturns, FinishTask, OpenRepair
<1>9. ASSUME NothingReady \/ RejectClaim PROVE P /\ Q
  BY <1>1, <1>9 DEF NothingReady, RejectClaim
<1>10. ASSUME LoopEnd \/ RequeueDone PROVE P /\ Q
  <2>1. CASE EndSession BY <1>1, <2>1
  <2>2. CASE ~EndSession
    BY <1>10, <2>2 DEF LoopEnd, RequeueDone, MarkDone, RestoreDone, ResolveDone, Goto
  <2> QED BY <2>1, <2>2
<1>11. ASSUME Recompute PROVE P /\ Q BY <1>11 DEF Recompute, Goto
<1>12. ASSUME Mark \/ CheckRepair PROVE P /\ Q
  <2>1. CASE Raised BY <1>1, <2>1
  <2>2. CASE ~Raised BY <1>12, <2>2 DEF Mark, CheckRepair, Goto
  <2> QED BY <2>1, <2>2
<1>13. ASSUME \/ Requeue \/ MarkLabel \/ Restore \/ Reconcile \/ Repoint \/ Supersede
              \/ RequeueLabel \/ ReconciledNote \/ ItemsDone \/ ResolveNote \/ ClearRead \/ Clear
              \/ \E r \in Repairs : NextRepair(r)
              \/ \E i \in Items : \/ MarkNote(i) \/ RestoreLabel(i) \/ CreateIssue(i)
                                  \/ ReconcileItem(i) \/ SkipItem(i) \/ Resolve(i)
       PROVE  P /\ Q
  BY <1>13 DEF Requeue, MarkLabel, Restore, Reconcile, Repoint, Supersede, RequeueLabel,
     ReconciledNote, ItemsDone, ResolveNote, ClearRead, Clear, NextRepair, MarkNote, RestoreLabel,
     CreateIssue, ReconcileItem, SkipItem, Resolve, Goto
<1> HIDE DEF P, Q
<1>14. P \/ Early
  BY <1>6, <1>7, <1>8, <1>9, <1>10, <1>11, <1>12, <1>13, QuietSteps, Zenon DEF OwnStep, RepairWork
<1>15. \/ Q \/ RunTask \/ \E i \in Items : StartContinue(i)
  BY <1>2, <1>3, <1>4, <1>5, <1>7, <1>8, <1>9, <1>10, <1>11, <1>12, <1>13, QuietSteps, Zenon
     DEF OwnStep, RepairWork
<1> QED BY <1>14, <1>15 DEF P, Q

\* From the list of ready issues to the task: the dependencies that were read
\* as closed are done.
LEMMA TaskKept ==
  ASSUME TInv, CtxInv, DepsInv, TaskInv, Quiet PROVE TaskInv'
<1>0. /\ LoopType /\ ControlType /\ done \subseteq done'
      /\ Deps \in [Revisions -> [Items -> SUBSET Items]]
  BY PlanAssumption, DoneStays DEF TInv
<1>a. OutsideStep => UNCHANGED <<pc, rep, todo, cur, seen, item, resumed, base>>
  BY OutsideSession DEF session, loop, worker
<1>b. ASSUME NEW i \in Items, Select(i), pc' \in {"select", "claimRead", "claim", "claimed"}
      PROVE  /\ pc = "select" /\ i \in todo /\ DependenciesClosed(i, seen[i].rev)
             /\ pc' = "claimRead" /\ cur' = i /\ base' = seen[i].rev
  BY <1>b DEF Select, Raised, EndSession
<1>1. ASSUME pc' = "select", NEW i \in todo', NEW d \in Deps[seen'[i].rev][i],
             seen'[d].state = "closed"
      PROVE  d \in done'
  <2>1. CASE OutsideStep BY <1>0, <1>1, <1>a, <2>1 DEF TaskInv
  <2>2. CASE ListReady
    <3>1. /\ pc = "promoting" /\ seen' = issue /\ i \in Items /\ issue[i].state = "open"
      BY <1>1, <2>2 DEF ListReady
    <3>2. d \in done BY <1>1, <3>1 DEF DepsInv, Unreconciled, ItemPC, InItem
    <3> QED BY <1>0, <3>2
  <2>3. ASSUME NEW j \in Items, Demote(j) PROVE d \in done'
    <3>1. pc = "select" /\ seen' = seen /\ i \in todo BY <1>1, <2>3 DEF Demote
    <3> QED BY <1>0, <1>1, <3>1 DEF TaskInv
  <2>4. ~ClaimRead /\ ~Claim /\ ~\E j \in Items : Select(j)
    BY <1>1, <1>b DEF ClaimRead, Claim, Goto
  <2> QED BY <1>1, <2>1, <2>2, <2>3, <2>4, TaskSteps
<1>2. ASSUME pc' \in {"claimRead", "claim"} PROVE Deps[base'][cur'] \subseteq done'
  <2>1. CASE OutsideStep BY <1>0, <1>2, <1>a, <2>1 DEF TaskInv
  <2>2. CASE ClaimRead
    <3>1. pc = "claimRead" /\ cur' = cur /\ base' = base BY <2>2 DEF ClaimRead, Goto, worker
    <3> QED BY <1>0, <3>1 DEF TaskInv
  <2>3. ASSUME NEW i \in Items, Select(i) PROVE Deps[base'][cur'] \subseteq done'
    <3>1. /\ pc = "select" /\ i \in todo /\ DependenciesClosed(i, seen[i].rev)
          /\ cur' = i /\ base' = seen[i].rev
      BY <1>2, <1>b, <2>3
    <3>2. Deps[seen[i].rev][i] \subseteq done BY <3>1 DEF TaskInv, DependenciesClosed
    <3> QED BY <1>0, <3>1, <3>2
  <2>4. ~ListReady /\ ~Claim /\ ~\E i \in Items : Demote(i)
    BY <1>2 DEF ListReady, Claim, Demote, Goto
  <2> QED BY <1>2, <2>1, <2>2, <2>3, <2>4, TaskSteps
<1>3. ASSUME pc' = "claimed" PROVE Deps[base'][item'] \subseteq done'
  <2>1. CASE OutsideStep BY <1>0, <1>3, <1>a, <2>1 DEF TaskInv
  <2>2. CASE Claim
    <3>1. pc = "claim" /\ item' = cur /\ base' = base BY <2>2 DEF Claim
    <3> QED BY <1>0, <3>1 DEF TaskInv
  <2>3. ~ListReady /\ ~ClaimRead /\ ~\E i \in Items : Demote(i) \/ Select(i)
    BY <1>3, <1>b DEF ListReady, ClaimRead, Demote, Goto
  <2> QED BY <1>3, <2>1, <2>2, <2>3, TaskSteps
<1>4. ASSUME pc' # "idle", ctx' = "task", ~resumed' PROVE Deps[base'][item'] \subseteq done'
  <2>1. CASE ctx = "task" /\ UNCHANGED worker
    <3>1. pc # "idle" BY <2>1 DEF CtxInv
    <3>2. UNCHANGED <<item, resumed, base>> BY <2>1 DEF worker
    <3> QED BY <1>0, <1>4, <2>1, <3>1, <3>2 DEF TaskInv, DependenciesDone
  <2>2. CASE RunTask
    <3>1. pc = "claimed" /\ UNCHANGED <<item, base>> BY <2>2 DEF RunTask, worker
    <3> QED BY <1>0, <3>1 DEF TaskInv
  <2>3. ~\E i \in Items : StartContinue(i) BY <1>4 DEF StartContinue
  <2> QED BY <1>4, <2>1, <2>2, <2>3, TaskSteps
<1> QED BY <1>1, <1>2, <1>3, <1>4 DEF TaskInv, DependenciesDone

\* As long as nothing has failed.
ItemsFaultless == faults = 0 => ItemInv

\* At the start no issue is closed and nothing is reconciled.
LEMMA ItemsInit == Init => CtxInv /\ ItemsFaultless
<1> SUFFICES ASSUME Init PROVE CtxInv /\ ItemInv BY DEF ItemsFaultless
<1>1. /\ pc = "idle" /\ ctx = "start" /\ kind = "none"
      /\ \A i \in Items : reconciled[i] = {} /\ resolved[i] = {} /\ issue[i].state # "closed"
  BY DEF Init, Absent
<1>2. CtxInv BY <1>1 DEF CtxInv
<1>3. MergeInv /\ RetireInv BY <1>1 DEF MergeInv, RetireInv, ItemPC, InItem, EndPC, InEnd
<1>4. DepsInv
  <2> SUFFICES ASSUME NEW i \in Items, NEW d \in Deps[issue[i].rev][i]
               PROVE  issue[d].state # "closed"
    BY DEF DepsInv
  <2>1. issue[i].rev = 0 BY DEF Init, Absent
  <2>2. d \in Items BY <2>1, PlanAssumption DEF Revisions
  <2> QED BY <1>1, <2>2
<1>5. TaskInv BY <1>1 DEF TaskInv, DependenciesDone
<1>6. PlanInv
  <2>1. \A i \in Items : issue[i].rev = 0 BY DEF Init, Absent
  <2>2. \A r \in Repairs : ~Opened(r) BY DEF Init, Opened
  <2> QED BY <2>1, <2>2 DEF PlanInv
<1> QED BY <1>2, <1>3, <1>4, <1>5, <1>6 DEF ItemInv

\* Merges, retired issues, dependencies and tasks, together.
LEMMA ItemsInductive == FittingSpec => [](CtxInv /\ ItemsFaultless)
<1>1. TInv /\ TraceInv /\ Faultless /\ CtxInv /\ ItemsFaultless
        /\ [Next]_vars /\ [RepairsInOrder]_vars /\ [PatchesFit]_vars
        => (CtxInv /\ ItemsFaultless)'
  <2> SUFFICES ASSUME TInv, TraceInv, Faultless, CtxInv, ItemsFaultless, [Next]_vars,
                      [RepairsInOrder]_vars, [PatchesFit]_vars
               PROVE  (CtxInv /\ ItemsFaultless)'
    OBVIOUS
  <2>1. CtxInv' BY CtxStep
  <2>2. ASSUME faults' = 0 PROVE ItemInv'
    <3>1. HoldInv /\ ItemInv /\ Quiet BY <2>2, FaultSteps DEF Faultless, ItemsFaultless
    <3>2. MergeInv' BY <3>1, MergeKept DEF ItemInv
    <3>3. RetireInv' BY <3>1, RetireKept DEF ItemInv
    <3>4. DepsInv' BY <3>1, DepsKept DEF ItemInv
    <3>5. TaskInv' BY <3>1, TaskKept DEF ItemInv
    <3>6. PlanInv' BY <3>1, PlanKept DEF ItemInv
    <3> QED BY <3>2, <3>3, <3>4, <3>5, <3>6 DEF ItemInv
  <2> QED BY <2>1, <2>2 DEF ItemsFaultless
<1> QED BY <1>1, ItemsInit, FaultlessInductive, TypeInductive, TraceInductive, PTL
        DEF FittingSpec, OrderlySpec, Spec

\* Until something fails, the item that run_worker_once works on depends only on
\* work that was accepted, never on an issue that a repair has closed because it
\* was superseded (_dependency_is_closed looks at the state of the issue only).
THEOREM DependenciesSatisfied == FittingSpec => [](faults = 0 => DependenciesDone)
<1>1. ItemsFaultless => (faults = 0 => DependenciesDone)
  BY DEF ItemsFaultless, ItemInv, TaskInv
<1> QED BY <1>1, ItemsInductive, PTL
=============================================================================
