--------------------------- MODULE IssueQueueProofs ---------------------------
(***************************************************************************)
(* Theorems about the issue queue, for every plan, every set of repairs and *)
(* every bound: types, one active repair per issue, and no checkpoint under *)
(* a pending repair, whatever calls fail and whichever process is killed;   *)
(* and, where nothing fails, that work which waits for a human can be       *)
(* continued.                                                               *)
(***************************************************************************)
EXTENDS IssueQueue, FiniteSetTheorems, TLAPS

\* Types on GitHub, in the session and beside it.
GitHubType ==
    /\ issue \in [Items -> Issue]
    /\ pending \in [Items -> [Repairs -> Pending]]
    /\ resolved \in [Items -> SUBSET Repairs]
    /\ reconciled \in [Items -> SUBSET Repairs]
    /\ digests \in [Items -> SUBSET Nat]
    /\ published \in [Items -> Repairs \cup {NoPR, ImplPR}]
    /\ pr \in [Repairs -> {"none", "open", "merged", "closed"}]

LoopType ==
    /\ rep \in Repairs \cup {NoPR} /\ found \subseteq Repairs
    /\ todo \subseteq Items /\ cur \in Items \cup {NoItem}
    /\ seen \in [Items -> Issue] /\ status \in Status

ControlType ==
    /\ pc \in PC /\ ctx \in {"start", "task", "end"}
    /\ kind \in {"none", "plain", "pr", "manual", "repair"} /\ rc \in {0, 1}
    /\ item \in Items \cup {NoItem} /\ resumed \in BOOLEAN /\ base \in Revisions

CommandType ==
    /\ command.item \in Items \cup {NoItem} /\ command.status \in Status
    /\ command.label \in BOOLEAN /\ command.op \in {"none", "observe", "ci", "fulfil"}

OutsideType ==
    /\ local \in [Items -> {"none", "plain", "pr", "manual"}]
    /\ CommandType
    /\ tasks \in 0..MaxTasks /\ commands \in 0..MaxCommands
    /\ done \subseteq Items /\ dropped \subseteq Items

\* A session that handles a repair has one, a checkpoint in progress is one of
\* run_task, and a command is about an issue.
SessionInv ==
    /\ pc \in RepairPC => rep \in Repairs
    /\ kind = "repair" => rep \in Repairs
    /\ kind # "none" => pc \in {"check", "mark", "markNote", "markLabel", "local", "comment"}
    /\ pc \in {"mark", "markNote", "markLabel"} => kind \in {"none", "repair"}
    /\ pc \in {"check", "local", "comment"} => kind # "none"

CommandInv == command.op # "none" => command.item \in Items

TInv ==
    /\ GitHubType /\ LoopType /\ ControlType /\ OutsideType
    /\ faults \in 0..MaxFaults
    /\ SessionInv /\ CommandInv

-----------------------------------------------------------------------------
\* Label writes and what a read of an issue yields.
LEMMA SetLabelsType ==
  ASSUME GitHubType, NEW i, NEW s, NEW l, i \in Items => s \in Status /\ l \in BOOLEAN,
         SetLabels(i, s, l)
  PROVE  issue' \in [Items -> Issue]
<1> USE DEF GitHubType, SetLabels
<1>1. CASE i \in Items
  <2>1. issue[i] \in Issue BY <1>1
  <2>2. [[issue[i] EXCEPT !.status = s] EXCEPT !.label = l] \in Issue
    BY <1>1, <2>1 DEF Issue
  <2> QED BY <1>1, <2>2
<1>2. CASE i \notin Items BY <1>2
<1> QED BY <1>1, <1>2

\* The local variables of a requeue are well-typed once forgotten.
LEMMA ForgetType == ASSUME Forget PROVE LoopType'
<1>1. Absent \in Issue BY DEF Absent, Issue, Status, Revisions
<1> QED BY <1>1 DEF Forget, LoopType, Status

\* The end of a session.
LEMMA EndType == ASSUME TInv, EndSession PROVE LoopType' /\ ControlType' /\ SessionInv'
<1>1. LoopType' BY ForgetType DEF EndSession
<1>2. ControlType' BY Zenon DEF EndSession, ControlType, PC, Revisions
<1>3. SessionInv' BY DEF EndSession, SessionInv, RepairPC
<1> QED BY <1>1, <1>2, <1>3

\* An exception.
LEMMA RaisedType == ASSUME TInv, Raised PROVE LoopType' /\ ControlType' /\ SessionInv'
<1>1. CASE EndSession BY <1>1, EndType
<1>2. CASE ~EndSession
  <2>1. /\ pc' = "outcome" /\ ctx' = "end" /\ kind' = "none" /\ rc' = 1
        /\ Forget /\ UNCHANGED worker
    BY <1>2, Zenon DEF Raised
  <2>2. LoopType' BY <2>1, ForgetType
  <2>3. ControlType' BY <2>1 DEF TInv, ControlType, PC, worker
  <2>4. SessionInv' BY <2>1 DEF SessionInv, RepairPC
  <2> QED BY <2>2, <2>3, <2>4
<1> QED BY <1>1, <1>2

-----------------------------------------------------------------------------
\* A step of the session that goes on at p.
LEMMA GotoType == ASSUME TInv, NEW p \in PC, Goto(p) PROVE ControlType'
BY DEF TInv, ControlType, Goto, worker

\* A row that was read has a status and a label to write back.
LEMMA RowType ==
  ASSUME NEW f \in [Items -> Issue], NEW i \in Items
  PROVE  /\ f[i].status \in Status /\ f[i].label \in BOOLEAN /\ f[i].rev \in Revisions
         /\ f[i].state \in {"absent", "open", "closed"}
<1>1. f[i] \in Issue OBVIOUS
<1> QED BY <1>1 DEF Issue

\* Every step of the repair machinery keeps the types.
LEMMA RepairType == ASSUME TInv, RepairStep, UNCHANGED outside PROVE TInv'
<1> USE PlanAssumption DEF NoPR, NoItem
<1> DEFINE G == GitHubType' /\ LoopType' /\ ControlType' /\ SessionInv' /\ faults' = faults
<1>0. /\ GitHubType /\ LoopType /\ ControlType /\ SessionInv
      /\ \A p \in RepairPC \cup {"repair", "promote", "run", "local"} : p \in PC
  BY DEF TInv, PC
<1>1. ASSUME Requeue PROVE G
  <2>1. ControlType' BY <1>1, GotoType, "requeue" \in PC DEF Requeue, PC
  <2> QED BY <1>0, <1>1, <2>1
          DEF Requeue, Goto, GitHubType, LoopType, SessionInv, RepairPC, Discovered, comments
<1>2. ASSUME RequeueDone PROVE G
  <2>1. CASE EndSession
    BY <1>0, <1>2, <2>1, EndType DEF RequeueDone, GitHubType, comments
  <2>2. CASE ~EndSession
    <3>1. PICK p \in {"promote", "run"} : Goto(p) /\ Forget
      BY <1>2, <2>2 DEF RequeueDone
    <3>2. LoopType' BY <3>1, ForgetType
    <3>3. ControlType' BY <3>1, GotoType DEF PC
    <3>4. SessionInv' BY <1>0, <1>2, <3>1 DEF RequeueDone, Goto, SessionInv, RepairPC
    <3> QED BY <1>0, <1>2, <3>2, <3>3, <3>4 DEF RequeueDone, GitHubType, comments
  <2> QED BY <2>1, <2>2
<1>3. ASSUME NEW r \in Repairs, NextRepair(r) PROVE G
  <2>1. PICK p \in {"mark", "restore", "reconcile"} : Goto(p) BY <1>3 DEF NextRepair
  <2>2. ControlType' BY <2>1, GotoType DEF PC, RepairPC
  <2> QED BY <1>0, <1>3, <2>1, <2>2
          DEF NextRepair, Goto, GitHubType, LoopType, SessionInv, RepairPC, comments
<1>4. ASSUME Mark PROVE G
  <2>1. CASE Raised
    BY <1>0, <1>4, <2>1, RaisedType DEF Mark, GitHubType, comments
  <2>2. CASE ~Raised
    <3>1. Goto("markNote") BY <1>4, <2>2 DEF Mark
    <3>2. ControlType' BY <3>1, GotoType DEF PC, RepairPC
    <3> QED BY <1>0, <1>4, <2>2, <3>1, <3>2
            DEF Mark, Goto, GitHubType, LoopType, SessionInv, RepairPC, comments, AffectedIssues
  <2> QED BY <2>1, <2>2
<1>5. ASSUME NEW i \in Items, MarkNote(i) PROVE G
  <2>1. ControlType' BY <1>5, GotoType DEF MarkNote, PC, RepairPC
  <2>2. [status |-> StatusOf(seen[i]), state |-> seen[i].state, rev |-> seen[i].rev] \in Pending
    BY <1>0, RowType DEF LoopType, StatusOf, Pending, Status
  <2>3. pending' \in [Items -> [Repairs -> Pending]]
    BY <1>0, <1>5, <2>2 DEF MarkNote, GitHubType
  <2> QED BY <1>0, <1>5, <2>1, <2>3 DEF MarkNote, Goto, GitHubType, LoopType, SessionInv, RepairPC
<1>6. ASSUME MarkLabel PROVE G
  <2>1. ControlType' BY <1>6, GotoType DEF MarkLabel, PC, RepairPC
  <2>2. issue' \in [Items -> Issue]
    BY <1>0, <1>6, SetLabelsType DEF MarkLabel, GitHubType, Status
  <2> QED BY <1>0, <1>6, <2>1, <2>2
          DEF MarkLabel, Goto, GitHubType, LoopType, SessionInv, RepairPC, comments
<1>7. ASSUME MarkDone PROVE G
  <2>1. PICK p \in {"local", "repair"} : Goto(p) /\ (p = "local" => kind = "repair")
    BY <1>7 DEF MarkDone
  <2>2. ControlType' BY <2>1, GotoType DEF PC
  <2> QED BY <1>0, <1>7, <2>1, <2>2
          DEF MarkDone, Goto, GitHubType, LoopType, SessionInv, RepairPC, comments, loop
<1>8. ASSUME Restore PROVE G
  <2>1. ControlType' BY <1>8, GotoType DEF Restore, PC, RepairPC
  <2> QED BY <1>0, <1>8, <2>1
          DEF Restore, Goto, GitHubType, LoopType, SessionInv, RepairPC, comments, AffectedIssues
<1>9. ASSUME NEW i \in Items, RestoreLabel(i) PROVE G
  <2>1. PICK p \in {"resolveNote", "clearRead"} : Goto(p) BY <1>9 DEF RestoreLabel
  <2>2. ControlType' BY <2>1, GotoType DEF PC, RepairPC
  <2>3. rep \in Repairs BY <1>0, <1>9 DEF RestoreLabel, SessionInv, RepairPC
  <2>4. pending[i][rep].status \in Status
    <3>1. pending[i][rep] \in Pending BY <1>0, <2>3 DEF GitHubType
    <3> QED BY <3>1 DEF Pending
  <2>5. issue' \in [Items -> Issue]
    BY <1>0, <1>9, <2>4, SetLabelsType DEF RestoreLabel, GitHubType
  <2> QED BY <1>0, <1>9, <2>1, <2>2, <2>3, <2>5
          DEF RestoreLabel, Goto, GitHubType, LoopType, SessionInv, RepairPC, comments
<1>10. ASSUME RestoreDone \/ ResolveDone PROVE G
  <2>1. ControlType' BY <1>10, GotoType DEF RestoreDone, ResolveDone, PC
  <2> QED BY <1>0, <1>10, <2>1
          DEF RestoreDone, ResolveDone, Goto, GitHubType, LoopType, SessionInv, RepairPC, comments,
              loop
<1>11. ASSUME Reconcile PROVE G
  <2>1. ControlType' BY <1>11, GotoType DEF Reconcile, PC, RepairPC
  <2> QED BY <1>0, <1>11, <2>1
          DEF Reconcile, Goto, GitHubType, LoopType, SessionInv, RepairPC, comments
<1>12. ASSUME NEW i \in Items, CreateIssue(i) PROVE G
  <2>1. ControlType' BY <1>12, GotoType DEF CreateIssue, PC, RepairPC
  <2> DEFINE row == [state |-> "open", label |-> FALSE, rev |-> rep,
                     status |-> IF Deps[rep][i] = {} THEN "ready" ELSE "blocked_on_dependency"]
  <2>2. row \in Issue BY <1>0 DEF LoopType, Issue, Status, Revisions
  <2> HIDE DEF row
  <2>3. issue' = [issue EXCEPT ![i] = row] BY <1>12 DEF CreateIssue, row
  <2>4. issue' \in [Items -> Issue] /\ issue'[i] \in Issue
    BY <1>0, <2>2, <2>3 DEF GitHubType
  <2>5. seen' \in [Items -> Issue] BY <1>0, <1>12, <2>4 DEF CreateIssue, LoopType
  <2> QED BY <1>0, <1>12, <2>1, <2>4, <2>5
          DEF CreateIssue, Goto, GitHubType, LoopType, SessionInv, RepairPC, comments
<1>13. ASSUME NEW i \in Items, ReconcileItem(i) \/ SkipItem(i) PROVE G
  <2>1. PICK p \in {"pointer", "item"} : Goto(p) BY <1>13 DEF ReconcileItem, SkipItem
  <2>2. ControlType' BY <2>1, GotoType DEF PC, RepairPC
  <2> QED BY <1>0, <1>13, <2>1, <2>2
          DEF ReconcileItem, SkipItem, Goto, GitHubType, LoopType, SessionInv, RepairPC, comments
<1>14. ASSUME Repoint PROVE G
  <2>1. ControlType' BY <1>14, GotoType DEF Repoint, PC, RepairPC
  <2>2. issue' \in [Items -> Issue]
    <3>1. rep \in Revisions BY <1>0 DEF LoopType, Revisions
    <3>2. CASE cur \in Items
      <4>1. issue[cur] \in Issue BY <1>0, <3>2 DEF GitHubType
      <4>2. [issue[cur] EXCEPT !.rev = rep] \in Issue BY <3>1, <4>1 DEF Issue
      <4> QED BY <1>0, <1>14, <3>2, <4>2 DEF Repoint, GitHubType
    <3>3. CASE cur \notin Items BY <1>0, <1>14, <3>3 DEF Repoint, GitHubType
    <3> QED BY <3>2, <3>3
  <2> QED BY <1>0, <1>14, <2>1, <2>2
          DEF Repoint, Goto, GitHubType, LoopType, SessionInv, RepairPC, comments, loop
<1>15. ASSUME Supersede PROVE G
  <2>1. ControlType' BY <1>15, GotoType DEF Supersede, PC, RepairPC
  <2>2. issue' \in [Items -> Issue]
    <3>1. CASE cur \in Items
      <4>1. issue[cur] \in Issue /\ seen[cur].label \in BOOLEAN
        BY <1>0, <3>1, RowType DEF GitHubType, LoopType
      <4>2. [[[issue[cur] EXCEPT !.state = "closed"] EXCEPT !.status = "none"]
                EXCEPT !.label = seen[cur].label] \in Issue
        BY <4>1 DEF Issue, Status
      <4> QED BY <1>0, <1>15, <3>1, <4>2 DEF Supersede, GitHubType
    <3>2. CASE cur \notin Items BY <1>0, <1>15, <3>2 DEF Supersede, GitHubType
    <3> QED BY <3>1, <3>2
  <2> QED BY <1>0, <1>15, <2>1, <2>2
          DEF Supersede, Goto, GitHubType, LoopType, SessionInv, RepairPC, comments, loop
<1>16. ASSUME Recompute PROVE G
  <2>1. PICK p \in {"requeueLabel", "reconciledNote"} : Goto(p) BY <1>16 DEF Recompute
  <2>2. ControlType' BY <2>1, GotoType DEF PC, RepairPC
  <2>3. seen' \in [Items -> Issue]
    <3>1. CASE cur \in Items
      <4>1. seen[cur] \in Issue /\ issue[cur].label \in BOOLEAN
        BY <1>0, <3>1, RowType DEF GitHubType, LoopType
      <4>2. [seen[cur] EXCEPT !.label = issue[cur].label] \in Issue
        BY <4>1 DEF Issue
      <4> QED BY <1>0, <1>16, <3>1, <4>2 DEF Recompute, LoopType
    <3>2. CASE cur \notin Items BY <1>0, <1>16, <3>2 DEF Recompute, LoopType
    <3> QED BY <3>1, <3>2
  <2>4. status' \in Status
    BY <1>0, <1>16 DEF Recompute, LoopType, Status
  <2> QED BY <1>0, <1>16, <2>1, <2>2, <2>3, <2>4
          DEF Recompute, Goto, GitHubType, LoopType, SessionInv, RepairPC, comments
<1>17. ASSUME RequeueLabel PROVE G
  <2>1. ControlType' BY <1>17, GotoType DEF RequeueLabel, PC, RepairPC
  <2>2. issue' \in [Items -> Issue]
    <3>1. cur \in Items => seen[cur].label \in BOOLEAN BY <1>0, RowType DEF LoopType
    <3> QED BY <1>0, <1>17, <3>1, SetLabelsType DEF RequeueLabel, LoopType
  <2> QED BY <1>0, <1>17, <2>1, <2>2
          DEF RequeueLabel, Goto, GitHubType, LoopType, SessionInv, RepairPC, comments, loop
<1>18. ASSUME ReconciledNote PROVE G
  <2>1. ControlType' BY <1>18, GotoType DEF ReconciledNote, PC, RepairPC
  <2>2. rep \in Repairs BY <1>0, <1>18 DEF ReconciledNote, SessionInv, RepairPC
  <2> QED BY <1>0, <1>18, <2>1, <2>2
          DEF ReconciledNote, Goto, GitHubType, LoopType, SessionInv, RepairPC
<1>19. ASSUME ItemsDone PROVE G
  <2>1. ControlType' BY <1>19, GotoType DEF ItemsDone, PC, RepairPC
  <2> QED BY <1>0, <1>19, <2>1
          DEF ItemsDone, Goto, GitHubType, LoopType, SessionInv, RepairPC, comments, AffectedIssues
<1>20. ASSUME NEW i \in Items, Resolve(i) PROVE G
  <2>1. PICK p \in {"resolveNote", "clearRead"} : Goto(p) BY <1>20 DEF Resolve
  <2>2. ControlType' BY <2>1, GotoType DEF PC, RepairPC
  <2> QED BY <1>0, <1>20, <2>1, <2>2
          DEF Resolve, Goto, GitHubType, LoopType, SessionInv, RepairPC, comments
<1>21. ASSUME ResolveNote PROVE G
  <2>1. ControlType' BY <1>21, GotoType DEF ResolveNote, PC, RepairPC
  <2>2. rep \in Repairs BY <1>0, <1>21 DEF ResolveNote, SessionInv, RepairPC
  <2> QED BY <1>0, <1>21, <2>1, <2>2
          DEF ResolveNote, Goto, GitHubType, LoopType, SessionInv, RepairPC, loop
<1>22. ASSUME ClearRead PROVE G
  <2>1. ControlType' BY <1>22, GotoType DEF ClearRead, PC, RepairPC
  <2> QED BY <1>0, <1>22, <2>1
          DEF ClearRead, Goto, GitHubType, LoopType, SessionInv, RepairPC, comments
<1>23. ASSUME Clear PROVE G
  <2>1. PICK p \in {"resolve", "restoreLabel"} : Goto(p) BY <1>23 DEF Clear
  <2>2. ControlType' BY <2>1, GotoType DEF PC, RepairPC
  <2>3. issue' \in [Items -> Issue]
    <3>1. cur \in Items => seen[cur].status \in Status BY <1>0, RowType DEF LoopType
    <3> QED BY <1>0, <1>23, <3>1, SetLabelsType DEF Clear, GitHubType
  <2> QED BY <1>0, <1>23, <2>1, <2>2, <2>3
          DEF Clear, Goto, GitHubType, LoopType, SessionInv, RepairPC, comments
<1> HIDE DEF G
<1>24. G
  BY <1>1, <1>2, <1>3, <1>4, <1>5, <1>6, <1>7, <1>8, <1>9, <1>10, <1>11, <1>12, <1>13, <1>14,
     <1>15, <1>16, <1>17, <1>18, <1>19, <1>20, <1>21, <1>22, <1>23, Zenon DEF RepairStep
<1>25. OutsideType' /\ CommandInv'
  BY DEF TInv, OutsideType, CommandType, CommandInv, outside, effort
<1> QED BY <1>24, <1>25 DEF G, TInv

-----------------------------------------------------------------------------
\* What a session does beside repairs keeps the types.
LEMMA SessionType ==
  ASSUME TInv,
         \/ StartWorker \/ Promote \/ ListReady \/ NothingReady \/ ClaimRead \/ Claim
         \/ RejectClaim \/ RunTask \/ CheckRepair \/ WriteLocal \/ PostCheckpoint \/ Outcome
         \/ FinalStatus \/ Refresh \/ TaskReturns
         \/ \E i \in Items : PromoteIssue(i) \/ Demote(i) \/ Select(i) \/ StartContinue(i)
         \/ \E k \in {"plain", "pr", "manual"} : FinishTask(k)
         \/ \E r \in Repairs : OpenRepair(r)
         \/ CallFails \/ Killed
  PROVE  TInv'
<1> USE PlanAssumption DEF NoPR, NoItem
<1> DEFINE G == GitHubType' /\ LoopType' /\ ControlType' /\ SessionInv' /\ faults' \in 0..MaxFaults
           O == OutsideType' /\ CommandInv'
<1>0. /\ GitHubType /\ LoopType /\ ControlType /\ SessionInv /\ faults \in 0..MaxFaults
      /\ OutsideType /\ CommandInv
  BY DEF TInv
<1>a. UNCHANGED outside => O
  BY <1>0 DEF OutsideType, CommandType, CommandInv, outside, effort
<1>1. ASSUME StartWorker PROVE G /\ O
  <2>1. ControlType' BY <1>1, GotoType DEF StartWorker, PC
  <2>2. O BY <1>1, <1>a DEF StartWorker
  <2> QED BY <1>0, <1>1, <2>1, <2>2
          DEF StartWorker, Goto, GitHubType, LoopType, SessionInv, RepairPC, comments, loop
<1>2. ASSUME Promote \/ ListReady PROVE G /\ O
  <2>1. ControlType' BY <1>2, GotoType DEF Promote, ListReady, PC
  <2>2. O BY <1>2, <1>a DEF Promote, ListReady
  <2> QED BY <1>0, <1>2, <2>1, <2>2
          DEF Promote, ListReady, Goto, GitHubType, LoopType, SessionInv, RepairPC, comments
<1>3. ASSUME NEW i \in Items, PromoteIssue(i) \/ Demote(i) PROVE G /\ O
  <2>1. ControlType' BY <1>3, GotoType DEF PromoteIssue, Demote, PC
  <2>2. O BY <1>3, <1>a DEF PromoteIssue, Demote
  <2>3. seen[i].label \in BOOLEAN BY <1>0, RowType DEF LoopType
  <2>4. issue' \in [Items -> Issue]
    BY <1>0, <1>3, <2>3, SetLabelsType DEF PromoteIssue, Demote, GitHubType, Status
  <2> QED BY <1>0, <1>3, <2>1, <2>2, <2>4
          DEF PromoteIssue, Demote, Goto, GitHubType, LoopType, SessionInv, RepairPC, comments
<1>4. ASSUME NEW i \in Items, Select(i) PROVE G /\ O
  <2>1. O BY <1>4, <1>a DEF Select
  <2>2. CASE Raised BY <1>0, <1>4, <2>1, <2>2, RaisedType DEF Select, GitHubType, comments
  <2>3. CASE ~Raised
    <3>1. /\ pc' = "claimRead" /\ cur' = i /\ base' = seen[i].rev
          /\ UNCHANGED <<ctx, kind, rc, item, resumed, rep, found, todo, seen, status>>
      BY <1>4, <2>3 DEF Select
    <3>2. seen[i].rev \in Revisions BY <1>0, RowType DEF LoopType
    <3>3. ControlType' BY <1>0, <3>1, <3>2 DEF ControlType, PC
    <3>4. SessionInv' BY <1>0, <1>4, <3>1 DEF SessionInv, RepairPC, Select
    <3> QED BY <1>0, <1>4, <2>1, <3>1, <3>3, <3>4 DEF Select, GitHubType, LoopType, comments
  <2> QED BY <2>2, <2>3
<1>5. ASSUME NothingReady PROVE G /\ O
  BY <1>0, <1>5, <1>a, EndType DEF NothingReady, GitHubType, comments
<1>6. ASSUME ClaimRead PROVE G /\ O
  <2>1. ControlType' BY <1>6, GotoType DEF ClaimRead, PC
  <2>2. O BY <1>6, <1>a DEF ClaimRead
  <2> QED BY <1>0, <1>6, <2>1, <2>2
          DEF ClaimRead, Goto, GitHubType, LoopType, SessionInv, RepairPC, comments
<1>7. ASSUME Claim PROVE G /\ O
  <2>1. O BY <1>7, <1>a DEF Claim
  <2>2. cur \in Items => seen[cur].label \in BOOLEAN BY <1>0, RowType DEF LoopType
  <2>3. issue' \in [Items -> Issue]
    BY <1>0, <1>7, <2>2, SetLabelsType DEF Claim, Status
  <2>4. ControlType' BY <1>0, <1>7 DEF Claim, ControlType, LoopType, PC
  <2>5. LoopType' /\ SessionInv'
    BY <1>0, <1>7 DEF Claim, LoopType, SessionInv, RepairPC, loop
  <2> QED BY <1>0, <1>7, <2>1, <2>3, <2>4, <2>5 DEF Claim, GitHubType, comments
<1>8. ASSUME RejectClaim PROVE G /\ O
  <2>1. O BY <1>8, <1>a DEF RejectClaim
  <2>2. item \in Items => seen[item].label \in BOOLEAN BY <1>0, RowType DEF LoopType
  <2>3. issue' \in [Items -> Issue]
    BY <1>0, <1>8, <2>2, SetLabelsType DEF RejectClaim, Status
  <2> QED BY <1>0, <1>8, <2>1, <2>3, EndType DEF RejectClaim, GitHubType, comments
<1>9. ASSUME RunTask PROVE G /\ O
  <2>1. O BY <1>9, <1>a DEF RunTask
  <2>2. LoopType' BY <1>9, ForgetType DEF RunTask
  <2>3. ControlType' BY <1>0, <1>9 DEF RunTask, ControlType, PC, worker
  <2>4. SessionInv' BY <1>0, <1>9 DEF RunTask, SessionInv, RepairPC
  <2> QED BY <1>0, <1>9, <2>1, <2>2, <2>3, <2>4 DEF RunTask, GitHubType, comments
<1>10. ASSUME NEW i \in Items, StartContinue(i) PROVE G /\ O
  <2>1. O BY <1>10, <1>a DEF StartContinue
  <2>2. issue[i].rev \in Revisions BY <1>0, RowType DEF GitHubType
  <2>3. ControlType' BY <1>0, <1>10, <2>2 DEF StartContinue, ControlType, PC
  <2> QED BY <1>0, <1>10, <2>1, <2>3
          DEF StartContinue, GitHubType, LoopType, SessionInv, RepairPC, comments, loop
<1>11. ASSUME CheckRepair PROVE G /\ O
  <2>1. O BY <1>11, <1>a DEF CheckRepair
  <2>2. CASE Raised BY <1>0, <1>11, <2>1, <2>2, RaisedType DEF CheckRepair, GitHubType, comments
  <2>3. CASE ~Raised
    <3>1. PICK p \in {"mark", "local"} : /\ Goto(p) /\ UNCHANGED loop
                                         /\ p = "mark" <=> kind = "repair"
      BY <1>11, <2>3 DEF CheckRepair
    <3>2. ControlType' BY <3>1, GotoType DEF PC, RepairPC
    <3> QED BY <1>0, <1>11, <2>1, <3>1, <3>2
            DEF CheckRepair, Goto, GitHubType, LoopType, SessionInv, RepairPC, comments, loop
  <2> QED BY <2>2, <2>3
<1>12. ASSUME WriteLocal PROVE G /\ O
  <2>1. ControlType' BY <1>12, GotoType DEF WriteLocal, PC
  <2>2. kind # "none" BY <1>0, <1>12 DEF WriteLocal, SessionInv
  <2>3. local' \in [Items -> {"none", "plain", "pr", "manual"}]
    BY <1>0, <1>12, <2>2 DEF WriteLocal, OutsideType, ControlType
  <2>4. O BY <1>0, <1>12, <2>3 DEF WriteLocal, OutsideType, CommandType, CommandInv, effort
  <2> QED BY <1>0, <1>12, <2>1, <2>4
          DEF WriteLocal, Goto, GitHubType, LoopType, SessionInv, RepairPC, comments, loop
<1>13. ASSUME PostCheckpoint PROVE G /\ O
  <2>1. O BY <1>13, <1>a DEF PostCheckpoint
  <2>2. item \in Items => CheckpointDigest \in Nat
    <3>1. item \in Items => Contract[base][item] \in Nat BY <1>0 DEF ControlType
    <3>2. CheckpointDigest \in {NoDigest, Contract[base][item]} BY Zenon DEF CheckpointDigest
    <3> QED BY <3>1, <3>2 DEF NoDigest
  <2>3. digests' \in [Items -> SUBSET Nat]
    BY <1>0, <1>13, <2>2 DEF PostCheckpoint, GitHubType
  <2>4. published' \in [Items -> Repairs \cup {NoPR, ImplPR}]
    BY <1>0, <1>13 DEF PostCheckpoint, GitHubType, LoopType
  <2>5. ControlType' BY <1>0, <1>13 DEF PostCheckpoint, ControlType, PC, worker
  <2>6. LoopType' /\ SessionInv'
    BY <1>0, <1>13 DEF PostCheckpoint, LoopType, SessionInv, RepairPC, loop
  <2> QED BY <1>0, <1>13, <2>1, <2>3, <2>4, <2>5, <2>6 DEF PostCheckpoint, GitHubType
<1>14. ASSUME Outcome PROVE G /\ O
  <2>1. O BY <1>14, <1>a DEF Outcome
  <2>2. ControlType' BY <1>14, GotoType DEF Outcome, PC
  <2>3. Outcomes \subseteq Status BY Zenon DEF Outcomes, CiOutcomes, Status
  <2>4. status' \in Status BY <1>14, <2>3 DEF Outcome
  <2> QED BY <1>0, <1>14, <2>1, <2>2, <2>4
          DEF Outcome, Goto, GitHubType, LoopType, SessionInv, RepairPC, comments
<1>15. ASSUME FinalStatus PROVE G /\ O
  <2>1. O BY <1>15, <1>a DEF FinalStatus
  <2>2. ControlType' BY <1>15, GotoType DEF FinalStatus, PC
  <2>3. item \in Items => seen[item].label \in BOOLEAN BY <1>0, RowType DEF LoopType
  <2>4. issue' \in [Items -> Issue]
    BY <1>0, <1>15, <2>3, SetLabelsType DEF FinalStatus, LoopType
  <2> QED BY <1>0, <1>15, <2>1, <2>2, <2>4
          DEF FinalStatus, Goto, GitHubType, LoopType, SessionInv, RepairPC, comments, loop
<1>16. ASSUME Refresh PROVE G /\ O
  <2>1. O BY <1>16, <1>a DEF Refresh
  <2>2. ControlType' BY <1>16, GotoType DEF Refresh, PC
  <2>3. LoopType' BY <1>16, ForgetType DEF Refresh
  <2> DEFINE new == [status |-> StatusOf(issue[item]), state |-> issue[item].state,
                     rev |-> issue[item].rev]
             row == [r \in Repairs |->
                       IF r \in Active(item)
                          /\ <<pending[item][r].status, pending[item][r].state>>
                               # <<StatusOf(issue[item]), issue[item].state>>
                       THEN new ELSE pending[item][r]]
  <2>4. CASE item \in Items
    <3>1. new \in Pending
      BY <1>0, <2>4, RowType DEF GitHubType, StatusOf, Pending, Status
    <3> HIDE DEF new
    <3>2. row \in [Repairs -> Pending] BY <1>0, <2>4, <3>1 DEF GitHubType
    <3> HIDE DEF row
    <3>3. pending' = [pending EXCEPT ![item] = row]
      BY <1>16, <1>0, <2>4 DEF Refresh, row, new, GitHubType
    <3>4. pending' \in [Items -> [Repairs -> Pending]] BY <1>0, <3>2, <3>3 DEF GitHubType
    <3> QED BY <1>0, <1>16, <2>1, <2>2, <2>3, <3>4
            DEF Refresh, Goto, GitHubType, SessionInv, RepairPC
  <2>5. CASE item \notin Items
    <3>1. pending' = pending BY <1>0, <1>16, <2>5 DEF Refresh, GitHubType
    <3> QED BY <1>0, <1>16, <2>1, <2>2, <2>3, <3>1
            DEF Refresh, Goto, GitHubType, SessionInv, RepairPC
  <2> QED BY <2>4, <2>5
<1>17. ASSUME TaskReturns PROVE G /\ O
  <2>1. O BY <1>17, <1>a DEF TaskReturns
  <2>2. ControlType' BY <1>0, <1>17 DEF TaskReturns, ControlType, PC, worker
  <2> QED BY <1>0, <1>17, <2>1, <2>2
          DEF TaskReturns, GitHubType, LoopType, SessionInv, RepairPC, comments, loop
<1>18. ASSUME NEW k \in {"plain", "pr", "manual"}, FinishTask(k) PROVE G /\ O
  <2>1. O BY <1>0, <1>18 DEF FinishTask, OutsideType, CommandType, CommandInv
  <2>2. ControlType' BY <1>0, <1>18 DEF FinishTask, ControlType, PC, worker
  <2> QED BY <1>0, <1>18, <2>1, <2>2
          DEF FinishTask, GitHubType, LoopType, SessionInv, RepairPC, comments, loop
<1>19. ASSUME NEW r \in Repairs, OpenRepair(r) PROVE G /\ O
  <2>1. O BY <1>0, <1>19 DEF OpenRepair, OutsideType, CommandType, CommandInv
  <2>2. ControlType' BY <1>0, <1>19 DEF OpenRepair, ControlType, PC, worker
  <2> QED BY <1>0, <1>19, <2>1, <2>2
          DEF OpenRepair, GitHubType, LoopType, SessionInv, RepairPC, comments
<1>20. ASSUME CallFails PROVE G /\ O
  <2>1. faults' \in 0..MaxFaults BY <1>0, <1>20 DEF CallFails
  <2> QED BY <1>0, <1>20, <1>a, <2>1, RaisedType DEF CallFails, GitHubType, comments
<1>21. ASSUME Killed PROVE G /\ O
  <2>1. faults' \in 0..MaxFaults BY <1>0, <1>21 DEF Killed
  <2> QED BY <1>0, <1>21, <1>a, <2>1, EndType DEF Killed, GitHubType, comments
<1> HIDE DEF G, O
<1>22. G /\ O
  BY <1>1, <1>2, <1>3, <1>4, <1>5, <1>6, <1>7, <1>8, <1>9, <1>10, <1>11, <1>12, <1>13, <1>14,
     <1>15, <1>16, <1>17, <1>18, <1>19, <1>20, <1>21, Zenon
<1> QED BY <1>22 DEF G, O, TInv

-----------------------------------------------------------------------------
\* Commands without the lock and reviewers keep the types.
LEMMA OthersType == ASSUME TInv, Unlocked \/ Reviewers PROVE TInv'
<1> USE PlanAssumption DEF NoPR, NoItem
<1>0. /\ GitHubType /\ LoopType /\ ControlType /\ SessionInv /\ faults \in 0..MaxFaults
      /\ OutsideType /\ CommandInv
  BY DEF TInv
<1>a. UNCHANGED <<session, faults>> =>
        LoopType' /\ ControlType' /\ SessionInv' /\ faults' \in 0..MaxFaults
  <2> SUFFICES ASSUME UNCHANGED <<session, faults>>
               PROVE  LoopType' /\ ControlType' /\ SessionInv' /\ faults' \in 0..MaxFaults
    OBVIOUS
  <2>1. /\ UNCHANGED <<pc, ctx, kind, rc, rep, found, todo, cur>>
        /\ UNCHANGED <<seen, status, item, resumed, base, faults>>
    BY DEF session, loop, worker
  <2> QED BY <1>0, <2>1 DEF LoopType, ControlType, SessionInv
<1>b. UNCHANGED <<issue, comments, pr>> => GitHubType'
  BY <1>0 DEF GitHubType, comments
<1>1. ASSUME NEW i \in Items, NEW o \in {"observe", "ci", "fulfil"}, NEW s \in Status,
             Command(o, i, s)
      PROVE  CommandType' /\ CommandInv'
  <2>1. issue[i].label \in BOOLEAN BY <1>0, RowType DEF GitHubType
  <2> QED BY <1>1, <2>1 DEF Command, CommandType, CommandInv
<1>2. ASSUME NEW i \in Items, StartRefreshCi(i) PROVE TInv'
  <2>1. CommandType' /\ CommandInv' BY <1>1, <1>2 DEF StartRefreshCi, Status
  <2>2. OutsideType' BY <1>0, <1>2, <2>1 DEF StartRefreshCi, OutsideType
  <2> QED BY <1>2, <1>a, <1>b, <2>1, <2>2 DEF StartRefreshCi, TInv
<1>3. ASSUME NEW i \in Items, StartFulfil(i) PROVE TInv'
  <2>1. CommandType' /\ CommandInv' BY <1>1, <1>3 DEF StartFulfil, Status
  <2>2. OutsideType' BY <1>0, <1>3, <2>1 DEF StartFulfil, OutsideType
  <2> QED BY <1>3, <1>a, <1>b, <2>1, <2>2 DEF StartFulfil, TInv
<1>4. ASSUME ObserveCi PROVE TInv'
  <2>1. command.item \in Items BY <1>0, <1>4 DEF ObserveCi, CommandInv
  <2>2. CommandType' /\ CommandInv' BY <1>1, <1>4, <2>1 DEF ObserveCi, Status
  <2>3. OutsideType' BY <1>0, <1>4, <2>2 DEF ObserveCi, OutsideType, effort
  <2> QED BY <1>4, <1>a, <1>b, <2>2, <2>3 DEF ObserveCi, TInv
<1>5. ASSUME FinishCommand PROVE TInv'
  <2> DEFINE i == command.item
  <2>1. i \in Items BY <1>0, <1>5 DEF FinishCommand, CommandInv
  <2>2. CommandType' /\ CommandInv'
    BY <1>5 DEF FinishCommand, NoCommand, CommandType, CommandInv, Status
  <2>3. OutsideType'
    BY <1>0, <1>5, <2>1, <2>2 DEF FinishCommand, OutsideType, effort
  <2>4. issue' \in [Items -> Issue]
    <3> DEFINE st == IF command.op = "fulfil" THEN "closed" ELSE issue[i].state
    <3>1. /\ issue[i] \in Issue /\ command.status \in Status /\ command.label \in BOOLEAN
          /\ st \in {"absent", "open", "closed"}
      BY <1>0, <2>1, RowType DEF GitHubType, OutsideType, CommandType
    <3> HIDE DEF st
    <3>2. [[[issue[i] EXCEPT !.status = command.status] EXCEPT !.label = command.label]
              EXCEPT !.state = st] \in Issue
      BY <3>1 DEF Issue
    <3>3. issue' = [issue EXCEPT ![i] =
             [[[issue[i] EXCEPT !.status = command.status] EXCEPT !.label = command.label]
                EXCEPT !.state = st]]
      BY <1>0, <1>5, <2>1 DEF FinishCommand, st, GitHubType, Issue
    <3> QED BY <1>0, <2>1, <3>2, <3>3 DEF GitHubType
  <2>5. GitHubType' BY <1>0, <1>5, <2>4 DEF FinishCommand, GitHubType, comments
  <2> QED BY <1>5, <1>a, <2>2, <2>3, <2>5 DEF FinishCommand, TInv
<1>6. ASSUME NEW i \in Items, CloseIssue(i) PROVE TInv'
  <2>1. issue' \in [Items -> Issue]
    <3>1. issue[i] \in Issue BY <1>0 DEF GitHubType
    <3>2. [issue[i] EXCEPT !.state = "closed"] \in Issue BY <3>1 DEF Issue
    <3> QED BY <1>0, <1>6, <3>2 DEF CloseIssue, GitHubType
  <2>2. GitHubType' BY <1>0, <1>6, <2>1 DEF CloseIssue, GitHubType, comments
  <2>3. OutsideType' /\ CommandInv'
    BY <1>0, <1>6 DEF CloseIssue, OutsideType, CommandType, CommandInv, effort
  <2> QED BY <1>6, <1>a, <2>2, <2>3 DEF CloseIssue, TInv
<1>7. ASSUME UNCHANGED outside PROVE OutsideType' /\ CommandInv'
  BY <1>0, <1>7 DEF OutsideType, CommandType, CommandInv, outside, effort
<1>8. ASSUME NEW i \in Items, RetryIssue(i) PROVE TInv'
  <2>1. issue' \in [Items -> Issue]
    <3>1. issue[i] \in Issue BY <1>0 DEF GitHubType
    <3>2. [issue[i] EXCEPT !.status = "ready"] \in Issue BY <3>1 DEF Issue, Status
    <3> QED BY <1>0, <1>8, <3>2 DEF RetryIssue, GitHubType
  <2>2. GitHubType' BY <1>0, <1>8, <2>1 DEF RetryIssue, GitHubType, comments
  <2> QED BY <1>8, <1>a, <1>7, <2>2 DEF RetryIssue, TInv
<1>9. ASSUME NEW r \in Repairs, DecideRepair(r) PROVE TInv'
  <2>1. GitHubType' BY <1>0, <1>9 DEF DecideRepair, GitHubType, comments
  <2> QED BY <1>9, <1>a, <1>7, <2>1 DEF DecideRepair, TInv
<1> QED BY <1>2, <1>3, <1>4, <1>5, <1>6, <1>8, <1>9, Zenon DEF Unlocked, Reviewers

\* The types are inductive.
LEMMA TypeInductive == Spec => []TInv
<1>1. Init => TInv
  <2> SUFFICES ASSUME Init PROVE TInv OBVIOUS
  <2> USE PlanAssumption DEF Init, NoPR, NoItem
  <2>1. Absent \in Issue BY DEF Absent, Issue, Status, Revisions
  <2>2. issue \in [Items -> Issue] BY <2>1 DEF Issue, Status, Revisions
  <2>3. pending \in [Items -> [Repairs -> Pending]] BY DEF NoPending, Pending, Status, Revisions
  <2>4. GitHubType BY <2>2, <2>3 DEF GitHubType
  <2>5. LoopType BY <2>1 DEF LoopType, Status
  <2>6. ControlType BY Zenon DEF ControlType, PC, Revisions
  <2>7. CommandType /\ CommandInv BY DEF CommandType, CommandInv, NoCommand, Status
  <2>8. OutsideType BY <2>7 DEF OutsideType
  <2>9. SessionInv BY DEF SessionInv, RepairPC
  <2>10. faults \in 0..MaxFaults OBVIOUS
  <2> QED BY <2>4, <2>5, <2>6, <2>7, <2>8, <2>9, <2>10 DEF TInv
<1>2. TInv /\ [Next]_vars => TInv'
  <2> SUFFICES ASSUME TInv, [Next]_vars PROVE TInv' OBVIOUS
  <2>1. CASE UNCHANGED vars
    <3>1. /\ UNCHANGED <<issue, pending, resolved, reconciled, digests, published, pr>>
          /\ UNCHANGED <<pc, ctx, kind, rc, rep, found, todo, cur, seen, status>>
          /\ UNCHANGED <<item, resumed, base, faults, local, command, tasks, commands>>
          /\ UNCHANGED <<done, dropped>>
      BY <2>1 DEF vars, comments, session, loop, worker, outside, effort
    <3>2. GitHubType' /\ LoopType' BY <3>1 DEF TInv, GitHubType, LoopType
    <3>3. ControlType' /\ SessionInv' BY <3>1 DEF TInv, ControlType, SessionInv
    <3>4. OutsideType' /\ CommandInv'
      BY <3>1 DEF TInv, OutsideType, CommandType, CommandInv
    <3>5. faults' \in 0..MaxFaults BY <3>1 DEF TInv
    <3> QED BY <3>2, <3>3, <3>4, <3>5 DEF TInv
  <2>2. CASE Next
    BY <2>2, RepairType, SessionType, OthersType, Zenon DEF Next, Step, Requeuing
  <2> QED BY <2>1, <2>2
<1> QED BY <1>1, <1>2, PTL DEF Spec

\* Issues, comments, checkpoints and the local variables of a session are
\* well-typed in every reachable state of every plan (github_issue_queue.py).
THEOREM QueueTypes == Spec => []TypeOK
<1>1. TInv => TypeOK
  BY Zenon DEF TInv, GitHubType, LoopType, ControlType, OutsideType, CommandType, TypeOK
<1> QED BY <1>1, TypeInductive, PTL

-----------------------------------------------------------------------------
(* Repairs and the issues they hold. *)

\* One repair holds an issue; the loop that marks issues for a repair visits
\* only issues no other repair holds; and a checkpoint that passed the pause
\* check is of an item nothing holds.  The last two are what makes the first
\* inductive, and the property of checkpoints.
ActiveInv ==
    /\ \A i \in Items : \A r, q \in Active(i) : r = q
    /\ pc \in {"markNote", "markLabel"} => \A i \in todo : Active(i) \subseteq {rep}
    /\ pc \in {"local", "comment"} /\ kind # "repair" => Active(item) = {}

\* A step of another part of the session, or of nobody in the session.
Elsewhere ==
    /\ UNCHANGED <<pending, resolved>>
    /\ \/ pc' \notin {"markNote", "markLabel", "local", "comment"}
       \/ UNCHANGED <<pc, todo, rep, kind, item>>

\* An exception goes nowhere near the marking loop and the checkpoint.
LEMMA RaisedElsewhere ==
  ASSUME Raised \/ EndSession, UNCHANGED <<pending, resolved>> PROVE Elsewhere
BY DEF Raised, EndSession, Elsewhere

\* The repair machinery but for the steps that ActiveInv is about.
LEMMA RepairElsewhere ==
  ASSUME RepairStep
  PROVE  \/ Elsewhere \/ Mark \/ MarkLabel \/ MarkDone \/ ResolveNote
         \/ \E i \in Items : MarkNote(i)
<1>1. ASSUME Requeue \/ Restore \/ RestoreDone \/ Reconcile \/ Repoint \/ Supersede PROVE Elsewhere
  BY <1>1 DEF Requeue, Restore, RestoreDone, Reconcile, Repoint, Supersede, Goto, comments,
              Elsewhere
<1>2. ASSUME Recompute PROVE Elsewhere
  BY <1>2 DEF Recompute, Goto, comments, Elsewhere
<1>3. ASSUME RequeueLabel \/ ReconciledNote \/ ItemsDone \/ ClearRead \/ Clear \/ ResolveDone
      PROVE  Elsewhere
  BY <1>3 DEF RequeueLabel, ReconciledNote, ItemsDone, ClearRead, Clear, ResolveDone, Goto,
              comments, Elsewhere
<1>4. ASSUME NEW i \in Items, RestoreLabel(i) \/ CreateIssue(i) \/ ReconcileItem(i) \/ SkipItem(i)
                              \/ Resolve(i)
      PROVE  Elsewhere
  BY <1>4 DEF RestoreLabel, CreateIssue, ReconcileItem, SkipItem, Resolve, Goto, comments,
              Elsewhere
<1>5. ASSUME NEW r \in Repairs, NextRepair(r) PROVE Elsewhere
  BY <1>5 DEF NextRepair, Goto, comments, Elsewhere
<1>6. ASSUME RequeueDone PROVE Elsewhere
  BY <1>6 DEF RequeueDone, EndSession, Goto, comments, Elsewhere
<1> QED BY <1>1, <1>2, <1>3, <1>4, <1>5, <1>6, Zenon DEF RepairStep

\* The rest of the session, the commands and the reviewers likewise.
LEMMA OthersElsewhere ==
  ASSUME Next, ~RepairStep
  PROVE  Elsewhere \/ CheckRepair \/ WriteLocal \/ Refresh
<1>1. ASSUME StartWorker \/ Promote \/ ListReady \/ ClaimRead \/ Claim \/ RunTask \/ PostCheckpoint
             \/ Outcome \/ FinalStatus \/ TaskReturns
      PROVE  Elsewhere
  BY <1>1 DEF StartWorker, Promote, ListReady, ClaimRead, Claim, RunTask, PostCheckpoint, Outcome,
              FinalStatus, TaskReturns, Goto, comments, Elsewhere
<1>2. ASSUME NothingReady \/ RejectClaim \/ CallFails \/ Killed PROVE Elsewhere
  BY <1>2, RaisedElsewhere DEF NothingReady, RejectClaim, CallFails, Killed, comments
<1>3. ASSUME NEW i \in Items, PromoteIssue(i) \/ Demote(i) \/ StartContinue(i) PROVE Elsewhere
  BY <1>3 DEF PromoteIssue, Demote, StartContinue, Goto, comments, Elsewhere
<1>4. ASSUME NEW i \in Items, Select(i) PROVE Elsewhere
  BY <1>4, RaisedElsewhere DEF Select, comments, Elsewhere
<1>5. ASSUME NEW k \in {"plain", "pr", "manual"}, FinishTask(k) PROVE Elsewhere
  BY <1>5 DEF FinishTask, comments, Elsewhere
<1>6. ASSUME NEW r \in Repairs, OpenRepair(r) PROVE Elsewhere
  BY <1>6 DEF OpenRepair, comments, Elsewhere
<1>7. ASSUME UNCHANGED <<comments, session>> PROVE Elsewhere
  BY <1>7 DEF comments, session, loop, worker, Elsewhere
<1>8. ASSUME Unlocked \/ Reviewers PROVE UNCHANGED <<comments, session>>
  BY <1>8 DEF Unlocked, Reviewers, ObserveCi, FinishCommand, StartRefreshCi, StartFulfil,
              CloseIssue, RetryIssue, DecideRepair
<1> QED BY <1>1, <1>2, <1>3, <1>4, <1>5, <1>6, <1>7, <1>8, Zenon DEF Next, Step, Requeuing

\* Every step keeps one repair per issue.
LEMMA ActiveStep == TInv /\ ActiveInv /\ [Next]_vars => ActiveInv'
<1> SUFFICES ASSUME TInv, ActiveInv, [Next]_vars PROVE ActiveInv' OBVIOUS
<1>0. /\ pending \in [Items -> [Repairs -> Pending]] /\ resolved \in [Items -> SUBSET Repairs]
      /\ todo \subseteq Items
  BY DEF TInv, GitHubType, LoopType
<1>a. ASSUME UNCHANGED <<pending, resolved>> PROVE \A i : Active(i)' = Active(i)
  BY <1>a DEF Active
<1>1. ASSUME Elsewhere PROVE ActiveInv'
  BY <1>1, <1>a DEF Elsewhere, ActiveInv
<1>2. ASSUME Mark PROVE ActiveInv'
  <2>1. CASE Raised BY <1>1, <1>2, <2>1, RaisedElsewhere DEF Mark, comments
  <2>2. CASE ~Raised
    <3>1. /\ pc' = "markNote" /\ todo' = AffectedIssues /\ rep' = rep
          /\ UNCHANGED <<pending, resolved>> /\ ~MarkConflict
      BY <1>2, <2>2 DEF Mark, Goto, comments
    <3>2. \A i \in AffectedIssues : Active(i) \subseteq {rep} BY <3>1 DEF MarkConflict
    <3> QED BY <3>1, <3>2, <1>a DEF ActiveInv
  <2> QED BY <2>1, <2>2
<1>3. ASSUME MarkLabel PROVE ActiveInv'
  <2>1. /\ pc = "markLabel" /\ pc' = "markNote" /\ todo' \subseteq todo /\ rep' = rep
        /\ UNCHANGED <<pending, resolved>>
    BY <1>3 DEF MarkLabel, Goto, comments
  <2> QED BY <2>1, <1>a DEF ActiveInv
<1>4. ASSUME MarkDone PROVE ActiveInv'
  <2>1. /\ pc' = "repair" \/ (pc' = "local" /\ kind = "repair")
        /\ kind' = kind /\ UNCHANGED <<pending, resolved>>
    BY <1>4 DEF MarkDone, Goto, comments
  <2> QED BY <2>1, <1>a DEF ActiveInv
<1>5. ASSUME NEW i \in Items, MarkNote(i) PROVE ActiveInv'
  <2>1. /\ pc = "markNote" /\ pc' = "markLabel" /\ i \in todo /\ todo' = todo /\ rep' = rep
        /\ resolved' = resolved
        /\ pending' = pending \/ \E v : pending' = [pending EXCEPT ![i][rep] = v]
    BY <1>5, Zenon DEF MarkNote, Goto
  <2>2. Active(i) \subseteq {rep} BY <2>1 DEF ActiveInv
  <2>3. \A j \in Items : /\ j # i => Active(j)' = Active(j)
                         /\ Active(j)' \subseteq Active(j) \cup {rep}
    BY <1>0, <2>1 DEF Active
  <2>4. Active(i)' \subseteq {rep} BY <2>2, <2>3
  <2>5. \A j \in Items : \A r, q \in Active(j)' : r = q
    BY <2>3, <2>4 DEF ActiveInv
  <2>6. \A j \in todo : Active(j)' \subseteq {rep} BY <1>0, <2>1, <2>3, <2>4 DEF ActiveInv
  <2> QED BY <2>1, <2>5, <2>6 DEF ActiveInv
<1>6. ASSUME ResolveNote PROVE ActiveInv'
  <2>1. /\ pc' = "clearRead" /\ pending' = pending
        /\ resolved' = [resolved EXCEPT ![cur] = @ \cup {rep}]
    BY <1>6 DEF ResolveNote, Goto
  <2>2. \A j \in Items : Active(j)' \subseteq Active(j) BY <1>0, <2>1 DEF Active
  <2> QED BY <2>1, <2>2 DEF ActiveInv
<1>7. ASSUME CheckRepair PROVE ActiveInv'
  <2>1. CASE Raised BY <1>1, <1>7, <2>1, RaisedElsewhere DEF CheckRepair, comments
  <2>2. CASE ~Raised
    <3>1. /\ pc' = IF kind = "repair" THEN "mark" ELSE "local"
          /\ item' = item /\ UNCHANGED <<pending, resolved>> /\ Active(item) = {}
      BY <1>7, <2>2 DEF CheckRepair, Goto, comments, worker
    <3> QED BY <3>1, <1>a DEF ActiveInv
  <2> QED BY <2>1, <2>2
<1>8. ASSUME WriteLocal PROVE ActiveInv'
  <2>1. /\ pc = "local" /\ pc' = "comment" /\ kind' = kind /\ item' = item
        /\ UNCHANGED <<pending, resolved>>
    BY <1>8 DEF WriteLocal, Goto, comments, worker
  <2> QED BY <2>1, <1>a DEF ActiveInv
<1>9. ASSUME Refresh PROVE ActiveInv'
  <2>1. /\ pc' = "requeue" /\ resolved' = resolved
        /\ \E f : /\ pending' = [pending EXCEPT ![item] = [r \in Repairs |-> f[r]]]
                  /\ \A r \in Repairs : r \notin Active(item) => f[r] = pending[item][r]
    <3> DEFINE f == [r \in Repairs |->
                       IF r \in Active(item)
                          /\ <<pending[item][r].status, pending[item][r].state>>
                               # <<StatusOf(issue[item]), issue[item].state>>
                       THEN [status |-> StatusOf(issue[item]), state |-> issue[item].state,
                             rev |-> issue[item].rev]
                       ELSE pending[item][r]]
    <3>1. CASE item \in Items
      <4>1. pending' = [pending EXCEPT ![item] = f] BY <1>0, <1>9, <3>1 DEF Refresh
      <4>2. \A r \in Repairs : r \notin Active(item) => f[r] = pending[item][r] OBVIOUS
      <4>3. f = [r \in Repairs |-> f[r]] OBVIOUS
      <4> HIDE DEF f
      <4> QED BY <1>9, <4>1, <4>2, <4>3 DEF Refresh, Goto
    <3>2. CASE item \notin Items
      <4>1. pending' = pending /\ pending = [pending EXCEPT ![item] = [r \in Repairs |-> f[r]]]
        BY <1>0, <1>9, <3>2 DEF Refresh
      <4>2. \A r \in Repairs : r \notin Active(item) => f[r] = pending[item][r] OBVIOUS
      <4> HIDE DEF f
      <4> QED BY <1>9, <4>1, <4>2 DEF Refresh, Goto
    <3> QED BY <3>1, <3>2
  <2>2. \A j \in Items : Active(j)' \subseteq Active(j)
    BY <1>0, <2>1 DEF Active
  <2> QED BY <2>1, <2>2 DEF ActiveInv
<1>10. CASE UNCHANGED vars
  BY <1>1, <1>10 DEF vars, comments, session, loop, worker, Elsewhere
<1>11. CASE Next
  BY <1>1, <1>2, <1>3, <1>4, <1>5, <1>6, <1>7, <1>8, <1>9, <1>11, RepairElsewhere,
     OthersElsewhere, Zenon
<1> QED BY <1>10, <1>11

\* The repair that holds an issue is the only one, in every reachable state.
LEMMA ActiveInductive == Spec => []ActiveInv
<1>1. Init => ActiveInv BY DEF Init, ActiveInv, Active
<1> QED BY <1>1, ActiveStep, TypeInductive, PTL DEF Spec

\* At most one repair holds an issue, in every plan and whatever fails: the
\* pending comment that _active_plan_repair_pending returns is the only one.
THEOREM OneRepairHolds == Spec => []OneActiveRepair
<1>1. ActiveInv => OneActiveRepair
  <2> SUFFICES ASSUME ActiveInv, NEW i \in Items PROVE Cardinality(Active(i)) <= 1
    BY DEF OneActiveRepair
  <2>1. CASE Active(i) = {} BY <2>1, FS_EmptySet
  <2>2. CASE Active(i) # {}
    <3>1. PICK r : r \in Active(i) BY <2>2
    <3>2. Active(i) = {r} BY <3>1 DEF ActiveInv
    <3>3. Cardinality({r}) = 1 BY FS_Singleton
    <3> QED BY <3>2, <3>3
  <2> QED BY <2>1, <2>2
<1> QED BY <1>1, ActiveInductive, PTL

\* A step that touches no checkpoint.
LEMMA CheckpointWriters ==
  ASSUME Next PROVE WriteLocal \/ PostCheckpoint \/ UNCHANGED <<local, digests>>
<1>1. ASSUME RepairStep, UNCHANGED outside PROVE UNCHANGED <<local, digests>>
  <2>1. UNCHANGED digests
    BY <1>1 DEF RepairStep, Requeue, RequeueDone, NextRepair, Mark, MarkLabel, MarkDone, Restore,
       RestoreDone, Reconcile, Repoint, Supersede, Recompute, RequeueLabel, ReconciledNote,
       ItemsDone, ResolveNote, ClearRead, Clear, ResolveDone, MarkNote, RestoreLabel, CreateIssue,
       ReconcileItem, SkipItem, Resolve, comments
  <2> QED BY <1>1, <2>1 DEF outside
<1>2. ASSUME StartWorker \/ Promote \/ ListReady \/ NothingReady \/ ClaimRead \/ Claim
             \/ RejectClaim \/ RunTask \/ CheckRepair \/ Outcome \/ FinalStatus \/ Refresh
             \/ TaskReturns \/ CallFails \/ Killed
      PROVE  UNCHANGED <<local, digests>>
  BY <1>2 DEF StartWorker, Promote, ListReady, NothingReady, ClaimRead, Claim, RejectClaim,
     RunTask, CheckRepair, Outcome, FinalStatus, Refresh, TaskReturns, CallFails, Killed, comments,
     outside
<1>3. ASSUME NEW i \in Items,
             PromoteIssue(i) \/ Demote(i) \/ Select(i) \/ StartContinue(i)
      PROVE  UNCHANGED <<local, digests>>
  BY <1>3 DEF PromoteIssue, Demote, Select, StartContinue, comments, outside
<1>4. ASSUME NEW k \in {"plain", "pr", "manual"}, FinishTask(k) PROVE UNCHANGED <<local, digests>>
  BY <1>4 DEF FinishTask, comments
<1>5. ASSUME NEW r \in Repairs, OpenRepair(r) PROVE UNCHANGED <<local, digests>>
  BY <1>5 DEF OpenRepair, comments
<1>6. ASSUME Unlocked \/ Reviewers PROVE UNCHANGED <<local, digests>>
  BY <1>6 DEF Unlocked, Reviewers, ObserveCi, FinishCommand, StartRefreshCi, StartFulfil,
              CloseIssue, RetryIssue, DecideRepair, comments, outside
<1> QED BY <1>1, <1>2, <1>3, <1>4, <1>5, <1>6, Zenon DEF Next, Step, Requeuing

\* No checkpoint of an item is written while a repair holds it, except the one
\* that records the repair (the pause check of the checkpoint callback).
THEOREM NoCheckpointWhileHeld == Spec => NoCheckpointUnderRepair
<1>1. ASSUME TInv, ActiveInv, [Next]_vars, NEW i \in Items,
             local'[i] # local[i] \/ digests'[i] # digests[i]
      PROVE  Active(i) = {} \/ kind = "repair"
  <2>1. CASE UNCHANGED <<local, digests>> BY <1>1, <2>1
  <2>2. CASE WriteLocal
    <3>1. i = item /\ pc = "local"
      BY <1>1, <2>2 DEF WriteLocal, comments, TInv, OutsideType
    <3> QED BY <1>1, <3>1 DEF ActiveInv
  <2>3. CASE PostCheckpoint
    <3>1. i = item /\ pc = "comment"
      BY <1>1, <2>3 DEF PostCheckpoint, outside, TInv, GitHubType
    <3> QED BY <1>1, <3>1 DEF ActiveInv
  <2>4. CASE UNCHANGED vars BY <2>1, <2>4 DEF vars, comments, outside
  <2> QED BY <1>1, <2>1, <2>2, <2>3, <2>4, CheckpointWriters
<1>2. TInv /\ ActiveInv /\ [Next]_vars =>
        [\A i \in Items : local'[i] # local[i] \/ digests'[i] # digests[i]
                            => Active(i) = {} \/ kind = "repair"]_vars
  BY <1>1
<1> QED BY <1>2, ActiveInductive, TypeInductive, PTL DEF Spec, NoCheckpointUnderRepair

-----------------------------------------------------------------------------
(* Work that waits for a human. *)

\* Which part of a session its steps belong to.
CtxInv ==
    /\ pc \in {"idle", "promote", "promoting", "select", "claimRead", "claim", "claimed"}
          => ctx = "start"
    /\ pc \in {"run", "check", "local", "comment"} => ctx = "task"
    /\ kind = "repair" => ctx = "task"

\* The session works on i and has not written its final status, or has not
\* yet brought the pending comments of i up to date with it.
Deciding(i) == i = item /\ (ctx = "task" \/ pc \in {"outcome", "final"})
Busy(i) == i = item /\ (ctx = "task" \/ pc \in {"outcome", "final", "refresh"})

Waits(i, s) == s = "awaiting_human" => local[i] = "manual" \/ Busy(i)

\* Wherever the queue remembers that an item waits for a human (its label, a
\* read of it, the pending comment of a repair, a status about to be written),
\* the checkpoint is there, but for the item whose session is under way.
HumanInv ==
    /\ \A i \in Items : issue[i].status = "awaiting_human" => local[i] = "manual" \/ Deciding(i)
    /\ \A i \in Items : Waits(i, seen[i].status)
    /\ \A i \in Items : \A r \in Active(i) : Waits(i, pending[i][r].status)
    /\ pc = "requeueLabel" /\ cur \in Items => Waits(cur, status)
    /\ pc = "final" /\ status = "awaiting_human" => local[item] = "manual"
    /\ command.status # "awaiting_human"

\* A call that fails, or a kill, between the checkpoint and the final status
\* leaves an item that waits for a human without its checkpoint.
FaultFree == faults = 0 => HumanInv

\* Every step stays in its part of the session.
LEMMA CtxStep == TInv /\ CtxInv /\ [Next]_vars => CtxInv'
<1> SUFFICES ASSUME TInv, CtxInv, [Next]_vars PROVE CtxInv' OBVIOUS
<1>0. SessionInv BY DEF TInv
<1> USE DEF CtxInv
<1>1. ASSUME Raised \/ EndSession PROVE CtxInv' BY <1>1 DEF Raised, EndSession
<1>2. ASSUME NEW p, Goto(p),
             p \notin {"idle", "promote", "promoting", "select", "claimRead", "claim", "claimed",
                       "run", "check", "local", "comment"}
      PROVE  CtxInv'
  BY <1>2 DEF Goto
<1>3. ASSUME RepairStep PROVE CtxInv'
  <2>1. CASE RequeueDone
    <3>1. CASE EndSession BY <1>1, <3>1
    <3>2. CASE ~EndSession
      <4>1. (Goto("promote") /\ ctx = "start") \/ (Goto("run") /\ ctx = "task")
        BY <2>1, <3>2 DEF RequeueDone
      <4> QED BY <4>1 DEF Goto
    <3> QED BY <3>1, <3>2
  <2>2. CASE MarkDone BY <2>2 DEF MarkDone, Goto
  <2>3. CASE Mark BY <1>1, <1>2, <2>3 DEF Mark
  <2>4. CASE Requeue \/ MarkLabel \/ Restore \/ RestoreDone \/ Reconcile \/ Repoint \/ Supersede
    BY <1>2, <2>4 DEF Requeue, MarkLabel, Restore, RestoreDone, Reconcile, Repoint, Supersede
  <2>5. CASE Recompute BY <1>2, <2>5 DEF Recompute
  <2>6. CASE RequeueLabel \/ ReconciledNote \/ ItemsDone \/ ResolveNote \/ ClearRead
    BY <1>2, <2>6 DEF RequeueLabel, ReconciledNote, ItemsDone, ResolveNote, ClearRead
  <2>7. CASE Clear \/ ResolveDone BY <1>2, <2>7 DEF Clear, ResolveDone
  <2>8. ASSUME NEW r \in Repairs, NextRepair(r) PROVE CtxInv'
    <3>1. PICK q \in {"mark", "restore", "reconcile"} : Goto(q) BY <2>8 DEF NextRepair
    <3> QED BY <1>2, <3>1
  <2>9. ASSUME NEW i \in Items,
               MarkNote(i) \/ RestoreLabel(i) \/ CreateIssue(i) \/ ReconcileItem(i) \/ SkipItem(i)
               \/ Resolve(i)
        PROVE  CtxInv'
    BY <1>2, <2>9 DEF MarkNote, RestoreLabel, CreateIssue, ReconcileItem, SkipItem, Resolve
  <2> QED BY <1>3, <2>1, <2>2, <2>3, <2>4, <2>5, <2>6, <2>7, <2>8, <2>9, Zenon DEF RepairStep
<1>4. ASSUME StartWorker \/ Promote \/ ListReady \/ ClaimRead \/ Claim \/ RunTask \/ TaskReturns
      PROVE  CtxInv'
  BY <1>0, <1>4 DEF StartWorker, Promote, ListReady, ClaimRead, Claim, RunTask, TaskReturns, Goto,
                    SessionInv
<1>5. ASSUME WriteLocal \/ PostCheckpoint \/ Outcome \/ FinalStatus \/ Refresh PROVE CtxInv'
  BY <1>5 DEF WriteLocal, PostCheckpoint, Outcome, FinalStatus, Refresh, Goto
<1>6. ASSUME NothingReady \/ RejectClaim \/ CallFails \/ Killed PROVE CtxInv'
  BY <1>1, <1>6 DEF NothingReady, RejectClaim, CallFails, Killed
<1>7. ASSUME CheckRepair PROVE CtxInv'
  <2>1. CASE Raised BY <1>1, <2>1
  <2>2. CASE ~Raised BY <1>7, <2>2 DEF CheckRepair, Goto
  <2> QED BY <2>1, <2>2
<1>8. ASSUME NEW i \in Items, PromoteIssue(i) \/ Demote(i) \/ StartContinue(i) PROVE CtxInv'
  BY <1>8 DEF PromoteIssue, Demote, StartContinue, Goto
<1>9. ASSUME NEW i \in Items, Select(i) PROVE CtxInv'
  <2>1. CASE Raised BY <1>1, <2>1
  <2>2. CASE ~Raised BY <1>9, <2>2 DEF Select
  <2> QED BY <2>1, <2>2
<1>10. ASSUME NEW k \in {"plain", "pr", "manual"}, FinishTask(k) PROVE CtxInv'
  BY <1>10 DEF FinishTask
<1>11. ASSUME NEW r \in Repairs, OpenRepair(r) PROVE CtxInv' BY <1>11 DEF OpenRepair
<1>12. ASSUME UNCHANGED session PROVE CtxInv' BY <1>12 DEF session
<1>13. ASSUME Unlocked \/ Reviewers \/ UNCHANGED vars PROVE UNCHANGED session
  BY <1>13 DEF Unlocked, Reviewers, ObserveCi, FinishCommand, StartRefreshCi, StartFulfil,
               CloseIssue, RetryIssue, DecideRepair, vars
<1> QED BY <1>3, <1>4, <1>5, <1>6, <1>7, <1>8, <1>9, <1>10, <1>11, <1>12, <1>13, Zenon
        DEF Next, Step, Requeuing

\* A step that makes nothing wait for a human: labels and reads take over no
\* such status but one that was there, no pending comment is written, and an
\* item whose session is under way stays so.
LabelsSettled == \A i \in Items :
    issue'[i].status = issue[i].status \/ issue'[i].status # "awaiting_human"
ReadsSettled == \A i \in Items :
    \/ seen'[i].status = seen[i].status \/ seen'[i].status = issue[i].status
    \/ seen'[i].status # "awaiting_human"
NotesSettled == pending' = pending /\ \A i \in Items : resolved[i] \subseteq resolved'[i]
TasksSettled == \A i \in Items : (Deciding(i) => Deciding(i)') /\ (Busy(i) => Busy(i)')
PlaceSettled == pc' \notin {"requeueLabel", "final"} \/ UNCHANGED <<pc, cur, status, item>>
OutsideSettled == local' = local /\ (command' = command \/ command'.status # "awaiting_human")

Settled ==
    /\ LabelsSettled /\ ReadsSettled /\ NotesSettled
    /\ TasksSettled /\ PlaceSettled /\ OutsideSettled

\* Such a step keeps the invariant.
LEMMA SettledKeeps == ASSUME TInv, HumanInv, Settled PROVE HumanInv'
<1>1. \A i \in Items : /\ Deciding(i) => Deciding(i)' /\ Busy(i)
                       /\ Busy(i) => Busy(i)'
  BY DEF Settled, TasksSettled, Deciding, Busy
<1>2. local' = local /\ pending' = pending BY DEF Settled, OutsideSettled, NotesSettled
<1>3. \A i \in Items : issue'[i].status = "awaiting_human" => local'[i] = "manual" \/ Deciding(i)'
  BY <1>1, <1>2 DEF HumanInv, Settled, LabelsSettled
<1>4. \A i \in Items : Waits(i, seen[i].status)'
  BY <1>1, <1>2 DEF HumanInv, Settled, ReadsSettled, Waits
<1>5. ASSUME NEW i \in Items, NEW r \in Active(i)' PROVE Waits(i, pending[i][r].status)'
  <2>1. r \in Active(i) BY <1>2, <1>5 DEF Active, Settled, NotesSettled
  <2> QED BY <1>1, <1>2, <2>1 DEF HumanInv, Waits
<1>6. /\ pc' = "requeueLabel" /\ cur' \in Items => Waits(cur, status)'
      /\ pc' = "final" /\ status' = "awaiting_human" => local'[item'] = "manual"
  <2>1. CASE pc' \notin {"requeueLabel", "final"} BY <2>1
  <2>2. CASE UNCHANGED <<pc, cur, status, item>>
    <3>1. cur \in Items /\ Busy(cur) => Busy(cur)'
      <4>1. \A i \in Items : i = cur => (Busy(i) => Busy(i)') BY <1>1
      <4>2. \A i \in Items : i = cur => (Busy(i) <=> Busy(cur)) /\ (Busy(i)' <=> Busy(cur)')
        BY <2>2 DEF Busy
      <4> QED BY <4>1, <4>2
    <3> QED BY <1>2, <2>2, <3>1 DEF HumanInv, Waits
  <2> QED BY <2>1, <2>2 DEF Settled, PlaceSettled
<1>7. command'.status # "awaiting_human" BY DEF HumanInv, Settled, OutsideSettled
<1> QED BY <1>3, <1>4, <1>5, <1>6, <1>7 DEF HumanInv

\* The status that a label write leaves behind.
LEMMA SetLabelsStatus ==
  ASSUME GitHubType, NEW i, NEW s, NEW l, SetLabels(i, s, l)
  PROVE  \A j \in Items : issue'[j].status = IF j = i THEN s ELSE issue[j].status
<1> SUFFICES ASSUME NEW j \in Items
             PROVE  issue'[j].status = IF j = i THEN s ELSE issue[j].status
  OBVIOUS
<1>1. issue[j] \in Issue BY DEF GitHubType
<1>2. DOMAIN issue = Items BY DEF GitHubType
<1>3. CASE i = j
  <2>1. issue'[j] = [[issue[j] EXCEPT !.status = s] EXCEPT !.label = l]
    BY <1>2, <1>3 DEF SetLabels
  <2> QED BY <1>1, <1>3, <2>1 DEF Issue
<1>4. CASE i # j BY <1>2, <1>4 DEF SetLabels
<1> QED BY <1>3, <1>4

\* A write of another status makes nothing wait for a human.
LEMMA QuietLabel ==
  ASSUME GitHubType, NEW i, NEW s, NEW l, SetLabels(i, s, l), s # "awaiting_human"
  PROVE  LabelsSettled
<1>1. \A j \in Items : issue'[j].status = IF j = i THEN s ELSE issue[j].status
  BY SetLabelsStatus
<1> QED BY <1>1 DEF LabelsSettled

\* Who is busy stays busy, as the session goes on, fails or was not busy.
LEMMA BusyKept ==
  ASSUME pc \notin {"outcome", "final", "refresh"},
         \/ ctx # "task" \/ Raised
         \/ item' = item /\ (ctx' = ctx \/ pc' = "outcome")
  PROVE  TasksSettled
<1>1. CASE ctx # "task" BY <1>1 DEF TasksSettled, Deciding, Busy
<1>2. CASE Raised BY <1>2 DEF TasksSettled, Deciding, Busy, Raised, worker
<1>3. CASE item' = item /\ (ctx' = ctx \/ pc' = "outcome")
  BY <1>3 DEF TasksSettled, Deciding, Busy
<1> QED BY <1>1, <1>2, <1>3

\* A forgotten read waits for nobody.
LEMMA ForgetReads == ASSUME Forget PROVE ReadsSettled
BY DEF Forget, ReadsSettled, Absent

\* An exception, or the end of a session that runs no task, settles.
LEMMA RaisedSettled ==
  ASSUME pc \notin {"outcome", "final", "refresh"}, Raised \/ (EndSession /\ ctx # "task")
  PROVE  TasksSettled /\ ReadsSettled /\ PlaceSettled
<1>1. Forget /\ pc' \in {"idle", "outcome"} BY DEF Raised, EndSession
<1>2. TasksSettled BY BusyKept
<1> QED BY <1>1, <1>2, ForgetReads DEF PlaceSettled

\* The steps of the repair machinery that settle: all but those that write a
\* pending comment or a queue label that depends on what was read.
LEMMA RepairSettled ==
  ASSUME TInv, CtxInv, RepairStep, UNCHANGED outside
  PROVE  \/ Settled \/ Recompute \/ RequeueLabel \/ Clear
         \/ \E i \in Items : MarkNote(i) \/ RestoreLabel(i)
<1>0. GitHubType /\ LoopType /\ ControlType BY DEF TInv
<1>a. OutsideSettled BY DEF outside, OutsideSettled
<1>b. ASSUME NEW p, Goto(p), pc \notin {"outcome", "final", "refresh"},
             p \notin {"requeueLabel", "final"}
      PROVE  TasksSettled /\ PlaceSettled
  BY <1>b, BusyKept DEF Goto, worker, PlaceSettled
<1>c. UNCHANGED comments => NotesSettled BY DEF comments, NotesSettled
<1>d. UNCHANGED issue => LabelsSettled BY DEF LabelsSettled
<1>e. seen' = seen \/ seen' = issue => ReadsSettled BY DEF ReadsSettled
<1>1. ASSUME Requeue \/ MarkDone \/ RestoreDone \/ ItemsDone \/ ResolveDone PROVE Settled
  <2>1. /\ UNCHANGED issue /\ UNCHANGED comments /\ seen' = seen
        /\ pc \notin {"outcome", "final", "refresh"}
        /\ \E p : Goto(p) /\ p \notin {"requeueLabel", "final"}
    BY <1>1 DEF Requeue, MarkDone, RestoreDone, ItemsDone, ResolveDone, loop
  <2> QED BY <1>a, <1>b, <1>c, <1>d, <1>e, <2>1 DEF Settled
<1>2. ASSUME Restore \/ Reconcile PROVE Settled
  <2>1. /\ UNCHANGED issue /\ UNCHANGED comments /\ seen' = issue
        /\ pc \notin {"outcome", "final", "refresh"}
        /\ \E p : Goto(p) /\ p \notin {"requeueLabel", "final"}
    BY <1>2 DEF Restore, Reconcile
  <2> QED BY <1>a, <1>b, <1>c, <1>d, <1>e, <2>1 DEF Settled
<1>3. ASSUME RequeueDone PROVE Settled
  <2>1. /\ UNCHANGED issue /\ UNCHANGED comments /\ pc = "repair"
        /\ \/ EndSession /\ ctx # "task"
           \/ Forget /\ \E p : Goto(p) /\ p \notin {"requeueLabel", "final"}
    BY <1>3 DEF RequeueDone
  <2>2. CASE EndSession /\ ctx # "task"
    BY <1>a, <1>c, <1>d, <2>1, <2>2, RaisedSettled DEF Settled
  <2>3. CASE Forget /\ \E p : Goto(p) /\ p \notin {"requeueLabel", "final"}
    BY <1>a, <1>b, <1>c, <1>d, <2>1, <2>3, ForgetReads DEF Settled
  <2> QED BY <2>1, <2>2, <2>3
<1>4. ASSUME NEW r \in Repairs, NextRepair(r) PROVE Settled
  <2>1. /\ UNCHANGED issue /\ UNCHANGED comments /\ seen' = seen /\ pc = "repair"
        /\ \E p : Goto(p) /\ p \notin {"requeueLabel", "final"}
    BY <1>4 DEF NextRepair
  <2> QED BY <1>a, <1>b, <1>c, <1>d, <1>e, <2>1 DEF Settled
<1>5. ASSUME Mark PROVE Settled
  <2>1. /\ UNCHANGED issue /\ UNCHANGED comments /\ pc = "mark"
        /\ Raised \/ (Goto("markNote") /\ seen' = issue)
    BY <1>5 DEF Mark
  <2>2. CASE Raised BY <1>a, <1>c, <1>d, <2>1, <2>2, RaisedSettled DEF Settled
  <2>3. CASE Goto("markNote") /\ seen' = issue
    BY <1>a, <1>b, <1>c, <1>d, <1>e, <2>1, <2>3 DEF Settled
  <2> QED BY <2>1, <2>2, <2>3
<1>6. ASSUME MarkLabel PROVE Settled
  <2>1. /\ UNCHANGED comments /\ seen' = seen /\ pc = "markLabel" /\ Goto("markNote")
        /\ UNCHANGED issue \/ SetLabels(cur, "blocked", TRUE)
    BY <1>6 DEF MarkLabel
  <2>2. CASE SetLabels(cur, "blocked", TRUE)
    <3>1. LabelsSettled BY <1>0, <2>2, QuietLabel
    <3> QED BY <1>a, <1>b, <1>c, <1>e, <2>1, <3>1 DEF Settled
  <2>3. CASE UNCHANGED issue BY <1>a, <1>b, <1>c, <1>d, <1>e, <2>1, <2>3 DEF Settled
  <2> QED BY <2>1, <2>2, <2>3
<1>7. ASSUME NEW i \in Items, CreateIssue(i) PROVE Settled
  <2>1. /\ UNCHANGED comments /\ pc = "item" /\ Goto("pointer")
        /\ seen' = [seen EXCEPT ![i] = issue'[i]]
        /\ issue'[i].status # "awaiting_human"
        /\ \A j \in Items : j # i => issue'[j] = issue[j]
    BY <1>0, <1>7 DEF CreateIssue, GitHubType
  <2>2. LabelsSettled BY <2>1 DEF LabelsSettled
  <2>3. ReadsSettled BY <1>0, <2>1 DEF ReadsSettled, LoopType
  <2> QED BY <1>a, <1>b, <1>c, <2>1, <2>2, <2>3 DEF Settled
<1>8. ASSUME NEW i \in Items, ReconcileItem(i) \/ SkipItem(i) \/ Resolve(i) PROVE Settled
  <2>1. /\ UNCHANGED issue /\ UNCHANGED comments /\ seen' = seen
        /\ pc \notin {"outcome", "final", "refresh"}
        /\ \E p : Goto(p) /\ p \notin {"requeueLabel", "final"}
    BY <1>8 DEF ReconcileItem, SkipItem, Resolve
  <2> QED BY <1>a, <1>b, <1>c, <1>d, <1>e, <2>1 DEF Settled
<1>9. ASSUME Repoint PROVE Settled
  <2>1. /\ UNCHANGED comments /\ seen' = seen /\ pc = "pointer" /\ Goto("recompute")
        /\ issue' = [issue EXCEPT ![cur].rev = rep]
    BY <1>9 DEF Repoint, loop
  <2>2. LabelsSettled
    <3> SUFFICES ASSUME NEW j \in Items PROVE issue'[j].status = issue[j].status
      BY DEF LabelsSettled
    <3>1. issue[j] \in Issue /\ DOMAIN issue = Items BY <1>0 DEF GitHubType
    <3>2. CASE j = cur
      <4>1. issue'[j] = [issue[j] EXCEPT !.rev = rep] BY <2>1, <3>1, <3>2
      <4> QED BY <3>1, <4>1 DEF Issue
    <3>3. CASE j # cur BY <2>1, <3>1, <3>3
    <3> QED BY <3>2, <3>3
  <2> QED BY <1>a, <1>b, <1>c, <1>e, <2>1, <2>2 DEF Settled
<1>10. ASSUME Supersede PROVE Settled
  <2>1. /\ UNCHANGED comments /\ seen' = seen /\ pc = "pointer" /\ Goto("reconciledNote")
        /\ \/ issue' = issue
           \/ issue' = [issue EXCEPT ![cur].state = "closed", ![cur].status = "none",
                                     ![cur].label = seen[cur].label]
    BY <1>10 DEF Supersede, loop
  <2>2. LabelsSettled
    <3> SUFFICES ASSUME NEW j \in Items, issue' # issue
                 PROVE  issue'[j].status = issue[j].status \/ issue'[j].status # "awaiting_human"
      BY DEF LabelsSettled
    <3>1. issue[j] \in Issue /\ DOMAIN issue = Items BY <1>0 DEF GitHubType
    <3>2. CASE j = cur
      <4>1. issue'[j] = [[[issue[j] EXCEPT !.state = "closed"] EXCEPT !.status = "none"]
                           EXCEPT !.label = seen[cur].label]
        BY <2>1, <3>1, <3>2
      <4>2. issue'[j].status = "none" BY <3>1, <4>1 DEF Issue
      <4> QED BY <4>2
    <3>3. CASE j # cur BY <2>1, <3>1, <3>3
    <3> QED BY <3>2, <3>3
  <2> QED BY <1>a, <1>b, <1>c, <1>e, <2>1, <2>2 DEF Settled
<1>11. ASSUME ReconciledNote \/ ResolveNote PROVE Settled
  <2>1. /\ UNCHANGED issue /\ pending' = pending /\ seen' = seen
        /\ pc \notin {"outcome", "final", "refresh"}
        /\ resolved' = resolved \/ resolved' = [resolved EXCEPT ![cur] = @ \cup {rep}]
        /\ \E p : Goto(p) /\ p \notin {"requeueLabel", "final"}
    BY <1>11 DEF ReconciledNote, ResolveNote, loop
  <2>2. NotesSettled BY <1>0, <2>1 DEF NotesSettled, GitHubType
  <2> QED BY <1>a, <1>b, <1>d, <1>e, <2>1, <2>2 DEF Settled
<1>12. ASSUME ClearRead PROVE Settled
  <2>1. /\ UNCHANGED issue /\ UNCHANGED comments /\ pc = "clearRead" /\ Goto("clear")
        /\ seen' = [seen EXCEPT ![cur] = issue[cur]]
    BY <1>12 DEF ClearRead
  <2>2. ReadsSettled BY <1>0, <2>1 DEF ReadsSettled, LoopType
  <2> QED BY <1>a, <1>b, <1>c, <1>d, <2>1, <2>2 DEF Settled
<1> QED BY <1>1, <1>2, <1>3, <1>4, <1>5, <1>6, <1>7, <1>8, <1>9, <1>10, <1>11, <1>12, Zenon
        DEF RepairStep

\* The steps beside repairs that settle: all but the local checkpoint and the
\* three steps that end a task, and failures.
LEMMA SessionSettled ==
  ASSUME TInv, CtxInv,
         \/ StartWorker \/ Promote \/ ListReady \/ NothingReady \/ ClaimRead \/ Claim
         \/ RejectClaim \/ RunTask \/ CheckRepair \/ PostCheckpoint \/ TaskReturns
         \/ \E i \in Items : PromoteIssue(i) \/ Demote(i) \/ Select(i) \/ StartContinue(i)
         \/ \E k \in {"plain", "pr", "manual"} : FinishTask(k)
         \/ \E r \in Repairs : OpenRepair(r)
  PROVE  Settled
<1>0. GitHubType /\ LoopType BY DEF TInv
<1>a. UNCHANGED outside => OutsideSettled BY DEF outside, OutsideSettled
<1>b. ASSUME NEW p, Goto(p), pc \notin {"outcome", "final", "refresh"},
             p \notin {"requeueLabel", "final"}
      PROVE  TasksSettled /\ PlaceSettled
  BY <1>b, BusyKept DEF Goto, worker, PlaceSettled
<1>c. UNCHANGED comments => NotesSettled BY DEF comments, NotesSettled
<1>d. UNCHANGED issue => LabelsSettled BY DEF LabelsSettled
<1>e. seen' = seen \/ seen' = issue => ReadsSettled BY DEF ReadsSettled
<1>1. ASSUME StartWorker \/ Promote \/ ListReady PROVE Settled
  <2>1. /\ UNCHANGED issue /\ UNCHANGED comments /\ UNCHANGED outside
        /\ seen' = seen \/ seen' = issue
        /\ pc \notin {"outcome", "final", "refresh"}
        /\ \E p : Goto(p) /\ p \notin {"requeueLabel", "final"}
    BY <1>1 DEF StartWorker, Promote, ListReady, loop
  <2> QED BY <1>a, <1>b, <1>c, <1>d, <1>e, <2>1 DEF Settled
<1>2. ASSUME NEW i \in Items, PromoteIssue(i) \/ Demote(i) PROVE Settled
  <2>1. /\ UNCHANGED comments /\ UNCHANGED outside /\ seen' = seen
        /\ pc \notin {"outcome", "final", "refresh"}
        /\ \E p : Goto(p) /\ p \notin {"requeueLabel", "final"}
    BY <1>2 DEF PromoteIssue, Demote
  <2>2. \/ UNCHANGED issue \/ SetLabels(i, "ready", seen[i].label)
        \/ SetLabels(i, "blocked_on_dependency", seen[i].label)
    BY <1>2 DEF PromoteIssue, Demote
  <2>3. LabelsSettled
    <3>1. CASE UNCHANGED issue BY <1>d, <3>1
    <3>2. CASE SetLabels(i, "ready", seen[i].label) BY <1>0, <3>2, QuietLabel
    <3>3. CASE SetLabels(i, "blocked_on_dependency", seen[i].label) BY <1>0, <3>3, QuietLabel
    <3> QED BY <2>2, <3>1, <3>2, <3>3
  <2> QED BY <1>a, <1>b, <1>c, <1>e, <2>1, <2>3 DEF Settled
<1>3. ASSUME NothingReady \/ RejectClaim PROVE Settled
  <2>1. /\ UNCHANGED comments /\ UNCHANGED outside /\ EndSession
        /\ pc \in {"select", "claimed"}
        /\ UNCHANGED issue \/ SetLabels(item, "blocked", seen[item].label)
    BY <1>3 DEF NothingReady, RejectClaim
  <2>2. TasksSettled /\ ReadsSettled /\ PlaceSettled BY <2>1, RaisedSettled DEF CtxInv
  <2>3. LabelsSettled
    <3>1. CASE UNCHANGED issue BY <1>d, <3>1
    <3>2. CASE SetLabels(item, "blocked", seen[item].label) BY <1>0, <3>2, QuietLabel
    <3> QED BY <2>1, <3>1, <3>2
  <2> QED BY <1>a, <1>c, <2>1, <2>2, <2>3 DEF Settled
<1>4. ASSUME ClaimRead PROVE Settled
  <2>1. /\ UNCHANGED issue /\ UNCHANGED comments /\ UNCHANGED outside
        /\ pc = "claimRead" /\ Goto("claim") /\ seen' = [seen EXCEPT ![cur] = issue[cur]]
    BY <1>4 DEF ClaimRead
  <2>2. ReadsSettled BY <1>0, <2>1 DEF ReadsSettled, LoopType
  <2> QED BY <1>a, <1>b, <1>c, <1>d, <2>1, <2>2 DEF Settled
<1>5. ASSUME Claim PROVE Settled
  <2>1. /\ UNCHANGED comments /\ UNCHANGED outside /\ seen' = seen
        /\ pc = "claim" /\ pc' = "claimed" /\ SetLabels(cur, "claimed", seen[cur].label)
    BY <1>5 DEF Claim, loop
  <2>2. LabelsSettled BY <1>0, <2>1, QuietLabel
  <2>3. TasksSettled /\ PlaceSettled BY <2>1, BusyKept DEF CtxInv, PlaceSettled
  <2> QED BY <1>a, <1>c, <1>e, <2>1, <2>2, <2>3 DEF Settled
<1>6. ASSUME RunTask PROVE Settled
  <2>1. /\ UNCHANGED issue /\ UNCHANGED comments /\ UNCHANGED outside /\ Forget
        /\ pc = "claimed" /\ pc' = "run"
    BY <1>6 DEF RunTask
  <2>2. TasksSettled /\ PlaceSettled BY <2>1, BusyKept DEF CtxInv, PlaceSettled
  <2> QED BY <1>a, <1>c, <1>d, <2>1, <2>2, ForgetReads DEF Settled
<1>7. ASSUME NEW i \in Items, StartContinue(i) PROVE Settled
  <2>1. /\ UNCHANGED issue /\ UNCHANGED comments /\ UNCHANGED outside /\ seen' = seen
        /\ pc = "idle" /\ pc' = "run"
    BY <1>7 DEF StartContinue, loop
  <2>2. TasksSettled /\ PlaceSettled BY <2>1, BusyKept DEF CtxInv, PlaceSettled
  <2> QED BY <1>a, <1>c, <1>d, <1>e, <2>1, <2>2 DEF Settled
<1>8. ASSUME NEW i \in Items, Select(i) PROVE Settled
  <2>1. /\ UNCHANGED issue /\ UNCHANGED comments /\ UNCHANGED outside /\ pc = "select"
        /\ Raised \/ (pc' = "claimRead" /\ seen' = seen)
    BY <1>8 DEF Select
  <2>2. CASE Raised BY <1>a, <1>c, <1>d, <2>1, <2>2, RaisedSettled DEF Settled
  <2>3. CASE pc' = "claimRead" /\ seen' = seen
    <3>1. TasksSettled /\ PlaceSettled BY <2>1, <2>3, BusyKept DEF CtxInv, PlaceSettled
    <3> QED BY <1>a, <1>c, <1>d, <1>e, <2>1, <2>3, <3>1 DEF Settled
  <2> QED BY <2>1, <2>2, <2>3
<1>9. ASSUME CheckRepair PROVE Settled
  <2>1. /\ UNCHANGED issue /\ UNCHANGED comments /\ UNCHANGED outside /\ pc = "check"
        /\ Raised \/ (seen' = seen /\ \E p : Goto(p) /\ p \notin {"requeueLabel", "final"})
    BY <1>9 DEF CheckRepair, loop
  <2>2. CASE Raised BY <1>a, <1>c, <1>d, <2>1, <2>2, RaisedSettled DEF Settled
  <2>3. CASE seen' = seen /\ \E p : Goto(p) /\ p \notin {"requeueLabel", "final"}
    BY <1>a, <1>b, <1>c, <1>d, <1>e, <2>1, <2>3 DEF Settled
  <2> QED BY <2>1, <2>2, <2>3
<1>10. ASSUME \/ PostCheckpoint \/ TaskReturns
              \/ \E k \in {"plain", "pr", "manual"} : FinishTask(k)
              \/ \E r \in Repairs : OpenRepair(r)
       PROVE  Settled
  <2>1. /\ UNCHANGED issue /\ UNCHANGED <<pending, resolved>> /\ seen' = seen
        /\ local' = local /\ command' = command /\ item' = item
        /\ pc \notin {"outcome", "final", "refresh"} /\ pc' \in {"requeue", "check", "outcome"}
        /\ ctx' = ctx \/ pc' = "outcome"
    BY <1>10 DEF PostCheckpoint, TaskReturns, FinishTask, OpenRepair, comments, loop, worker,
                 outside
  <2>2. TasksSettled /\ PlaceSettled BY <2>1, BusyKept DEF PlaceSettled
  <2>3. OutsideSettled /\ NotesSettled BY <2>1 DEF OutsideSettled, NotesSettled
  <2> QED BY <1>d, <1>e, <2>1, <2>2, <2>3 DEF Settled
<1> QED BY <1>1, <1>2, <1>3, <1>4, <1>5, <1>6, <1>7, <1>8, <1>9, <1>10, Zenon

\* Commands without the lock and reviewers settle.
LEMMA OthersSettled ==
  ASSUME TInv, HumanInv, Unlocked \/ Reviewers PROVE Settled
<1>0. GitHubType BY DEF TInv
<1>1. UNCHANGED comments /\ UNCHANGED session /\ local' = local
  BY DEF Unlocked, Reviewers, ObserveCi, FinishCommand, StartRefreshCi, StartFulfil, CloseIssue,
         RetryIssue, DecideRepair, outside
<1>2. ReadsSettled /\ NotesSettled /\ TasksSettled /\ PlaceSettled
  BY <1>1 DEF ReadsSettled, NotesSettled, TasksSettled, PlaceSettled, Deciding, Busy, comments,
              session, loop, worker
<1>3. command' = command \/ command'.status # "awaiting_human"
  BY DEF Unlocked, Reviewers, ObserveCi, FinishCommand, StartRefreshCi, StartFulfil, CloseIssue,
         RetryIssue, DecideRepair, Command, NoCommand, outside
<1>4. LabelsSettled
  <2>1. CASE UNCHANGED issue BY <2>1 DEF LabelsSettled
  <2>2. CASE FinishCommand
    <3> SUFFICES ASSUME NEW j \in Items
                 PROVE  issue'[j].status = issue[j].status \/ issue'[j].status # "awaiting_human"
      BY DEF LabelsSettled
    <3>1. issue[j] \in Issue /\ DOMAIN issue = Items BY <1>0 DEF GitHubType
    <3>2. PICK st : issue' = [issue EXCEPT ![command.item].status = command.status,
                                           ![command.item].label = command.label,
                                           ![command.item].state = st]
      <4> DEFINE st == IF command.op = "fulfil" THEN "closed" ELSE issue[command.item].state
      <4>1. CASE command.item \in Items
        <5>1. issue[command.item] \in Issue BY <1>0, <4>1 DEF GitHubType
        <5>2. issue' = [issue EXCEPT ![command.item].status = command.status,
                                     ![command.item].label = command.label,
                                     ![command.item].state = st]
          BY <2>2, <3>1, <4>1, <5>1 DEF FinishCommand, Issue
        <5> QED BY <5>2
      <4> QED BY <2>2, <4>1 DEF FinishCommand, TInv, CommandInv
    <3>3. CASE j = command.item
      <4>1. issue'[j] = [[[issue[j] EXCEPT !.status = command.status]
                            EXCEPT !.label = command.label] EXCEPT !.state = st]
        BY <3>1, <3>2, <3>3
      <4>2. issue'[j].status = command.status BY <3>1, <4>1 DEF Issue
      <4> QED BY <4>2 DEF HumanInv
    <3>4. CASE j # command.item BY <3>1, <3>2, <3>4
    <3> QED BY <3>3, <3>4
  <2>3. ASSUME NEW i \in Items, CloseIssue(i) \/ RetryIssue(i) PROVE LabelsSettled
    <3> SUFFICES ASSUME NEW j \in Items
                 PROVE  issue'[j].status = issue[j].status \/ issue'[j].status # "awaiting_human"
      BY DEF LabelsSettled
    <3>1. issue[j] \in Issue /\ DOMAIN issue = Items BY <1>0 DEF GitHubType
    <3>2. CASE j = i
      <4>1. \/ issue'[j] = [issue[j] EXCEPT !.state = "closed"]
            \/ issue'[j] = [issue[j] EXCEPT !.status = "ready"]
        BY <2>3, <3>1, <3>2 DEF CloseIssue, RetryIssue
      <4>2. issue'[j].status \in {issue[j].status, "ready"} BY <3>1, <4>1 DEF Issue
      <4> QED BY <4>2
    <3>3. CASE j # i BY <2>3, <3>1, <3>3 DEF CloseIssue, RetryIssue
    <3> QED BY <3>2, <3>3
  <2>4. \/ UNCHANGED issue \/ FinishCommand \/ \E i \in Items : CloseIssue(i) \/ RetryIssue(i)
    BY DEF Unlocked, Reviewers, ObserveCi, StartRefreshCi, StartFulfil, DecideRepair
  <2> QED BY <2>1, <2>2, <2>3, <2>4
<1> QED BY <1>1, <1>2, <1>3, <1>4 DEF Settled, OutsideSettled

\* The steps of the repair machinery that write what was read keep the
\* invariant, because what was read satisfies it.
LEMMA RepairHuman ==
  ASSUME TInv, CtxInv, HumanInv, UNCHANGED outside,
         \/ Recompute \/ RequeueLabel \/ Clear
         \/ \E i \in Items : MarkNote(i) \/ RestoreLabel(i)
  PROVE  HumanInv'
<1>0. GitHubType /\ LoopType BY DEF TInv
<1>1. /\ pc \notin {"outcome", "final", "refresh"} /\ pc' # "final"
      /\ UNCHANGED <<ctx, item, local, command>>
  <2>1. pc' # "final" /\ UNCHANGED <<ctx, worker>>
    <3>1. CASE Recompute BY <3>1 DEF Recompute, Goto
    <3>2. CASE RequeueLabel \/ Clear BY <3>2 DEF RequeueLabel, Clear, Goto
    <3>3. CASE \E i \in Items : MarkNote(i) \/ RestoreLabel(i)
      BY <3>3 DEF MarkNote, RestoreLabel, Goto
    <3> QED BY <3>1, <3>2, <3>3
  <2>2. pc \notin {"outcome", "final", "refresh"}
    BY DEF Recompute, RequeueLabel, Clear, MarkNote, RestoreLabel
  <2> QED BY <2>1, <2>2 DEF worker, outside
<1>2. \A i \in Items : (Busy(i) => Deciding(i)) /\ (Deciding(i) => Deciding(i)' /\ Busy(i)')
  BY <1>1 DEF Busy, Deciding
<1>3. ASSUME NEW i \in Items, NEW s, Waits(i, s), s = "awaiting_human"
      PROVE  local'[i] = "manual" \/ (Deciding(i)' /\ Busy(i)')
  BY <1>1, <1>2, <1>3 DEF Waits
<1>4. ASSUME UNCHANGED issue
      PROVE  \A i \in Items :
               issue'[i].status = "awaiting_human" => local'[i] = "manual" \/ Deciding(i)'
  BY <1>1, <1>2, <1>4 DEF HumanInv
<1>5. ASSUME NEW i \in Items, NEW s, SetLabels(i, s, issue'[i].label), Waits(i, s)
      PROVE  \A j \in Items :
               issue'[j].status = "awaiting_human" => local'[j] = "manual" \/ Deciding(j)'
  <2>1. \A j \in Items : issue'[j].status = IF j = i THEN s ELSE issue[j].status
    BY <1>0, <1>5, SetLabelsStatus
  <2> QED BY <1>1, <1>2, <1>3, <1>5, <2>1 DEF HumanInv
<1>6. ASSUME UNCHANGED seen PROVE \A i \in Items : Waits(i, seen[i].status)'
  BY <1>1, <1>2, <1>6 DEF HumanInv, Waits
<1>7. ASSUME UNCHANGED <<pending, resolved>>
      PROVE  \A i \in Items : \A r \in Active(i)' : Waits(i, pending[i][r].status)'
  BY <1>1, <1>2, <1>7 DEF HumanInv, Waits, Active
<1>8. command'.status # "awaiting_human" BY <1>1 DEF HumanInv
<1>9. ASSUME NEW i \in Items, NEW s, NEW l, SetLabels(i, s, l)
      PROVE  SetLabels(i, s, issue'[i].label)
  <2>1. issue[i] \in Issue /\ DOMAIN issue = Items BY <1>0 DEF GitHubType
  <2>2. issue'[i] = [[issue[i] EXCEPT !.status = s] EXCEPT !.label = l]
    BY <1>9, <2>1 DEF SetLabels
  <2>3. issue'[i].label = l BY <2>1, <2>2 DEF Issue
  <2> QED BY <1>9, <2>3
<1>10. ASSUME NEW i, i \notin Items, NEW s, NEW l, SetLabels(i, s, l) PROVE UNCHANGED issue
  BY <1>0, <1>10 DEF SetLabels, GitHubType
<1>11. ASSUME NEW i \in Items, MarkNote(i) PROVE HumanInv'
  <2>1. /\ UNCHANGED <<issue, seen, resolved>> /\ pc' = "markLabel"
        /\ \/ pending' = pending
           \/ \E v : /\ pending' = [pending EXCEPT ![i][rep] = v]
                     /\ v.status = StatusOf(seen[i])
    <3>1. CASE rep \in Active(i) BY <1>11, <3>1 DEF MarkNote, Goto
    <3>2. CASE rep \notin Active(i)
      <4>1. PICK v : v = [status |-> StatusOf(seen[i]), state |-> seen[i].state,
                          rev |-> seen[i].rev]
        OBVIOUS
      <4>2. pending' = [pending EXCEPT ![i][rep] = v] BY <1>11, <3>2, <4>1 DEF MarkNote
      <4>3. v.status = StatusOf(seen[i]) BY <4>1
      <4>4. UNCHANGED <<issue, seen, resolved>> /\ pc' = "markLabel"
        BY <1>11, Zenon DEF MarkNote, Goto
      <4> QED BY <4>2, <4>3, <4>4
    <3> QED BY <3>1, <3>2
  <2>2. ASSUME NEW j \in Items, NEW r \in Active(j)' PROVE Waits(j, pending[j][r].status)'
    <3>1. CASE pending' = pending BY <1>7, <2>1, <2>2, <3>1
    <3>2. CASE j = i /\ pending'[j][r].status = StatusOf(seen[i])
      <4>1. StatusOf(seen[i]) = "awaiting_human" => seen[i].status = "awaiting_human"
        BY DEF StatusOf
      <4>2. Waits(i, seen[i].status) BY DEF HumanInv
      <4>3. seen[i].status = "awaiting_human" => local'[i] = "manual" \/ Busy(i)'
        BY <1>3, <4>2
      <4> QED BY <3>2, <4>1, <4>3 DEF Waits
    <3>3. CASE pending'[j][r] = pending[j][r]
      <4>1. r \in Active(j) BY <2>1, <2>2, <3>3 DEF Active
      <4> QED BY <1>1, <1>2, <3>3, <4>1 DEF HumanInv, Waits
    <3>4. \/ pending' = pending
          \/ pending'[j][r] = pending[j][r]
          \/ j = i /\ pending'[j][r].status = StatusOf(seen[i])
      BY <1>0, <2>1, <2>2 DEF GitHubType, Active
    <3> QED BY <3>1, <3>2, <3>3, <3>4
  <2> QED BY <1>4, <1>6, <1>8, <1>1, <2>1, <2>2 DEF HumanInv
<1>12. ASSUME NEW i \in Items, RestoreLabel(i) PROVE HumanInv'
  <2>1. /\ UNCHANGED <<pending, resolved, seen>> /\ pc' \notin {"requeueLabel", "final"}
        /\ \/ UNCHANGED issue
           \/ rep \in Active(i) /\ SetLabels(i, pending[i][rep].status, FALSE)
    BY <1>12 DEF RestoreLabel, Goto, comments
  <2>2. \A j \in Items : issue'[j].status = "awaiting_human" => local'[j] = "manual" \/ Deciding(j)'
    <3>1. CASE UNCHANGED issue BY <1>4, <3>1
    <3>2. CASE rep \in Active(i) /\ SetLabels(i, pending[i][rep].status, FALSE)
      <4>1. Waits(i, pending[i][rep].status) BY <3>2 DEF HumanInv
      <4>2. SetLabels(i, pending[i][rep].status, issue'[i].label) BY <1>9, <3>2
      <4> QED BY <1>5, <4>1, <4>2
    <3> QED BY <2>1, <3>1, <3>2
  <2> QED BY <1>6, <1>7, <1>8, <2>1, <2>2 DEF HumanInv
<1>13. ASSUME Recompute PROVE HumanInv'
  <2>1. /\ UNCHANGED <<issue, pending, resolved, cur>>
        /\ seen' = seen \/ seen' = [seen EXCEPT ![cur].label = issue[cur].label]
        /\ \/ pc' = "reconciledNote"
           \/ pc' = "requeueLabel" /\ (status' = "awaiting_human" => KeepAwaitingHuman(cur))
    BY <1>13 DEF Recompute, Goto, comments
  <2>2. ASSUME NEW j \in Items PROVE seen'[j].status = seen[j].status
    <3>1. seen[j] \in Issue /\ DOMAIN seen = Items BY <1>0 DEF LoopType
    <3>2. CASE seen' = seen BY <3>2
    <3>3. CASE seen' # seen /\ j = cur
      <4>1. seen'[j] = [seen[j] EXCEPT !.label = issue[cur].label] BY <2>1, <3>1, <3>3
      <4> QED BY <3>1, <4>1 DEF Issue
    <3>4. CASE seen' # seen /\ j # cur BY <2>1, <3>1, <3>4
    <3> QED BY <3>2, <3>3, <3>4
  <2>3. \A j \in Items : Waits(j, seen[j].status)'
    BY <1>1, <1>2, <2>2 DEF HumanInv, Waits
  <2>4. ASSUME pc' = "requeueLabel", cur \in Items, status' = "awaiting_human"
        PROVE  local'[cur] = "manual" \/ Busy(cur)
    <3>1. rep \in Active(cur) /\ pending[cur][rep].status = "awaiting_human"
      BY <2>1, <2>4 DEF KeepAwaitingHuman
    <3>2. Waits(cur, pending[cur][rep].status) BY <2>4, <3>1 DEF HumanInv
    <3> QED BY <1>1, <3>1, <3>2 DEF Waits
  <2>5. Busy(cur) => Busy(cur)' BY <1>1, <2>1 DEF Busy
  <2>6. pc' = "requeueLabel" /\ cur' \in Items => Waits(cur, status)'
    BY <2>1, <2>4, <2>5 DEF Waits
  <2> QED BY <1>1, <1>4, <1>7, <1>8, <2>1, <2>3, <2>6 DEF HumanInv
<1>14. ASSUME RequeueLabel PROVE HumanInv'
  <2>1. /\ UNCHANGED <<pending, resolved, seen>> /\ pc = "requeueLabel" /\ pc' = "reconciledNote"
        /\ SetLabels(cur, status, seen[cur].label)
    BY <1>14 DEF RequeueLabel, Goto, comments, loop
  <2>2. \A j \in Items : issue'[j].status = "awaiting_human" => local'[j] = "manual" \/ Deciding(j)'
    <3>1. CASE cur \in Items
      <4>1. Waits(cur, status) BY <2>1, <3>1 DEF HumanInv
      <4>2. SetLabels(cur, status, issue'[cur].label) BY <1>9, <2>1, <3>1
      <4> QED BY <1>5, <3>1, <4>1, <4>2
    <3>2. CASE cur \notin Items BY <1>4, <1>10, <2>1, <3>2
    <3> QED BY <3>1, <3>2
  <2> QED BY <1>6, <1>7, <1>8, <2>1, <2>2 DEF HumanInv
<1>15. ASSUME Clear PROVE HumanInv'
  <2>1. /\ UNCHANGED <<pending, resolved, seen>> /\ pc' \notin {"requeueLabel", "final"}
        /\ UNCHANGED issue \/ SetLabels(cur, seen[cur].status, FALSE)
    BY <1>15 DEF Clear, Goto, comments
  <2>2. \A j \in Items : issue'[j].status = "awaiting_human" => local'[j] = "manual" \/ Deciding(j)'
    <3>1. CASE UNCHANGED issue BY <1>4, <3>1
    <3>2. CASE cur \in Items /\ SetLabels(cur, seen[cur].status, FALSE)
      <4>1. Waits(cur, seen[cur].status) BY <3>2 DEF HumanInv
      <4>2. SetLabels(cur, seen[cur].status, issue'[cur].label) BY <1>9, <3>2
      <4> QED BY <1>5, <3>2, <4>1, <4>2
    <3>3. CASE cur \notin Items BY <1>4, <1>10, <2>1, <3>3
    <3> QED BY <2>1, <3>1, <3>2, <3>3
  <2> QED BY <1>6, <1>7, <1>8, <2>1, <2>2 DEF HumanInv
<1> QED BY <1>11, <1>12, <1>13, <1>14, <1>15

\* A checkpoint moves under the item at work, and the end of its task brings
\* its label, and then its pending comments, in line with the checkpoint.
LEMMA TaskHuman ==
  ASSUME TInv, CtxInv, HumanInv, WriteLocal \/ Outcome \/ FinalStatus \/ Refresh
  PROVE  HumanInv'
<1>0. GitHubType /\ LoopType /\ OutsideType BY DEF TInv
<1>1. ASSUME WriteLocal PROVE HumanInv'
  <2>1. /\ UNCHANGED <<issue, pending, resolved, seen, ctx, item, command>>
        /\ pc = "local" /\ pc' = "comment" /\ ctx = "task"
        /\ \A i \in Items : i # item => local'[i] = local[i]
    BY <1>0, <1>1 DEF WriteLocal, Goto, comments, loop, worker, CtxInv, OutsideType
  <2>2. \A i \in Items : /\ (Deciding(i) <=> i = item) /\ (Busy(i) <=> i = item)
                         /\ (Deciding(i)' <=> i = item) /\ (Busy(i)' <=> i = item)
    BY <2>1 DEF Deciding, Busy
  <2>3. \A i \in Items : issue'[i].status = "awaiting_human" => local'[i] = "manual" \/ Deciding(i)'
    BY <2>1, <2>2 DEF HumanInv
  <2>4. \A i \in Items : Waits(i, seen[i].status)' BY <2>1, <2>2 DEF HumanInv, Waits
  <2>5. \A i \in Items : \A r \in Active(i)' : Waits(i, pending[i][r].status)'
    BY <2>1, <2>2 DEF HumanInv, Waits, Active
  <2> QED BY <2>1, <2>3, <2>4, <2>5 DEF HumanInv
<1>2. ASSUME Outcome PROVE HumanInv'
  <2>1. /\ UNCHANGED <<issue, pending, resolved, ctx, item, local, command>>
        /\ seen' = [seen EXCEPT ![item] = issue[item]]
        /\ pc = "outcome" /\ pc' = "final" /\ status' \in Outcomes
    BY <1>2 DEF Outcome, Goto, comments, worker, outside
  <2>2. \A i \in Items : (Deciding(i)' <=> Deciding(i)) /\ (Busy(i)' <=> Busy(i))
    BY <2>1 DEF Deciding, Busy
  <2>3. \A i \in Items : issue'[i].status = "awaiting_human" => local'[i] = "manual" \/ Deciding(i)'
    BY <2>1, <2>2 DEF HumanInv
  <2>4. \A i \in Items : Waits(i, seen[i].status)'
    <3>1. \A i \in Items : i # item => seen'[i] = seen[i] BY <1>0, <2>1 DEF LoopType
    <3>2. Busy(item)' BY <2>1 DEF Busy
    <3> QED BY <2>1, <2>2, <3>1, <3>2 DEF HumanInv, Waits
  <2>5. \A i \in Items : \A r \in Active(i)' : Waits(i, pending[i][r].status)'
    BY <2>1, <2>2 DEF HumanInv, Waits, Active
  <2>6. "awaiting_human" \in Outcomes => local[item] = "manual"
    BY DEF Outcomes, CiOutcomes
  <2>7. status' = "awaiting_human" => local'[item'] = "manual" BY <2>1, <2>6
  <2> QED BY <2>1, <2>3, <2>4, <2>5, <2>7 DEF HumanInv
<1>3. ASSUME FinalStatus PROVE HumanInv'
  <2>1. /\ UNCHANGED <<pending, resolved, seen, ctx, item, local, command>>
        /\ pc = "final" /\ pc' = "refresh" /\ SetLabels(item, status, seen[item].label)
    BY <1>3 DEF FinalStatus, Goto, comments, loop, worker, outside
  <2>2. \A i \in Items : Busy(i)' <=> Busy(i) BY <2>1 DEF Busy
  <2>3. \A i \in Items : issue'[i].status = "awaiting_human" => local'[i] = "manual" \/ Deciding(i)'
    <3>1. \A j \in Items : issue'[j].status = IF j = item THEN status ELSE issue[j].status
      BY <1>0, <2>1, SetLabelsStatus
    <3>2. status = "awaiting_human" => local[item] = "manual" BY <2>1 DEF HumanInv
    <3>3. \A j \in Items : j # item => ~Deciding(j) BY DEF Deciding
    <3> QED BY <2>1, <3>1, <3>2, <3>3 DEF HumanInv
  <2>4. \A i \in Items : Waits(i, seen[i].status)' BY <2>1, <2>2 DEF HumanInv, Waits
  <2>5. \A i \in Items : \A r \in Active(i)' : Waits(i, pending[i][r].status)'
    BY <2>1, <2>2 DEF HumanInv, Waits, Active
  <2> QED BY <2>1, <2>3, <2>4, <2>5 DEF HumanInv
<1>4. ASSUME Refresh PROVE HumanInv'
  <2>1. /\ UNCHANGED <<issue, resolved, ctx, item, local, command>>
        /\ pc = "refresh" /\ pc' = "requeue" /\ Forget
    BY <1>4 DEF Refresh, Goto, worker, outside
  <2>2. \A i \in Items : (Deciding(i)' <=> Deciding(i)) /\ (i # item => ~Busy(i))
    BY <2>1 DEF Deciding, Busy
  <2>3. \A i \in Items : issue'[i].status = "awaiting_human" => local'[i] = "manual" \/ Deciding(i)'
    BY <2>1, <2>2 DEF HumanInv
  <2>4. \A i \in Items : Waits(i, seen[i].status)' BY <2>1 DEF Waits, Forget, Absent
  <2>5. ASSUME NEW i \in Items, NEW r \in Active(i)' PROVE Waits(i, pending[i][r].status)'
    <3>0. r \in Repairs /\ pending \in [Items -> [Repairs -> Pending]]
      BY <1>0, <2>5 DEF Active, GitHubType
    <3>1. CASE i # item
      <4>1. pending'[i] = pending[i] BY <1>4, <3>0, <3>1 DEF Refresh
      <4>2. r \in Active(i) BY <2>1, <2>5, <4>1 DEF Active
      <4> QED BY <2>1, <2>2, <3>1, <4>1, <4>2 DEF HumanInv, Waits
    <3>2. CASE i = item
      <4> DEFINE new == [status |-> StatusOf(issue[item]), state |-> issue[item].state,
                         rev |-> issue[item].rev]
      <4>1. pending'[i][r] =
               IF r \in Active(item)
                  /\ <<pending[item][r].status, pending[item][r].state>>
                       # <<StatusOf(issue[item]), issue[item].state>>
               THEN new ELSE pending[item][r]
        BY <1>4, <3>0, <3>2 DEF Refresh
      <4>2. new.status = StatusOf(issue[item]) OBVIOUS
      <4> HIDE DEF new
      <4>3. r \in Active(item)
        <5>1. r \notin Active(item) => pending'[i][r] = pending[i][r] BY <3>2, <4>1
        <5> QED BY <2>1, <2>5, <3>2, <5>1 DEF Active
      <4>4. pending'[i][r].status = StatusOf(issue[item]) BY <4>1, <4>2, <4>3
      <4>5. StatusOf(issue[item]) = "awaiting_human" => issue[item].status = "awaiting_human"
        BY DEF StatusOf
      <4>6. issue[item].status = "awaiting_human" => local[item] = "manual" \/ Deciding(item)
        BY <3>2 DEF HumanInv
      <4>7. Deciding(item) => Busy(i)' BY <2>1, <3>2 DEF Deciding, Busy
      <4> QED BY <2>1, <3>2, <4>4, <4>5, <4>6, <4>7 DEF Waits
    <3> QED BY <3>1, <3>2
  <2> QED BY <2>1, <2>3, <2>4, <2>5 DEF HumanInv
<1> QED BY <1>1, <1>2, <1>3, <1>4

\* Every step that is not a failure keeps the invariant.
LEMMA HumanStep == TInv /\ CtxInv /\ FaultFree /\ [Next]_vars => FaultFree'
<1> SUFFICES ASSUME TInv, CtxInv, FaultFree, [Next]_vars, faults' = 0 PROVE HumanInv'
  BY DEF FaultFree
<1>0. faults = 0 => HumanInv BY DEF FaultFree
<1>1. faults \in Nat BY PlanAssumption DEF TInv
<1>2. ~CallFails /\ ~Killed BY <1>1 DEF CallFails, Killed
<1>3. CASE UNCHANGED vars
  <2>1. HumanInv BY <1>0, <1>3 DEF vars
  <2>2. Settled
    BY <1>3 DEF vars, comments, session, loop, worker, outside, Settled, LabelsSettled,
       ReadsSettled, NotesSettled, TasksSettled, PlaceSettled, OutsideSettled, Deciding, Busy
  <2> QED BY <2>1, <2>2, SettledKeeps
<1>4. CASE RepairStep /\ UNCHANGED outside
  <2>1. faults' = faults
    BY <1>4 DEF RepairStep, Requeue, RequeueDone, NextRepair, Mark, MarkLabel, MarkDone, Restore,
       RestoreDone, Reconcile, Repoint, Supersede, Recompute, RequeueLabel, ReconciledNote,
       ItemsDone, ResolveNote, ClearRead, Clear, ResolveDone, MarkNote, RestoreLabel, CreateIssue,
       ReconcileItem, SkipItem, Resolve
  <2>2. HumanInv BY <1>0, <2>1
  <2>3. CASE Settled BY <2>2, <2>3, SettledKeeps
  <2>4. CASE ~Settled BY <1>4, <2>2, <2>4, RepairSettled, RepairHuman
  <2> QED BY <2>3, <2>4
<1>5. CASE \/ StartWorker \/ Promote \/ ListReady \/ NothingReady \/ ClaimRead \/ Claim
           \/ RejectClaim \/ RunTask \/ CheckRepair \/ PostCheckpoint \/ TaskReturns
           \/ \E i \in Items : PromoteIssue(i) \/ Demote(i) \/ Select(i) \/ StartContinue(i)
           \/ \E k \in {"plain", "pr", "manual"} : FinishTask(k)
           \/ \E r \in Repairs : OpenRepair(r)
  <2>1. faults' = faults
    BY <1>5 DEF StartWorker, Promote, ListReady, NothingReady, ClaimRead, Claim, RejectClaim,
       RunTask, CheckRepair, PostCheckpoint, TaskReturns, PromoteIssue, Demote, Select,
       StartContinue, FinishTask, OpenRepair
  <2>2. Settled BY <1>5, SessionSettled
  <2> QED BY <1>0, <2>1, <2>2, SettledKeeps
<1>6. CASE WriteLocal \/ Outcome \/ FinalStatus \/ Refresh
  <2>1. faults' = faults BY <1>6 DEF WriteLocal, Outcome, FinalStatus, Refresh
  <2> QED BY <1>0, <1>6, <2>1, TaskHuman
<1>7. CASE Unlocked \/ Reviewers
  <2>1. faults' = faults
    BY <1>7 DEF Unlocked, Reviewers, ObserveCi, FinishCommand, StartRefreshCi, StartFulfil,
       CloseIssue, RetryIssue, DecideRepair
  <2>2. HumanInv BY <1>0, <2>1
  <2> QED BY <1>7, <2>2, OthersSettled, SettledKeeps
<1> QED BY <1>2, <1>3, <1>4, <1>5, <1>6, <1>7, Zenon DEF Next, Step, Requeuing

\* Between sessions, an item that waits for a human has the checkpoint its
\* continuation needs, in every plan and through every repair, as long as no
\* call failed and no process was killed (continue_manual_prerequisite_issue,
\* _restore_closed_plan_repair, _reconcile_merged_plan_repair).
THEOREM HumanWorkResumes == Spec => []AwaitingHumanResumable
<1>1. Init => CtxInv /\ FaultFree
  <2> SUFFICES ASSUME Init PROVE CtxInv /\ HumanInv BY DEF FaultFree
  <2>1. CtxInv BY DEF Init, CtxInv
  <2>2. /\ \A i \in Items : issue[i].status # "awaiting_human" /\ seen[i].status # "awaiting_human"
        /\ \A i \in Items : Active(i) = {}
        /\ pc = "idle" /\ command.status # "awaiting_human"
    BY DEF Init, Absent, Active, NoCommand
  <2>3. HumanInv BY <2>2 DEF HumanInv, Waits
  <2> QED BY <2>1, <2>3
<1>2. CtxInv /\ FaultFree => AwaitingHumanResumable
  <2> SUFFICES ASSUME CtxInv, HumanInv, pc = "idle", NEW i \in Items,
                      issue[i].status = "awaiting_human"
               PROVE  local[i] = "manual"
    BY DEF AwaitingHumanResumable, FaultFree
  <2>1. ~Deciding(i) BY DEF CtxInv, Deciding
  <2> QED BY <2>1 DEF HumanInv
<1> QED BY <1>1, <1>2, CtxStep, HumanStep, TypeInductive, PTL DEF Spec
=============================================================================
