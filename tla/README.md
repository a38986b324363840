# Formal verification of powdrr-lift

TLA+ models of the parts of powdrr-lift that keep durable state and are driven
by more than one process, the TLC runs that check them on small instances, and
TLAPS proofs of their most important properties for instances of any size.

Contents: [the system](#the-system) · [modules](#modules) · [runs](#runs) ·
[proofs](#proofs) · [findings](#findings) · [not modelled](#what-is-not-modelled)
· [plan](#plan)

## The system

powdrr-lift drives language-model agents through software-delivery workflows.
Most of its code is sequential (prompt assembly, parsing, validation of
documents). What has to be right under interleavings and failures is a handful
of stores and the processes around them.

| Component | State it keeps | Operations | Interacts with | What is hard |
| --- | --- | --- | --- | --- |
| Execution store (`execution/store.py`) | `state.json`, `events.jsonl`, `transaction.json`, `state.lock` of an execution | `create`, `load` (with recovery), `append`, `append_transaction`, `verify` | every `ExecutionRuntime` of the execution, in several processes | a kill between two file replacements, stale snapshots, reads outside the lock |
| Execution runtime (`execution/runtime.py`, `kernel.py`, `phases.py`, `evidence.py`, `checkpoints.py`) and the step runner (`workrr/llm.py`) | the snapshot `self.state`, queued transaction events, the kernel's events and obligations | the runner's rounds, `sync_kernel`, `invoke`, `transaction`, `transition`, `record_*`, `restore_checkpoint`, `verify` | execution store, capability broker, model | replays after conflicts, obligations that outlive their process, writes that happen before they are recorded |
| Capability broker (`execution/capabilities.py`) | exception requests and decisions, idempotency keys | `invoke`, request / decide / consume an exception | runtime, tools | single use of an exception across processes, repeating an external write |
| Workspace turns (`powdrr_local/workspace.py`) | SQLite tables `turns`, `questions`, `turn_dispatch_intents`, `supervisor_lease` | `create_turn`, `answer_question`, `claim_next_turn_dispatch`, `finish_turn_dispatch`, `transition_turn`, `create_question`, `mark_question_answer_delivered`, lease operations | browser API, dispatch loop, chat runner | every transaction is atomic, the sequences of them are not |
| Turn dispatch (`turn_dispatch_runtime.py`, `turn_dispatch_supervisor.py`, `workrr/workspace_chat_turn.py`) | the lease generation and claim a loop believes it has, the turn a runner read | the poll loop, `dispatch_next`, `run_turn` | workspace store, Procedrr workflow | lease loss during a dispatch, exceptions after the claim, answers that arrive early |
| Workspace jobs (`workspace.py`, `job_action_supervisor.py`) | `jobs`, `dependencies`, `job_operations`, `worker_ownership`, `job_action_intents` | create, start, transition, claim / heartbeat / exit a worker, cancel, accept / claim / finish an action | supervisors, workers, browser | releasing dependents, two workers on an attempt, actions on a job that moved |
| GitHub issue queue (`workrr/github_issue_queue.py`) | on GitHub: issue state, queue label, pending label, plan pointer, comments; locally: the task checkpoint of an issue and the worker lock | `run_worker_once`, `continue_manual_prerequisite_issue`, `continue_awaiting_ci_issue`, `fulfill_issue_without_pr`, plan repairs (mark, restore, reconcile) | GitHub, reviewers, workflows, the planning service | no transaction spans two GitHub calls, label sets are written from earlier reads, some commands take no lock |

Properties that make them correct: a commit that was acknowledged is never lost
and never applied twice; a log rebuilds the document it is the history of; a
restart finishes or undoes what a crash interrupted; a lease generation has one
holder; a user message starts one workflow; a turn waits for input exactly while
somebody can answer; accepted work is eventually taken up; a finished turn or
job stays finished; a job or plan item starts only after its dependencies; a
plan repair holds the issues it affects until it is decided, and lets go of them
then; what an action requires stays owed until it is done, and nothing is
published before. PROJECT.json lists
the hazards at their source lines with the properties that cover them.

## Modules

### ExecutionStore, EventStream

`ExecutionStore` models `FileExecutionStateStore` and the paths of
`ExecutionRuntime` that use it. A *worker* is a process with a runtime. The
files are the variables `created` and `state` (`state.json`), `log`
(`events.jsonl`), `journal` (`transaction.json`) and `lock` (`state.lock`);
`snapshot` is `ExecutionRuntime.state`; `pc`, `op`, `cs` and `doc` are where a
worker is and its local variables. `issued` counts events and names them apart;
`acked` is a history variable, the appends that returned to their caller.

Every change of an execution document is the reduction of one event, and the
reduction is a function. The document is therefore represented by the sequence
of payloads reduced into it; its length is `state_version` and
`event_sequence`. This keeps what the properties distinguish (which events, in
which order) and nothing of what the events mean.

Each file replacement (`_atomic_write`: write, `fsync`, `os.replace`) is one
action, each unlocked read is one, and a worker may be killed between any two
(`Crash`), which releases its native lock. `Open`, `Load`,
`RecoverTransaction`, `ReadState`, `Create` and `CreateLog` are
`ExecutionRuntime.__init__`, `load`, `_recover_transaction` and `create`;
`StartCommit` to `FinishAppend` are `_append_event(s)`, `transaction`,
`_commit_transaction`, `append`, `append_transaction` and `_append_locked`;
`StartVerify` and `VerifyLog` are `verify`.

`EventStream` is the abstract specification: a stream to which batches are
added whole and at most once. `StreamRefinement` states that `ExecutionStore`
implements it with `state` as the stream.

### TurnDispatch

`TurnDispatch` models the turn, question, dispatch-intent and lease tables
(`turn`, `question`, `intent`, `lease`) and, for each service process, the
dispatch loop with the dispatch it is in (`pc`, `held`, `job`). A store
operation runs in one `BEGIN IMMEDIATE` transaction and is one action; between
two of them the lease may expire and be taken over, the user may answer, the
process may be killed. Time appears only as the moment a lease stops being live
(`ExpireLease`): the loop never compares clocks otherwise.

* `CreateTurn`, `AnswerQuestion`: the browser's requests.
* `AcquireLease`, `LoseLease`, `Stop`, `Crash`, `Start`: the life of a loop. A
  restarted process has a new `supervisor_id`; `Nobody` stands for owners that
  are gone.
* `Claim`, `FinishDispatch`: `claim_next_turn_dispatch` and
  `finish_turn_dispatch` with `dispatch_next`'s choice of `requeue`.
* `ReadTurn` to `SettleTurn`: `run_turn` with `_start_turn`,
  `_answered_question`, the callbacks of the workflow and `_fail_turn`. The
  workflow (`procedrr_chat.py`) is abstracted to what its caller sees: it may ask a
  question (bounded by `MaxQuestions`), also raise after the question was saved,
  end, or raise.

A request identifier replayed with the same command returns the saved result.
Where this decides the outcome (delivering an answer, asking a question under
an event number already used) it is modelled; a replay of a transition to a
final state is not told apart from a refused one, because `dispatch_next` treats
both alike once the turn is no longer accepted. The model has one repository.

### Jobs, JobActions, JobWorkers

`Jobs` models the `jobs`, `dependencies` and `job_operations` tables: `job`
holds state and revision of each row, `deps` its prerequisites, `operations` the
attempts bound to it. A caller reads a row (`ReadJob`, into `seen`) and later
sends a request that names the revision it read; `CreateJob`, `TransitionJob`
(with `_release_dependents` in the same transaction) and `StartOperation` are
the operations. Two modules extend it with what acts on jobs; each keeps its own
view of the supervisor lease, since they need different things of it.

* `JobActions`: the `job_action_intents` table (`intents`, in creation order)
  and the supervisors running `dispatch_next` (`pc`, `current`, `outcome`).
  `AcceptAction` is `accept_job_action`; `Claim`, `Dispatch` and `Finish` are the
  two transactions of `dispatch_next` and the delivery between them, which the
  lease does not fence. The dispatcher is external: it returns, raises
  `RetryableJobActionError`, or raises another `Exception`. A cancelled task is left
  out: `CancelledError` is no `Exception`, and `dispatch_next` would leave its action
  claimed under a live generation. Only tests construct the supervisor so far. A lease is live or not, as
  in TurnDispatch. The notification of browsers has no effect on the tables and
  swallows its errors; it is left out.
* `JobWorkers`: the `worker_ownership` table (`owner`) with both leases as
  expiry times against a clock (`now`, `Tick`). `grant` is what a worker process
  was last told: it may act until then, whatever happens to the tables.
  `ClaimWorker`, `Heartbeat`, `MarkExited` and `RequestCancellation` are the four
  operations; `released` is a history variable. Every renewal of the supervisor
  lease asks for the same length (the dispatch loop does); a caller that renewed
  for a shorter time than remains would be able to strand a worker. Row revisions
  of `worker_ownership` only refuse requests and are left out.

### PlanRepair, IssueQueue

The issues of one plan and their life on GitHub. An issue (`issue`) is its state,
its one queue label, the label `powdrr:plan-repair-pending` and the plan revision
its body points to. Comments are kept as what the code reads back from them:
`pending`, `resolved` and `reconciled` for the three repair markers, `digests`
and `published` for task checkpoints. The plan itself is given by constants: the
dependencies and the input contract of every item in every revision, and what
each repair affects and supersedes.

Each GitHub call that changes something is one action, and so is each read that a
later write depends on (`seen`): a label update sends the whole label set that was
read before. A call may fail (`CallFails`) and the process may be killed
(`Killed`) between any two; both count as `faults`.

* `PlanRepair`: `_requeue_merged_plan_amendments` (`Requeue`, `NextRepair`) with
  `_mark_plan_repair_pending` (`Mark` to `MarkDone`), `_restore_closed_plan_repair`
  (`Restore` to `RestoreDone`) and `_reconcile_merged_plan_repair` (`Reconcile`
  to `ResolveDone`). `ResolveNote`, `ClearRead` and `Clear` are shared by the two
  that end a repair.
* `IssueQueue` extends it with the sessions the worker lock serialises:
  `run_worker_once` (`StartWorker` to `Refresh`, then a requeue) and
  `continue_manual_prerequisite_issue` (`StartContinue`, then the same); the
  checkpoint callback (`FinishTask`, `OpenRepair`, `CheckRepair`, `WriteLocal`,
  `PostCheckpoint`, then a requeue); the commands without a lock (`command`); and
  the reviewers, who close issues, retry blocked ones and decide repairs, as
  `docs/plans/github-issue-plan-worker.md` tells them to. `done` (work that was
  accepted) and `dropped` (pending labels that a command without a lock erased)
  are history variables.

Left out: a second publication of the plan, inline plan adjustments (their
failure is `RejectClaim`), comments nobody reads back, the waits and retries of
the GitHub client, the delay with which GitHub lists a change, and a merged repair
whose manifest differs from the one its pull request carried (reconciling it raises
in every session). `Refresh` reads the issue and posts the comment in one step:
commands and reviewers, who may change the issue in between, neither read nor write
that comment, so a change in between has the same effect as one after it.

### ExecutionRuntime

The ledger of actions of one execution. `doc` is `state.json` as far as
obligations, completed keys, version and phase go; every process has its copy
`snap`, its `kernel` (lifecycle events, open obligations, how many events were
saved), the transaction it collects (`queue`) and its conflicts so far
(`attempt`). Appending to the document is one step that succeeds at the version it
names; how it is done is ExecutionStore's business, and `EventStream`, which that
module implements, is the interface between the two.

* The step runner: `Propose` or `RefuseProposal`, a save, the start, a save,
  `Execute` or `ExecuteFails`, a save. A save is `sync_kernel`: `SyncKernel`, or
  `SyncConflict` and `SyncReplay`, which projects the whole kernel again, or
  `SyncRaises`. `RefuseProposal` is possible for every action, because the step
  contract, which is not modelled, may refuse any. `WorkflowStepRunner` is constructed
  by `execution/acceptance.py` and the tests only; the built-in tools
  (`execution/builtin_tools.py`) reach the capability half through `invoke_adapter`.
* A capability: `StartInvoke` (readiness, key, obligations), `Invoked` or
  `InvokeFails`, and the transaction's `Commit` or `CommitConflict`.
* `Transition`: the gate in front of `confirm_readiness`.
* `ForeignAppend`: other commands that move the version and no obligation. A document
  created anew while a kernel lives, which a comment in `sync_kernel` gives as the
  reason for its replay, is outside the model.
* `Open`, `Crash`: a process opens the execution, or is killed. `Concurrent`
  says whether two may have it open at once.

An obligation is named as in the code, by the length of the kernel's event list
when its source was proposed; these names are local to a process. `owed`, `acked`,
`executed` and `dropped` are history variables. An action that requires itself
closes its own obligation when `Invoked` carries it out, so that one is not owed.

### MC and proof modules

`MCExecutionStore`, `MCTurnDispatch`, `MCJobs`, `MCJobWorkers`, `MCIssueQueue` and
`MCExecutionRuntime` give TLC plans, relationships and, where no liveness is
checked, symmetry; the eight `...Proofs` modules hold the theorems.
Operators introduced by a comment "Mutant:" are plausible bugs; each property of
a passing run is violated when the definition that follows is replaced by one.

## Runs

| Run | Instance | Shows |
| --- | --- | --- |
| `store` | 2 workers, 2 events each in batches of 1 or 2, one kill anywhere, one founder | `TypeOK`, `AckedDurable`, `SnapshotIsPast`, `LogRebuildsState`, `StreamRefinement`, and with weak fairness `CommitReturns` |
| `store_recovery` | 1 event each | violation, see the findings |
| `turns` | 2 turns of two conversations, the first of which asks 2 questions, 2 supervisors, 2 lease generations, 1 dispatcher error, 1 stop or kill | `TypeOK`, `GenerationsAreExclusive`, `WaitingOnQuestion`, `StartedOnce`, `TurnsSettle`, and with fairness `AcceptedIsTaken`, `AnswerIsDelivered` |
| `turn_stranded` | 1 question a turn, 1 dispatcher error | violation, see the findings |
| `turn_two_workers` | 1 question a turn, 2 supervisors | violation, see the findings |
| `jobs` | 3 jobs with any dependencies, 2 clients, revisions up to 4 | `JobsTypeOK`, `DependenciesGate`, `PendingIsBlocked`, `RevisionMeansState` |
| `job_actions` | 1 job, 1 client, 3 actions, 2 supervisors, 3 generations, 2 retries | `TypeOK`, `OneActiveAction`, `ActionNotStranded`, `OwnerFindsAll`, `ResultsAreFinal` |
| `job_workers` | 1 job with 2 attempts, 2 workers, 2 supervisors, leases of 1, 2 and 3 ticks, 4 ticks, 3 generations | `TypeOK`, `OneWorkerPerAttempt`, `NoOrphanWorker`, `CancelledStaysWithWorker` |
| `issue_queue` | items 1 and 2 (2 after 1); repair 1 replaces item 1 by item 3, repair 2 frees item 2; 2 tasks, 1 command without a lock, no faults | `TypeOK`, `OneActiveRepair`, `PendingLabelStays`, `AwaitingHumanResumable`, `NoCheckpointUnderRepair`, `NotTakenUnderRepair` |
| `issue_repairs` | repair 1 only, 2 tasks, 1 fault | `DependenciesDone`, and with fairness `MergedRepairSettles`, `ClosedRepairRestores` |
| `repair_restore` | as `issue_repairs` with 1 task | violation, see the findings |
| `runtime` | 2 processes, one at a time; the built-in relationships of a review edit; 4 proposals, 3 foreign appends, 1 kill | `TypeOK`, `DebtIsDurable`, `KernelAgrees`, `PublishedWhenPaid`, `WrittenOnce` |

Why the bounds are enough: two events a worker let a commit meet the conflict
that a commit of the other causes and retry after it (the third conflict in a row,
which gives up, would need three); two workers and one kill give
every pair of an interrupted commit and a later load or append; two generations
give a takeover with a zombie of the old generation; a second question exercises
asking after a resume; a second turn exercises the
order of claims. `MayLoseLease` keeps a takeover possible below the bound on
generations, so that the bound itself never strands anything. Three jobs give
chains, forks and joins of dependencies; a third generation lets an action be
claimed, taken over and taken over again, three actions and two retries let
actions be given back and cancelled around that; worker leases of 1 and 3 ticks lie on
both sides of the supervisor's 2, so that both branches of the minimum occur, and
four ticks are two supervisor leases. Two tasks let a workflow reach a checkpoint
and find a repair at the next, and let a second item open a repair that meets the
first; the two repairs between them create, keep, repoint and supersede items, and
keep or change a contract. One fault is enough to interrupt any of the loops; with
more, `faults` would only hide them. Four proposals are an edit, its two
follow-ups and a publication; three foreign appends are what makes a transaction
give up.

Deadlock is checked for the store (an idle worker can always verify). The turn
and job runs switch it off: once every turn or action has ended, the lease bound is used up and no
process is down, the system may rest. So may a runtime that has used up its
proposals, and an issue queue whose tasks are spent and whose reviewers wait.

Fairness. `CommitReturns` assumes that a live process keeps running the
operation it is in (`WF` of `Step`). A blocking `FileLock` does not promise
fairness between waiters; weak fairness suffices here because the number of
events is bounded, so a waiting worker cannot be overtaken for ever. The turn
properties assume that a running loop keeps polling, that a service that is down
is started again, and that a lease nobody renews expires. No fairness is assumed
of the user, of reviewers, of crashes, of errors, or of the expiry of a lease that is renewed.
Job actions have no liveness property: nothing outside the tests calls
`dispatch_next` of `WorkspaceJobActionSupervisor`, and the code does not bound
retries. `OwnerFindsAll` says instead that whoever calls it with the live lease
finds every unfinished action.

The issue queue assumes that the worker is started again and again, and that a
session keeps going (`SF` of `StartWorker`, which competes with continue sessions
for the lock; `WF` of `Step`); a workflow ends (`SF` of `TaskReturns`) because
tasks are finitely many.

## Proofs

`ExecutionStoreProofs`, for any set of workers, any bounds, and at most one
founder (`OneFounder`; `create` takes no lock, so with two founders the
properties are false):

* `TypeCorrect`, `AckedCommitsAreDurable`, `SnapshotsArePast`, `LogIsHistory`, and
  the refinement `StoreIsStream`.
* The inductive invariant adds to the properties: `LockInv` (the workers inside
  an append are exactly the lock's holder), `OpInv` (what a worker that waits
  for the lock or holds it is doing), `DocInv` (from the version check to the
  write the document read is still the one on disk, so the write extends it) and
  `BirthInv` (until `state.json` exists only the founder runs). `StateStep`
  and `StateGrows` then say that state.json only ever grows, and both safety
  properties follow because prefixes of prefixes are prefixes. `LogIsHistory`
  needs one more: until a kill or a wipe the log is the stamped document, except
  between the two file replacements of the lock's holder, where it is one batch
  ahead.
* `StoreIsStream`: only `WriteState` changes the document that `EventStream` sees,
  and it appends a batch that the document does not have yet. That needs three
  facts about batches in flight: whatever is on disk or on its way was issued
  (`IssuedInv`), so a new batch is new everywhere; a commit that has not reached
  `state.json` is in no other process's append and in no journal but its own
  (`PendingInv`); and a journal or append whose expected version is the one on
  disk is not in the document (`VersionInv`), which is why the recovery of an
  old journal never applies a batch twice.

`TurnDispatchProofs`, for any finite set of turns and any supervisors and
bounds:

* `TypeCorrect`, `ExclusiveGenerations`, `WaitingTurnsHaveQuestions`,
  `UserMessageStartedOnce`, and the action property `FinishedTurnsStay`.
* The inductive invariant adds `LeaseInv` (a held generation is at most the
  lease's, and if it is the lease's the holder is its owner), `RevisionInv`
  (revision 0 is an absent turn, 1 an accepted one, and nothing has been started
  at either) and `ViewInv` (a copy of a turn with the current revision has the
  current state and run). Every change of a turn raises its revision
  (`TurnStep`), so the revision checks of `transition_turn` and
  `create_question` protect a turn from runners that the lease no longer fences.

`JobsProofs`, for any jobs, clients, attempts and dependencies:

* `JobTypes`, `DependenciesGateJobs`, `NoForgottenJob`, `RevisionsAreEnough`. The two
  dependency properties are proved together: that a success releases exactly the
  jobs it completes needs that the others were blocked. `SeenInv` (a copy is a
  past version of its row) carries the revision property; every change of a row
  raises its revision (`JobMove`).

`JobActionsProofs`, for any jobs, clients, supervisors and bounds:

* `ActionTypesHold`, `OneActionPerJob`, `NoStrandedAction`, `OwnerFindsUnfinished`,
  and the action property `ActionResultsAreFinal`. The invariant adds to the one of `JobsProofs`:
  `DispatchInv` (a supervisor inside `dispatch_next` has an intent, and at its end
  an outcome), `OneInUse` (two unfinished intents of one job are the same intent,
  the form of `OneActiveAction` without counting), `LeaseInv` (the owner of a live
  lease holds its generation) and `ClaimInv` (an intent claimed under the current
  live lease is being delivered by the owner of that lease). A takeover raises
  the generation past every claim, so an old claim can be claimed again.

`JobWorkersProofs`, for any workers, supervisors and lease lengths:

* `WorkerTypes`, `ExclusiveWorkers`, `WorkersWithinLease`, and the action property
  `CancelledAttemptsStay`. The invariant adds `GrantInv` (an unexpired grant
  agrees with the row of its attempt in worker and expiry), `RowInv` (a live row
  belongs to the current generation and ends within its lease, or to a released
  one) and `LeaseInv` (a lease reaches at most one length ahead, so a renewal
  never shortens it). Its steps on the job tables are steps of `Jobs`
  (`JobsStep`), so the invariant of `JobsProofs` carries over.

`IssueQueueProofs`, for any plan, any finite sets of items and repairs and any
number of faults, tasks and commands:

* `QueueTypes`, `OneRepairHolds` and the action property `NoCheckpointWhileHeld`.
  The type invariant needs `SessionInv` (a session that handles a repair has one;
  a checkpoint in progress belongs to `run_task`). `ActiveInv` adds to
  `OneActiveRepair` that while a session marks issues no other repair holds an
  issue it still has to mark, and that between the pause check and the
  checkpoint comment no repair but the reported one holds the item. It is
  inductive because only `MarkNote` adds an active repair, and every other step
  leaves the comments alone, resolves one or rewrites one in place (`Refresh`).
* `HumanWorkResumes`: an item that waits for a human has the manual checkpoint
  that its continuation needs, as long as no call has failed. `awaiting_human` is
  remembered in several places: the label, the labels a session has read, the
  comment of an active repair (the status to restore) and the status about to be
  written. `HumanInv` says of each of them that the checkpoint exists, except for
  the item whose session is under way; `CtxInv` says which part of a session each
  step belongs to. The theorem keeps the property's condition `faults = 0`: a
  failed call can leave the label without the comment.

`IssueRepairsProofs`, for any plan, any finite sets of items and repairs and any
number of tasks and commands, as long as no call has failed and nothing was killed:

* `LabelSurvives` (`PendingLabelStays`), the action property
  `NothingTakenUnderRepair` (`NotTakenUnderRepair`) and `DependenciesSatisfied`
  (`DependenciesDone`).
* The first two are theorems of `OrderlySpec`, which adds to the specification
  `RepairsInOrder`: GitHub numbers pull requests in the order they are opened, and
  a repair names an item of an earlier repair only once that item has an issue
  (the ids of new items are allocated per repair, `allocated_repair_item_id` in
  `planning/repair.py`). Without it they are false: when two undecided repairs
  both affect an item whose issue a third one creates only later, the decision on
  the one that marked it clears the label although the other is still open.
* `DependenciesSatisfied` is a theorem of `FittingSpec`, which adds `PatchesFit`: a
  repair that retires an item affects every item that depends on it, in the plan
  as it is or as a repair under way would make it, and makes no item depend on
  what it or an earlier repair retires. This is what `planning/repair.py` refuses a
  patch for (a stale base, "patch changes an item outside its declared impact",
  "dependency references unknown item"), but for two repairs under way at once,
  whose patches it does not see together: there it is an assumption on what
  reviewers merge.
* `TraceInv` holds whatever fails: comments, pull requests, issues and the place of
  the session in its loops agree (a pending comment is of a repair that is open and
  affects the issue, a resolved one of a decided repair, a reconciled one of a
  merged repair).
* `HoldInv` is the heart of the first two: a repair that any comment mentions has
  marked every issue it found there, unless its checkpoint is just doing so, and
  the repair that holds an issue is the newest that ever marked it. So a requeue
  that marks a repair meets only issues the repair already holds, and what the
  loops clear is not held by another.
* `LabelInv` follows the label through a requeue: the repairs are handled in the
  order of their numbers and all of them are found (`FoundInv`); an issue under a
  pending repair carries the label and rests, or the requeue has still to come to
  it (`ShownInv`); what a session has read since is no reason to undo that
  (`ReadInv`). Issues whose label a command without the lock erased (`dropped`) are
  excepted throughout, as in the properties.
* `ItemInv` is the invariant of `DependenciesSatisfied`: a merged repair is
  reconciled with all its issues before it lets one go (`MergeInv`); an issue
  closed without being done was retired by a repair, and an open one points to the
  newest revision it was reconciled with (`RetireInv`); patches fit (`PlanInv`); a
  closed dependency of an open issue is done, unless the repair under way has still
  to reach the issue (`DepsInv`); and from the list of ready issues to the task
  nothing is lost (`TaskInv`). The step that matters is the note that ends the
  reconciliation of an issue: a dependency retired by another repair would
  make that repair the newer one, and by `HoldInv` it is the older one
  (`NewestRepair`).
* The condition `faults = 0` is part of the first two properties. For
  `DependenciesDone` the theorem adds it, because the property is false after two
  faults: the session that marks the issues of a repair is killed before it comes
  to the dependent issue; once the repair is merged, the next one closes the
  superseded issue and dies; and a `continue_awaiting_ci_issue` that read the labels
  before all this erases the pending label, so that no session finds the repair
  again and the dependent issue, at its old revision, is promoted (TLC finds this
  with one repair, two tasks and one command). The run checks the property with one
  fault and no such command.

`ExecutionRuntimeProofs`, for any runtimes, actions, relationships with finitely
many follow-ups each, and any bounds:

* `RuntimeTypes`, whether or not two runtimes may be open at once.
* For `Concurrent = FALSE`: `DebtsAreKept`, `KernelFollowsDocument`, and the action
  properties `PublishingWaitsForDebts` and `WritesHappenOnce`. The hypothesis is
  needed: all four are false with two runtimes (see the findings).
* The invariant says of an open runtime: its kernel is the ledger of its events
  (`Accounted`: what the events mention is open in the kernel exactly if they left
  it open, and what the unsaved ones do not mention is open in the kernel exactly
  if it is open in the document, unless a transaction was dropped); its snapshot
  has the obligations and keys of the document (`SnapInv`); what the current action
  requires is open, and saved before the action runs (`ActInv`); what `invoke`
  checked on the snapshot still holds when the adapter runs (`InvokeInv`). The
  point of `Accounted` is that saving the unsaved events, and replaying all
  events after a conflict, both lead to the kernel's open obligations.

The proofs use the assumptions named in the modules (null values are not
processes, turns or jobs, bounds are naturals, lease lengths are positive,
`Turns`, the items, the repairs and the follow-ups of an action are finite); those
of `IssueRepairsProofs` also the two hypotheses on repairs stated there. The
properties were model-checked before they were proved.

The inductive invariants were model-checked too, on the instances of the runs
(the one of `HumanWorkResumes` with one fault; those of `IssueRepairsProofs`, but
for `PlanInv`, on three plans whose two repairs share items), before they were
proved. On the plan of `MCIssueQueue` the hypotheses of `FittingSpec` leave the
behaviours of interest: repair 1 is merged and reconciled, and item 2 runs at
revision 1 once item 3 is done.

Model-checked only:

* Liveness: `CommitReturns`, `AcceptedIsTaken`, `AnswerIsDelivered`,
  `MergedRepairSettles`, `ClosedRepairRestores`. Fairness and
  `ENABLED` are outside the prover's reach.
* `DependenciesDone` after a fault, on the instance of its run (see above).

## Findings

1. **A restart cannot always finish an interrupted commit**
   (`store_recovery`). A kill after `state.json` was replaced and before the
   journal was unlinked, or another process's append after a crash that left a
   journal, makes every later `load` raise `ExecutionStateConflict`; the journal
   stays.
2. **A saved answer can be stranded** (`turn_stranded`): a dispatch that raises
   before the answer is delivered leaves the claim with a live generation, and
   that generation does not claim it again.
3. **Two workflows for one turn** (`turn_two_workers`): `run_turn` is not fenced
   by the lease, and the delivery of an answer is replayed as a success to a
   second runner.
4. **A closed repair can hold an issue for ever** (`repair_restore`): the pending
   label, by which sessions find a repair, is removed before the resolved comment
   is written.

Observed while modelling, without a run of their own:

* A kill between `events.jsonl` and `state.json` leaves events whose sequence
  numbers are used again, and the log stops replaying (`LogRebuildsState` without
  its `crashes = 0`).
* `verify` reads document and log without the lock and can report an intact
  store as corrupt.
* `create` takes no lock: a second creation, or a late `CreateLog`, empties what
  another process has committed meanwhile (`wiped`, `OneFounder`).
* `transition` hands satisfied obligations to the phase gate as well
  (`GateOpen`): once an obligation was satisfied, `confirm_readiness`,
  `publish_pr` and `complete_feature` are refused for good.
* Two runtimes open on one execution at once (`Concurrent = TRUE`, reachable by
  finding 3) violate `DebtIsDurable`, `KernelAgrees`, `PublishedWhenPaid` and
  `WrittenOnce`: obligation names collide between processes, the replay of a
  kernel closes another process's obligation, and neither readiness nor keys are
  checked again at the commit.
* An action that `invoke` has carried out leaves neither its obligations nor its
  key when the process is killed before the commit, or the commit meets three
  conflicts.
* A closed issue that a merged repair affects keeps its pending comment if the
  reconciliation is interrupted in front of it and nothing labelled is left to
  find the repair by.

## What is not modelled

Everything that has no shared mutable state, or whose behaviour is that of a
language model or of an external program: the Procedrr parser and evaluator, the
planning service, Structrr validation, verification probes, model providers,
coding agents, the command line, templates, the code index, changelogs and the
browser interface. PROJECT.json lists each with the reason. Within the modelled
components: evidence, findings, artifacts, guidance and checkpoints with a state
snapshot; exceptions of the capability broker; message and event pages, snapshots for the browser, wording of
errors, timestamps other than lease expiry, and file-system errors other than a
kill.

## Plan

Done: ExecutionStore, EventStream, TurnDispatch, Jobs, JobActions, JobWorkers,
PlanRepair, IssueQueue and ExecutionRuntime with their runs, and the proofs above.

Every safety invariant and action property of a run is now stated by a theorem.

Models worth having next: the exception store of the capability broker (request,
decide, consume by brokers of two processes), evidence and its invalidation by
checkpoints, and a run with two founders of an execution. The runs are few and
expensive; a new question is to take the place of one that can be joined with
another.
