-------------------------- MODULE ExecutionRuntime --------------------------
(* The action ledger of an execution: the ActionKernel of each runtime      *)
(* process, the obligations, idempotency keys and phase of the durable       *)
(* document, and the two ways an action is carried out, by the step runner   *)
(* (WorkflowStepRunner.run, which saves every lifecycle step on its own) and *)
(* by ExecutionRuntime.invoke (one transaction per capability).  Appending   *)
(* to the document is one step here: ExecutionStore is about how it is done. *)
(*                                                                           *)
(* Abstracted: arguments, attributes and threads of actions (a follow-up     *)
(* always names the target it is required for), action records, artifacts,   *)
(* findings and evidence, which no guard below reads, and durable guidance,  *)
(* which adds obligations of the same form.  An action of the step runner    *)
(* that is itself a capability runs the two paths one inside the other; here *)
(* they follow each other.                                                   *)
EXTENDS Integers, Sequences, FiniteSets, SequencesExt

CONSTANTS
    Runtimes,       \* processes that open the execution
    Actions,        \* semantic actions
    FollowUps,      \* action -> the actions its relationships require
    Prerequisite,   \* action -> actions that must not be required with it
    Exempt,         \* housekeeping actions no obligation blocks
    Writes,         \* external repository writes, each with its key
    Publishing,     \* the writes that cross the publish boundary
    Concurrent,     \* whether two runtimes may be open at once
    MaxProposals,   \* bound on the actions proposed
    MaxForeign,     \* bound on appends by other commands
    MaxCrashes      \* bound on processes killed

ASSUME RuntimeAssumption ==
    /\ FollowUps \in [Actions -> SUBSET Actions]
    /\ \A a \in Actions : IsFiniteSet(FollowUps[a])
    /\ Prerequisite \in [Actions -> SUBSET Actions]
    /\ Exempt \subseteq Actions
    /\ Writes \subseteq Actions
    /\ Publishing \subseteq Writes
    /\ Concurrent \in BOOLEAN
    /\ MaxProposals \in Nat /\ MaxForeign \in Nat /\ MaxCrashes \in Nat

VARIABLES
    doc,        \* state.json
    pc,         \* where each process is
    snap,       \* its ExecutionRuntime.state
    kernel,     \* its ActionKernel and _projected_kernel_events
    act,        \* the action it carries out
    queue,      \* its _transaction_events, and the key they complete
    attempt,    \* conflicts of its _commit_transaction
    owed,       \* history: unpaid obligations of acknowledged actions
    acked,      \* history: writes whose invocation returned
    executed,   \* history: how often each write was carried out
    dropped,    \* history: processes whose transaction gave up
    proposals, foreign, crashes

local == <<pc, snap, kernel, act, queue, attempt>>
history == <<owed, acked, executed, dropped>>
counters == <<proposals, foreign, crashes>>
vars == <<doc, local, history, counters>>

-----------------------------------------------------------------------------
(* Obligations and lifecycle events. *)

\* An obligation is named by the length of the kernel's event list when its
\* source was proposed and by the follow-up it requires.
Ids == Nat \X Actions
NoId == <<>>
Requires(i) == i[2]

ActionEvent == [kind |-> "action", id |-> NoId]
Opened(i) == [kind |-> "opened", id |-> i]
Satisfied(i) == [kind |-> "satisfied", id |-> i]
LifecycleEvent == {ActionEvent} \cup [kind : {"opened", "satisfied"}, id : Ids]

Document == [version : Nat, open : SUBSET Ids, closed : SUBSET Ids,
             keys : SUBSET Writes, phase : {"review_pr", "confirm_readiness"}]
Kernel == [events : Seq(LifecycleEvent), open : SUBSET Ids, projected : Nat]
Queue == [events : Seq(LifecycleEvent), keys : SUBSET Writes]
Act == [action : Actions \cup {"none"}, ids : SUBSET Ids]

\* The obligations a batch is about, and those it leaves in a status.
Mentioned(es) == {es[k].id : k \in DOMAIN es} \ {NoId}
Left(es, kind) ==
    {i \in Mentioned(es) :
        \E k \in DOMAIN es :
            /\ es[k] = [kind |-> kind, id |-> i]
            /\ \A m \in DOMAIN es : m > k => es[m].id # i}

\* The document after a batch: an obligation has the status the last event
\* about it gives it, and one that was never opened is not added by its end.
Reduce(d, es, ks) ==
    LET known == d.open \cup d.closed
                    \cup {i \in Mentioned(es) : \E k \in DOMAIN es : es[k] = Opened(i)}
    IN [d EXCEPT !.version = @ + 1,
                 !.open = (@ \ Mentioned(es)) \cup Left(es, "opened"),
                 !.closed = (@ \ Mentioned(es)) \cup (Left(es, "satisfied") \cap known),
                 !.keys = @ \cup ks]

\* Mutant: a resumed runtime starts without obligations.
FreshKernel(d) == [events |-> <<>>, open |-> {}, projected |-> 0]

\* ActionKernel.restore_obligations on a kernel without events.
Hydrated(d) == [events |-> <<>>, open |-> d.open, projected |-> 0]
NoKernel == [events |-> <<>>, open |-> {}, projected |-> 0]

Record(k, es) == [k EXCEPT !.events = @ \o es]

Required(k) == {Requires(i) : i \in k.open}

\* ActionKernel.validate_proposal.
Admissible(k, a) ==
    \/ a \in Exempt
    \/ k.open = {}
    \/ a \in Required(k) /\ Prerequisite[a] \cap Required(k) = {}

\* The obligations a proposal opens.
NewIds(k, a) == {<<Len(k.events), f>> : f \in FollowUps[a]}

\* Mutant: the openings are not recorded for the document.
ProposedLocally(k, a) ==
    [Record(k, <<ActionEvent>>) EXCEPT !.open = @ \cup NewIds(k, a)]

\* ActionKernel.propose: the obligations are open before the action starts.
Proposed(k, a) ==
    [Record(k, <<ActionEvent>> \o SetToSeq({Opened(i) : i \in NewIds(k, a)})) EXCEPT
        !.open = @ \cup NewIds(k, a)]

\* ActionKernel.complete closes one obligation that requires the action, the
\* oldest in the code and any in the model, or none if there is none.
Closable(k, a) == {i \in k.open : Requires(i) = a}
Closings(k, a) == IF Closable(k, a) = {} THEN {NoId} ELSE Closable(k, a)
Completed(k, i) ==
    IF i = NoId THEN Record(k, <<ActionEvent>>)
    ELSE [Record(k, <<Satisfied(i), ActionEvent>>) EXCEPT !.open = @ \ {i}]

Pending(k) == SubSeq(k.events, k.projected + 1, Len(k.events))

\* Mutant: the counter runs ahead of the events.
ProjectedPast(k) == [k EXCEPT !.projected = Len(k.events) + 1]

\* _projected_kernel_events after a save.
Projected(k) == [k EXCEPT !.projected = Len(k.events)]

-----------------------------------------------------------------------------
NoAct == [action |-> "none", ids |-> {}]

Init ==
    /\ doc = [version |-> 0, open |-> {}, closed |-> {}, keys |-> {},
              phase |-> "review_pr"]
    /\ pc = [p \in Runtimes |-> "down"]
    /\ snap = [p \in Runtimes |-> doc]
    /\ kernel = [p \in Runtimes |-> NoKernel]
    /\ act = [p \in Runtimes |-> NoAct]
    /\ queue = [p \in Runtimes |-> [events |-> <<>>, keys |-> {}]]
    /\ attempt = [p \in Runtimes |-> 0]
    /\ owed = {} /\ acked = {}
    /\ executed = [w \in Writes |-> 0]
    /\ dropped = {}
    /\ proposals = 0 /\ foreign = 0 /\ crashes = 0

\* ExecutionRuntime.__init__ on an execution that exists.
Open(p) ==
    /\ pc[p] = "down"
    /\ Concurrent \/ \A q \in Runtimes : pc[q] = "down"
    /\ pc' = [pc EXCEPT ![p] = "idle"]
    /\ snap' = [snap EXCEPT ![p] = doc]
    /\ kernel' = [kernel EXCEPT ![p] = Hydrated(doc)]
    /\ dropped' = dropped \ {p}
    /\ UNCHANGED <<doc, act, queue, attempt, owed, acked, executed, counters>>

\* The process is killed.
Crash(p) ==
    /\ pc[p] # "down"
    /\ crashes < MaxCrashes
    /\ crashes' = crashes + 1
    /\ pc' = [pc EXCEPT ![p] = "down"]
    /\ snap' = [snap EXCEPT ![p] = doc]
    /\ kernel' = [kernel EXCEPT ![p] = NoKernel]
    /\ act' = [act EXCEPT ![p] = NoAct]
    /\ queue' = [queue EXCEPT ![p] = [events |-> <<>>, keys |-> {}]]
    /\ attempt' = [attempt EXCEPT ![p] = 0]
    /\ UNCHANGED <<doc, history, proposals, foreign>>

\* A command of another process appends events that are no obligations: a
\* capability decision, an artifact, the restore of a Git checkpoint.  They move
\* the version; a document that is created anew under a living kernel, the case
\* the comment in sync_kernel gives for its replay, is not modelled.
ForeignAppend ==
    /\ foreign < MaxForeign
    /\ foreign' = foreign + 1
    /\ doc' = [doc EXCEPT !.version = @ + 1]
    /\ UNCHANGED <<local, history, proposals, crashes>>

-----------------------------------------------------------------------------
(* The step runner. *)

\* The proposal is admissible; runner actions are no repository writes.
Propose(p, a) ==
    /\ pc[p] = "idle"
    /\ proposals < MaxProposals
    /\ a \notin Writes
    /\ Admissible(kernel[p], a)
    /\ kernel' = [kernel EXCEPT ![p] = Proposed(@, a)]
    /\ act' = [act EXCEPT ![p] = [action |-> a, ids |-> NewIds(kernel[p], a)]]
    /\ pc' = [pc EXCEPT ![p] = "proposed"]
    /\ proposals' = proposals + 1
    /\ UNCHANGED <<doc, snap, queue, attempt, history, foreign, crashes>>

\* A refused proposal is recorded as a failed action.  The kernel refuses what
\* open obligations block (~Admissible), and the step contract, which is not
\* modelled, may refuse any action.
RefuseProposal(p, a) ==
    /\ pc[p] = "idle"
    /\ proposals < MaxProposals
    /\ a \notin Writes
    /\ kernel' = [kernel EXCEPT ![p] = Record(@, <<ActionEvent>>)]
    /\ pc' = [pc EXCEPT ![p] = "ended"]
    /\ proposals' = proposals + 1
    /\ UNCHANGED <<doc, snap, act, queue, attempt, history, foreign, crashes>>

\* What follows a save of the kernel: the start of a proposed action, or the
\* observer's decision to drop it; its execution; the next round.
Continue(p) ==
    \/ /\ pc[p] = "proposed"
       /\ pc' = [pc EXCEPT ![p] = "started"]
       /\ kernel' = [kernel EXCEPT ![p] = Record(Projected(@), <<ActionEvent>>)]
    \/ /\ pc[p] \in {"proposed", "ended"}
       /\ pc' = [pc EXCEPT ![p] = "idle"]
       /\ kernel' = [kernel EXCEPT ![p] = Projected(@)]
    \/ /\ pc[p] = "started"
       /\ pc' = [pc EXCEPT ![p] = "execute"]
       /\ kernel' = [kernel EXCEPT ![p] = Projected(@)]

Saving(p) == pc[p] \in {"proposed", "started", "ended"}
UpToDate(p) == snap[p].version = doc.version

\* sync_kernel: the pending events are appended at the version it knows.
SyncKernel(p) ==
    /\ Saving(p)
    /\ attempt[p] = 0
    /\ UpToDate(p)
    /\ doc' = Reduce(doc, Pending(kernel[p]), {})
    /\ snap' = [snap EXCEPT ![p] = doc']
    /\ Continue(p)
    /\ UNCHANGED <<act, queue, attempt, history, counters>>

\* It met a conflict and loads the document.
SyncConflict(p) ==
    /\ Saving(p)
    /\ attempt[p] = 0
    /\ ~UpToDate(p)
    /\ snap' = [snap EXCEPT ![p] = doc]
    /\ attempt' = [attempt EXCEPT ![p] = 1]
    /\ UNCHANGED <<doc, pc, kernel, act, queue, history, counters>>

\* Mutant: the counter is advanced before the events are taken.
ReplayedLate(k) == Pending(Projected(k))

\* After a conflict the whole lifecycle of the kernel is projected again.
Replayed(k) == k.events

SyncReplay(p) ==
    /\ Saving(p)
    /\ attempt[p] = 1
    /\ UpToDate(p)
    /\ doc' = Reduce(doc, Replayed(kernel[p]), {})
    /\ snap' = [snap EXCEPT ![p] = doc']
    /\ attempt' = [attempt EXCEPT ![p] = 0]
    /\ Continue(p)
    /\ UNCHANGED <<act, queue, history, counters>>

\* A second conflict is raised.  Around the execution the runner records the
\* failure and saves again; elsewhere the exception ends the run.
SyncRaises(p) ==
    /\ Saving(p)
    /\ attempt[p] = 1
    /\ ~UpToDate(p)
    /\ attempt' = [attempt EXCEPT ![p] = 0]
    /\ IF pc[p] = "started"
       THEN /\ pc' = [pc EXCEPT ![p] = "ended"]
            /\ kernel' = [kernel EXCEPT ![p] = Record(@, <<ActionEvent>>)]
       ELSE /\ pc' = [pc EXCEPT ![p] = "idle"]
            /\ UNCHANGED kernel
    /\ UNCHANGED <<doc, snap, act, queue, history, counters>>

\* execute_action returns: the action is done and what it requires is owed.
Execute(p) ==
    /\ pc[p] = "execute"
    /\ \E i \in Closings(kernel[p], act[p].action) :
        /\ kernel' = [kernel EXCEPT ![p] = Completed(@, i)]
        /\ owed' = (owed \cup act[p].ids) \ {i}
    /\ pc' = [pc EXCEPT ![p] = "ended"]
    /\ UNCHANGED <<doc, snap, act, queue, attempt, acked, executed, dropped, counters>>

\* execute_action raises an execution error; the obligations stay.
ExecuteFails(p) ==
    /\ pc[p] = "execute"
    /\ kernel' = [kernel EXCEPT ![p] = Record(@, <<ActionEvent>>)]
    /\ pc' = [pc EXCEPT ![p] = "ended"]
    /\ UNCHANGED <<doc, snap, act, queue, attempt, history, counters>>

-----------------------------------------------------------------------------
(* Capabilities. *)

\* ReadinessEvaluator.evaluate: no obligation of the document is open.
Ready(d) == d.open = {}

\* Mutant: completed keys are not looked up.
NeverCompleted(d, a) == FALSE

\* The key of the write is in completed_idempotency_keys.
AlreadyCompleted(d, a) == a \in Writes /\ a \in d.keys

\* _invoke_in_transaction up to the broker: the proposal and the start of the
\* action are only queued.  A refused invocation changes nothing.
StartInvoke(p, a) ==
    /\ pc[p] = "idle"
    /\ proposals < MaxProposals
    /\ a \in Publishing => Ready(snap[p])
    /\ ~AlreadyCompleted(snap[p], a)
    /\ Admissible(kernel[p], a)
    /\ LET k == Record(Proposed(kernel[p], a), <<ActionEvent>>)
       IN /\ kernel' = [kernel EXCEPT ![p] = Projected(k)]
          /\ queue' = [queue EXCEPT ![p] = [events |-> Pending(k), keys |-> {}]]
    /\ act' = [act EXCEPT ![p] = [action |-> a, ids |-> NewIds(kernel[p], a)]]
    /\ pc' = [pc EXCEPT ![p] = "invoke"]
    /\ proposals' = proposals + 1
    /\ UNCHANGED <<doc, snap, attempt, history, foreign, crashes>>

\* The adapter has carried the action out.
Invoked(p) ==
    /\ pc[p] = "invoke"
    /\ \E i \in Closings(kernel[p], act[p].action) :
        LET k == Completed(kernel[p], i)
        IN /\ kernel' = [kernel EXCEPT ![p] = Projected(k)]
           /\ queue' = [queue EXCEPT ![p] =
                            [events |-> @.events \o Pending(k),
                             keys |-> {act[p].action} \cap Writes]]
           /\ owed' = owed \ {i}
           /\ act' = [act EXCEPT ![p].ids = @ \ {i}]
    /\ executed' = [w \in Writes |->
                        executed[w] + (IF w = act[p].action THEN 1 ELSE 0)]
    /\ pc' = [pc EXCEPT ![p] = "commit"]
    /\ UNCHANGED <<doc, snap, attempt, acked, dropped, counters>>

\* The adapter raises, or the broker does not resolve to it: the action has
\* failed, and the transaction is committed all the same.
InvokeFails(p) ==
    /\ pc[p] = "invoke"
    /\ LET k == Record(kernel[p], <<ActionEvent>>)
       IN /\ kernel' = [kernel EXCEPT ![p] = Projected(k)]
          /\ queue' = [queue EXCEPT ![p].events = @ \o Pending(k)]
    /\ act' = [act EXCEPT ![p] = NoAct]
    /\ pc' = [pc EXCEPT ![p] = "commit"]
    /\ UNCHANGED <<doc, snap, attempt, history, counters>>

EndTransaction(p) ==
    /\ pc' = [pc EXCEPT ![p] = "idle"]
    /\ queue' = [queue EXCEPT ![p] = [events |-> <<>>, keys |-> {}]]
    /\ attempt' = [attempt EXCEPT ![p] = 0]

\* _commit_transaction appends the queued events.
Commit(p) ==
    /\ pc[p] = "commit"
    /\ UpToDate(p)
    /\ doc' = Reduce(doc, queue[p].events, queue[p].keys)
    /\ snap' = [snap EXCEPT ![p] = doc']
    /\ EndTransaction(p)
    /\ owed' = owed \cup act[p].ids
    /\ acked' = acked \cup queue[p].keys
    /\ UNCHANGED <<kernel, act, executed, dropped, counters>>

\* It loads the document after a conflict; the third conflict is raised, and
\* the queued events are lost.
CommitConflict(p) ==
    /\ pc[p] = "commit"
    /\ ~UpToDate(p)
    /\ IF attempt[p] < 2
       THEN /\ snap' = [snap EXCEPT ![p] = doc]
            /\ attempt' = [attempt EXCEPT ![p] = @ + 1]
            /\ UNCHANGED <<pc, queue, dropped>>
       ELSE /\ EndTransaction(p)
            /\ dropped' = dropped \cup {p}
            /\ UNCHANGED snap
    /\ UNCHANGED <<doc, kernel, act, owed, acked, executed, counters>>

-----------------------------------------------------------------------------
(* Phases. *)

\* The obligations that transition hands to PhaseController.evaluate: all of
\* the document, satisfied ones too, and the open ones of the kernel.
GateOpen(p) == snap[p].open \cup snap[p].closed \cup kernel[p].open = {}

\* ExecutionRuntime.transition to confirm_readiness; a conflict is raised and
\* leaves the stale snapshot in place.
Transition(p) ==
    /\ pc[p] = "idle"
    /\ snap[p].phase = "review_pr"
    /\ GateOpen(p)
    /\ UpToDate(p)
    /\ doc' = [doc EXCEPT !.version = @ + 1, !.phase = "confirm_readiness"]
    /\ snap' = [snap EXCEPT ![p] = doc']
    /\ UNCHANGED <<pc, kernel, act, queue, attempt, history, counters>>

-----------------------------------------------------------------------------
Step(p) ==
    \/ Open(p) \/ Crash(p)
    \/ \E a \in Actions : Propose(p, a) \/ RefuseProposal(p, a) \/ StartInvoke(p, a)
    \/ SyncKernel(p) \/ SyncConflict(p) \/ SyncReplay(p) \/ SyncRaises(p)
    \/ Execute(p) \/ ExecuteFails(p)
    \/ Invoked(p) \/ InvokeFails(p) \/ Commit(p) \/ CommitConflict(p)
    \/ Transition(p)

Next == ForeignAppend \/ \E p \in Runtimes : Step(p)

Spec == Init /\ [][Next]_vars

-----------------------------------------------------------------------------
PCs == {"down", "idle", "proposed", "started", "execute", "ended", "invoke", "commit"}

TypeOK ==
    /\ doc \in Document
    /\ pc \in [Runtimes -> PCs]
    /\ snap \in [Runtimes -> Document]
    /\ kernel \in [Runtimes -> Kernel]
    /\ \A p \in Runtimes : kernel[p].projected <= Len(kernel[p].events)
    /\ queue \in [Runtimes -> Queue]
    /\ act \in [Runtimes -> Act]
    /\ attempt \in [Runtimes -> 0..2]
    /\ owed \subseteq Ids
    /\ acked \subseteq Writes
    /\ executed \in [Writes -> Nat]
    /\ dropped \subseteq Runtimes

(* Properties, for one open runtime at a time. *)

\* What an acknowledged action requires stays open in the document until the
\* follow-up is carried out: neither the replay of the whole kernel in
\* sync_kernel, nor a commit that is retried, nor a crash and the
\* restore_obligations of the next runtime loses it.
DebtIsDurable == owed \subseteq doc.open

\* A runtime between two actions blocks on exactly the open obligations of
\* the document (validate_proposal reads the kernel, readiness the document),
\* unless a transaction of it gave up after three conflicts and dropped what
\* sync_kernel had counted as saved.
KernelAgrees ==
    \A p \in Runtimes :
        (pc[p] = "idle" /\ p \notin dropped
            /\ Pending(kernel[p]) = <<>>)
            => kernel[p].open = doc.open

\* require_publish_readiness is evaluated on the runtime's snapshot, before
\* the action is proposed: still a pull request is published only when
\* nothing that was acknowledged is owed.
PublishedWhenPaid ==
    [][\A w \in Publishing :
        executed'[w] # executed[w] => owed = {}]_vars

\* An external write whose invocation returned is never carried out again: its
\* key is in completed_idempotency_keys of every later snapshot that invoke
\* consults, across conflicts, crashes and restarts.
WrittenOnce ==
    [][\A w \in Writes : executed'[w] # executed[w] => w \notin acked]_vars
=============================================================================
