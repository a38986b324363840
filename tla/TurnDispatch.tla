---------------------------- MODULE TurnDispatch ----------------------------
(***************************************************************************)
(* Durable chat turns of the local workspace and the supervisors that run  *)
(* them: the turn, question, dispatch-intent and supervisor-lease tables   *)
(* of WorkspaceStore (packages/local/.../workspace.py), the dispatch loop  *)
(* of WorkspaceTurnDispatchRuntime and WorkspaceTurnDispatchSupervisor,    *)
(* and WorkspaceChatTurnRunner.run_turn (workrr/workspace_chat_turn.py).   *)
(*                                                                         *)
(* Every store operation is one SQLite transaction (BEGIN IMMEDIATE), so   *)
(* it is one action.  Between two operations of a supervisor anything may  *)
(* happen: its lease may expire and another service process take over, the *)
(* user may answer, its process may be killed.  Wall-clock time appears    *)
(* only as the moment at which a lease stops being live.                   *)
(***************************************************************************)
EXTENDS Naturals, FiniteSets

CONSTANTS
    Turns,            \* turn identifiers
    Conversation,     \* the conversation of each turn
    Supervisors,      \* service processes that run a dispatch loop
    Nobody,           \* owner of a lease whose process is gone
    MaxQuestions,     \* bound: how many questions each turn asks
    MaxGenerations,   \* bound: lease generations, so finitely many takeovers
    MaxFailures,      \* bound: dispatches that raise before the turn is touched
    MaxCrashes        \* bound: service processes stopped or killed

ASSUME TurnsAssumption ==
    /\ Nobody \notin Supervisors
    /\ Nobody \notin Turns
    /\ IsFiniteSet(Turns)
    /\ MaxQuestions \in [Turns -> Nat]
    /\ MaxGenerations \in Nat
    /\ MaxFailures \in Nat
    /\ MaxCrashes \in Nat

VARIABLES
    turn,        \* turns table: state, revision and run binding of each turn
    question,    \* questions table: the latest question of each turn
    intent,      \* turn_dispatch_intents table
    lease,       \* the supervisor_lease row
    pc,          \* where each dispatch loop is
    held,        \* the lease generation a process believes it holds; 0 if none
    job,         \* the turn a process is dispatching and what it has read of it
    failures,    \* dispatches that have raised so far
    crashes,     \* processes stopped or killed so far
    starts       \* workflow invocations begun from the user message (history)

store == <<turn, question, intent, lease>>
budget == <<failures, crashes>>
vars == <<store, pc, held, job, budget, starts>>

-----------------------------------------------------------------------------
(* Rows. *)

Active == {"accepted", "running", "waiting"}
Terminal == {"succeeded", "failed"}

\* run stands for the pair (run_id, attempt_id), minted once per start.
TurnRow == [state : {"absent"} \cup Active \cup Terminal, revision : Nat,
            run : (Supervisors \X Nat) \cup {<<>>}]

\* n numbers the questions of a turn; its revision follows from its state.
QuestionRow == [n : Nat, state : {"none", "open", "answered", "delivered", "cancelled"}]

\* A claim identifier is minted for each dispatch.  A process dispatches one
\* turn at a time, so the claimant and its generation identify the claim.
IntentRow == [state : {"none", "pending", "claimed"}, by : Supervisors \cup {Nobody},
              generation : Nat, created : Nat]

LeaseRow == [owner : Supervisors \cup {Nobody}, generation : Nat, live : BOOLEAN]

NoTurn == [state |-> "absent", revision |-> 0, run |-> <<>>]
NoQuestion == [n |-> 0, state |-> "none"]
NoIntent == [state |-> "none", by |-> Nobody, generation |-> 0, created |-> 0]
NoJob == [turn |-> Nobody, view |-> NoTurn, asked |-> 0, outcome |-> "none"]

Unresolved(t) == question[t].state \in {"open", "answered"}

\* Mutant: the claim is kept.
KeepClaim(row) == row

\* An intent that is given back to whoever claims next.
Requeued(row) == [row EXCEPT !.state = "pending", !.by = Nobody, !.generation = 0]

Init ==
    /\ turn = [t \in Turns |-> NoTurn]
    /\ question = [t \in Turns |-> NoQuestion]
    /\ intent = [t \in Turns |-> NoIntent]
    /\ lease = [owner |-> Nobody, generation |-> 0, live |-> FALSE]
    /\ pc = [s \in Supervisors |-> "idle"]
    /\ held = [s \in Supervisors |-> 0]
    /\ job = [s \in Supervisors |-> NoJob]
    /\ failures = 0
    /\ crashes = 0
    /\ starts = [t \in Turns |-> 0]

-----------------------------------------------------------------------------
(* The browser: submitting a message and answering a question. *)

\* create_turn: the conversation has no active turn; the turn and its pending
\* dispatch intent are committed together.
CreateTurn(t) ==
    /\ turn[t].state = "absent"
    /\ \A u \in Turns : Conversation[u] = Conversation[t] => turn[u].state \notin Active
    /\ turn' = [turn EXCEPT ![t] = [state |-> "accepted", revision |-> 1, run |-> <<>>]]
    /\ intent' = [intent EXCEPT ![t] =
                    [state |-> "pending", by |-> Nobody, generation |-> 0,
                     created |-> Cardinality({u \in Turns : turn[u].state # "absent"})]]
    /\ UNCHANGED <<question, lease, pc, held, job, budget, starts>>

\* answer_question: whatever claim there is on the turn is dropped.
AnswerQuestion(t) ==
    /\ question[t].state = "open"
    /\ question' = [question EXCEPT ![t].state = "answered"]
    /\ intent' = [intent EXCEPT ![t] =
                    IF @.state = "none" THEN @ ELSE Requeued(@)]
    /\ UNCHANGED <<turn, lease, pc, held, job, budget, starts>>

-----------------------------------------------------------------------------
(* The supervisor lease. *)

LeaseMatches(s) == lease.owner = s /\ lease.generation = held[s] /\ lease.live

\* A takeover always remains possible below the bound.
MayLoseLease == lease.generation < MaxGenerations

\* Time passes the expiry of the lease before a renewal.
ExpireLease ==
    /\ lease.live
    /\ MayLoseLease
    /\ lease' = [lease EXCEPT !.live = FALSE]
    /\ UNCHANGED <<turn, question, intent, pc, held, job, budget, starts>>

\* Mutant: a live lease of another supervisor is no obstacle.
AlwaysFree(s) == TRUE

LeaseFree(s) == ~lease.live \/ lease.owner = s

\* acquire_supervisor_lease, called by the loop while it holds no lease.
AcquireLease(s) ==
    /\ pc[s] = "idle"
    /\ held[s] = 0
    /\ LeaseFree(s)
    /\ LET g == IF lease.live THEN lease.generation ELSE lease.generation + 1 IN
        /\ g <= MaxGenerations
        /\ lease' = [owner |-> s, generation |-> g, live |-> TRUE]
        /\ held' = [held EXCEPT ![s] = g]
    /\ UNCHANGED <<turn, question, intent, pc, job, budget, starts>>

\* renew_supervisor_lease refuses: the loop falls back to standby.  (A renewal
\* that succeeds only moves the expiry.)
LoseLease(s) ==
    /\ pc[s] = "idle"
    /\ held[s] # 0
    /\ ~LeaseMatches(s)
    /\ held' = [held EXCEPT ![s] = 0]
    /\ UNCHANGED <<store, pc, job, budget, starts>>

\* stop() lets the active dispatch return and releases the lease if it is
\* still this generation's.
Stop(s) ==
    /\ pc[s] = "idle"
    /\ crashes < MaxCrashes /\ MayLoseLease
    /\ crashes' = crashes + 1
    /\ lease' = IF held[s] # 0 /\ lease.owner = s /\ lease.generation = held[s]
                THEN [lease EXCEPT !.live = FALSE, !.owner = Nobody]
                ELSE [lease EXCEPT !.owner = IF @ = s THEN Nobody ELSE @]
    /\ held' = [held EXCEPT ![s] = 0]
    /\ pc' = [pc EXCEPT ![s] = "down"]
    /\ UNCHANGED <<turn, question, intent, job, failures, starts>>

\* A killed process leaves its lease to expire; its restart has a new
\* supervisor_id, so nobody matches the old row any more.
Crash(s) ==
    /\ pc[s] # "down"
    /\ crashes < MaxCrashes /\ MayLoseLease
    /\ crashes' = crashes + 1
    /\ lease' = [lease EXCEPT !.owner = IF @ = s THEN Nobody ELSE @]
    /\ held' = [held EXCEPT ![s] = 0]
    /\ job' = [job EXCEPT ![s] = NoJob]
    /\ pc' = [pc EXCEPT ![s] = "down"]
    /\ UNCHANGED <<turn, question, intent, failures, starts>>

Start(s) ==
    /\ pc[s] = "down"
    /\ pc' = [pc EXCEPT ![s] = "idle"]
    /\ UNCHANGED <<store, held, job, budget, starts>>

-----------------------------------------------------------------------------
(* Claiming: claim_next_turn_dispatch under the supervisor's generation. *)

Goto(s, where) == pc' = [pc EXCEPT ![s] = where]

\* There is something to dispatch: an unstarted turn or a saved answer.
Due(t) ==
    \/ turn[t].state = "accepted"
    \/ turn[t].state = "waiting" /\ question[t].state = "answered"

\* Mutant: a claim is never taken over.
OnlyPending(t, g) == Due(t) /\ intent[t].state = "pending"

\* Due turns whose intent is not claimed by this generation.
Eligible(t, g) ==
    /\ Due(t)
    /\ intent[t].state # "none"
    /\ intent[t].state = "pending" \/ intent[t].generation # g

Claim(s) ==
    /\ pc[s] = "idle"
    /\ held[s] # 0
    /\ LeaseMatches(s)
    /\ \E t \in Turns :
        /\ Eligible(t, held[s])
        /\ \A u \in Turns : Eligible(u, held[s]) => intent[t].created <= intent[u].created
        /\ intent' = [intent EXCEPT ![t].state = "claimed", ![t].by = s,
                                    ![t].generation = held[s]]
        /\ job' = [job EXCEPT ![s] = [NoJob EXCEPT !.turn = t]]
    /\ Goto(s, "dispatch")
    /\ UNCHANGED <<turn, question, lease, held, budget, starts>>

-----------------------------------------------------------------------------
(* WorkspaceChatTurnRunner.run_turn.  None of it is fenced by the lease. *)

\* Mutant: no optimistic concurrency control.
AnyRevision(s) == TRUE

\* The revision a process read is still the turn's: what transition_turn and
\* create_question demand of every request.
Fresh(s) == turn[job[s].turn].revision = job[s].view.revision

\* run_turn reads the turn and picks its branch.
ReadTurn(s) ==
    /\ pc[s] = "dispatch"
    /\ LET t == job[s].turn IN
        /\ job' = [job EXCEPT ![s].view = turn[t]]
        /\ Goto(s, CASE turn[t].state = "accepted" -> "start"
                     [] turn[t].state = "waiting" -> "list"
                     [] OTHER -> "raised")
    /\ UNCHANGED <<store, held, budget, starts>>

\* The repository registry or the store raises before the turn is started.
DispatcherRaises(s) ==
    /\ pc[s] \in {"dispatch", "start"}
    /\ failures < MaxFailures
    /\ failures' = failures + 1
    /\ Goto(s, "raised")
    /\ UNCHANGED <<store, held, job, crashes, starts>>

\* _start_turn: transition_turn to RUNNING, binding a fresh run, refused when
\* the revision moved.
StartTurn(s) ==
    /\ pc[s] = "start"
    /\ LET t == job[s].turn IN
        \/ /\ Fresh(s)
           /\ turn' = [turn EXCEPT ![t] = [state |-> "running", revision |-> @.revision + 1,
                                           run |-> <<s, held[s]>>]]
           /\ job' = [job EXCEPT ![s].view = turn'[t]]
           /\ starts' = [starts EXCEPT ![t] = @ + 1]
           /\ Goto(s, "work")
        \/ /\ ~Fresh(s)
           /\ Goto(s, "raised")
           /\ UNCHANGED <<turn, job, starts>>
    /\ UNCHANGED <<question, intent, lease, held, budget>>

\* _answered_question lists the undelivered answer of this turn and run.
ListAnswers(s) ==
    /\ pc[s] = "list"
    /\ LET t == job[s].turn
           found == question[t].state = "answered" /\ turn[t].run = job[s].view.run
       IN
        \/ /\ found
           /\ job' = [job EXCEPT ![s].asked = question[t].n]
           /\ Goto(s, "deliver")
        \/ /\ ~found
           /\ Goto(s, "finish")
           /\ UNCHANGED job
    /\ UNCHANGED <<store, held, budget, starts>>

\* mark_question_answer_delivered.  The request, and with it the receipt, is a
\* function of the question: once the answer has been delivered the identical
\* request is replayed as a success, whoever sends it.
DeliverAnswer(s) ==
    /\ pc[s] = "deliver"
    /\ LET t == job[s].turn
           current == question[t].n = job[s].asked
       IN
        \/ /\ current
           /\ question[t].state = "answered"
           /\ question' = [question EXCEPT ![t].state = "delivered"]
           /\ turn' = [turn EXCEPT ![t].state = "running", ![t].revision = @ + 1]
           /\ Goto(s, "resume")
        \/ /\ ~current \/ question[t].state = "delivered"
           /\ Goto(s, "resume")
           /\ UNCHANGED <<turn, question>>
        \/ /\ current
           /\ question[t].state = "cancelled"
           /\ Goto(s, "raised")
           /\ UNCHANGED <<turn, question>>
    /\ UNCHANGED <<intent, lease, held, job, budget, starts>>

\* The turn is read again before the workflow is resumed with the answer.
ResumeTurn(s) ==
    /\ pc[s] = "resume"
    /\ job' = [job EXCEPT ![s].view = turn[job[s].turn]]
    /\ Goto(s, "work")
    /\ UNCHANGED <<store, held, budget, starts>>

-----------------------------------------------------------------------------
(* The workflow (run_procedrr_workflow_chat) and its callbacks: what it does *)
(* is abstracted to the questions it asks and the ways it can end.           *)

Returned(s, outcome) ==
    /\ job' = [job EXCEPT ![s].outcome = outcome]
    /\ Goto(s, "returned")

\* create_question for the workflow's next question.  Its request identifier
\* is the turn and the event number, so a question already asked under it is
\* replayed when the content is the same and refused when it is not.  After the
\* question is saved the notifier or the workflow may still raise.
AskQuestion(s) ==
    /\ pc[s] = "work"
    /\ job[s].asked < MaxQuestions[job[s].turn]
    /\ LET t == job[s].turn
           n == job[s].asked + 1
           accepted == /\ Fresh(s)
                       /\ turn[t].state = "running"
                       /\ turn[t].run = job[s].view.run
                       /\ ~Unresolved(t)
       IN
        \/ /\ question[t].n < n
           /\ accepted
           /\ question' = [question EXCEPT ![t] = [n |-> n, state |-> "open"]]
           /\ turn' = [turn EXCEPT ![t].state = "waiting", ![t].revision = @ + 1]
           /\ \E outcome \in {"suspended", "raised"} : Returned(s, outcome)
        \/ /\ question[t].n < n
           /\ ~accepted
           /\ Returned(s, "raised")
           /\ UNCHANGED <<turn, question>>
        \/ /\ question[t].n >= n
           /\ \E outcome \in {"suspended", "raised"} : Returned(s, outcome)
           /\ UNCHANGED <<turn, question>>
    /\ UNCHANGED <<intent, lease, held, budget, starts>>

\* append_message and append_turn_activity refuse events of a turn that is no
\* longer active; the refusal is raised through the workflow.
ActivityRefused(s) ==
    /\ pc[s] = "work"
    /\ turn[job[s].turn].state \notin {"running", "waiting"}
    /\ Returned(s, "raised")
    /\ UNCHANGED <<store, held, budget, starts>>

\* The workflow ends: exit code 0, another exit code or an exception.
WorkflowEnds(s) ==
    /\ pc[s] = "work"
    /\ \E outcome \in {"completed", "raised"} : Returned(s, outcome)
    /\ UNCHANGED <<store, held, budget, starts>>

\* run_turn reads the turn again once the workflow has returned.
ReadLatest(s) ==
    /\ pc[s] = "returned"
    /\ job' = [job EXCEPT ![s].view = turn[job[s].turn]]
    /\ Goto(s, "settle")
    /\ UNCHANGED <<store, held, budget, starts>>

\* Mutant: a failed workflow cancels its turn.
SettlementCancels(outcome, state) ==
    CASE outcome = "completed" /\ state = "running" -> "succeeded"
      [] outcome = "suspended" /\ state = "waiting" -> "none"
      [] state \in Active -> "cancelled"
      [] OTHER -> "none"

\* What run_turn makes of the workflow's outcome and the turn it read.
Settlement(outcome, state) ==
    CASE outcome = "completed" /\ state = "running" -> "succeeded"
      [] outcome = "suspended" /\ state = "waiting" -> "none"
      [] state \in Active -> "failed"
      [] OTHER -> "none"

\* Mutant: the question of a failed turn is left open.
LeaveQuestion(t) == question

\* A turn that fails cancels its unresolved question.
Cancelled(t) ==
    IF Unresolved(t) THEN [question EXCEPT ![t].state = "cancelled"] ELSE question

\* transition_turn to the settlement; failing cancels an unresolved question.
SettleTurn(s) ==
    /\ pc[s] = "settle"
    /\ LET t == job[s].turn
           target == Settlement(job[s].outcome, job[s].view.state)
       IN
        \/ /\ target = "none"
           /\ Goto(s, "finish")
           /\ UNCHANGED <<turn, question>>
        \/ /\ target # "none"
           /\ Fresh(s)
           /\ turn' = [turn EXCEPT ![t].state = target, ![t].revision = @ + 1]
           /\ question' = IF target = "failed" THEN Cancelled(t) ELSE question
           /\ Goto(s, "finish")
        \/ /\ target # "none"
           /\ ~Fresh(s)
           /\ Goto(s, "raised")
           /\ UNCHANGED <<turn, question>>
    /\ UNCHANGED <<intent, lease, held, job, budget, starts>>

-----------------------------------------------------------------------------
\* finish_turn_dispatch, from the normal and the exceptional path of
\* dispatch_next: give an unstarted turn back, retire a finished one, leave a
\* parked or running one claimed, and touch nothing without the lease or when
\* an answer has requeued the turn.
FinishDispatch(s) ==
    /\ pc[s] \in {"finish", "raised"}
    /\ LET t == job[s].turn
           mine == /\ LeaseMatches(s)
                   /\ intent[t].state = "claimed"
                   /\ intent[t].by = s
                   /\ intent[t].generation = held[s]
       IN intent' =
            CASE mine /\ pc[s] = "raised" /\ turn[t].state = "accepted" ->
                    [intent EXCEPT ![t] = Requeued(@)]
              [] mine /\ turn[t].state \in Terminal -> [intent EXCEPT ![t] = NoIntent]
              [] OTHER -> intent
    /\ job' = [job EXCEPT ![s] = NoJob]
    /\ Goto(s, "idle")
    /\ UNCHANGED <<turn, question, lease, held, budget, starts>>

-----------------------------------------------------------------------------
\* The steps of a dispatch loop that is running.
Step(s) ==
    \/ AcquireLease(s) \/ LoseLease(s) \/ Claim(s)
    \/ ReadTurn(s) \/ StartTurn(s) \/ ListAnswers(s) \/ DeliverAnswer(s) \/ ResumeTurn(s)
    \/ AskQuestion(s) \/ ActivityRefused(s) \/ WorkflowEnds(s)
    \/ ReadLatest(s) \/ SettleTurn(s) \/ FinishDispatch(s)

Next ==
    \/ \E t \in Turns : CreateTurn(t) \/ AnswerQuestion(t)
    \/ ExpireLease
    \/ \E s \in Supervisors :
        Step(s) \/ DispatcherRaises(s) \/ Stop(s) \/ Crash(s) \/ Start(s)

Spec == Init /\ [][Next]_vars

\* A live loop keeps polling, a service process is restarted, and a lease that
\* nobody renews expires.  The user owes no answer.
FairSpec ==
    /\ Spec
    /\ \A s \in Supervisors : WF_vars(Step(s)) /\ WF_vars(Start(s))
    /\ WF_vars(lease.owner = Nobody /\ ExpireLease)

-----------------------------------------------------------------------------
PCs == {"down", "idle", "dispatch", "start", "list", "deliver", "resume", "work",
        "returned", "settle", "finish", "raised"}

JobRow == [turn : Turns \cup {Nobody}, view : TurnRow, asked : Nat,
           outcome : {"none", "completed", "suspended", "raised"}]

TypeOK ==
    /\ turn \in [Turns -> TurnRow]
    /\ question \in [Turns -> QuestionRow]
    /\ intent \in [Turns -> IntentRow]
    /\ lease \in LeaseRow
    /\ pc \in [Supervisors -> PCs]
    /\ held \in [Supervisors -> Nat]
    /\ job \in [Supervisors -> JobRow]
    /\ \A s \in Supervisors : pc[s] \notin {"down", "idle"} => job[s].turn \in Turns
    /\ failures \in 0..MaxFailures
    /\ crashes \in 0..MaxCrashes
    /\ starts \in [Turns -> Nat]

\* No two processes ever believe they hold the same generation of the lease,
\* through expiry, takeover, restart and release (acquire_supervisor_lease).
GenerationsAreExclusive ==
    \A r, s \in Supervisors : held[r] = held[s] /\ held[r] # 0 => r = s

\* A turn waits for input exactly while its question is open or answered: no
\* turn is parked on a question nobody can answer, and no finished turn leaves
\* a question open (create_question, mark_question_answer_delivered,
\* transition_turn).
WaitingOnQuestion ==
    \A t \in Turns : turn[t].state = "waiting" <=> Unresolved(t)

\* The workflow is started from a user message at most once, even when two
\* supervisors dispatch the same accepted turn (_start_turn).
StartedOnce == \A t \in Turns : starts[t] <= 1

\* Turn t is not stranded: the holder of the lease in force may claim it or is
\* dispatching it, or the lease is about to pass to another generation, which
\* may claim whatever it finds.
NotStranded(t) ==
    \/ ~lease.live
    \/ lease.owner = Nobody
    \/ Eligible(t, lease.generation)
    \/ \E s \in Supervisors :
            /\ intent[t].by = s
            /\ held[s] = lease.generation
            /\ job[s].turn = t

\* A saved answer is never stranded, whatever the dispatcher raises
\* (answer_question, claim_next_turn_dispatch, finish_turn_dispatch).
AnswerNotStranded == \A t \in Turns : question[t].state = "answered" => NotStranded(t)

\* A finished turn stays as it is, and a turn keeps the run it was bound to
\* (the transition table and run binding of transition_turn).
TurnsSettle ==
    [][\A t \in Turns :
        /\ turn[t].state \in Terminal => turn'[t] = turn[t]
        /\ turn[t].run # <<>> => turn'[t].run = turn[t].run]_vars

\* One workflow at a time runs for a turn (the lease that elects one active
\* dispatcher, WorkspaceTurnDispatchRuntime).
OneWorkerPerTurn ==
    \A r, s \in Supervisors :
        pc[r] = "work" /\ pc[s] = "work" /\ job[r].turn = job[s].turn => r = s

\* Every accepted turn is eventually taken up by a dispatch loop, through
\* crashes, restarts and takeovers (_run, claim_next_turn_dispatch).
AcceptedIsTaken == \A t \in Turns : (turn[t].state = "accepted") ~> (turn[t].state # "accepted")

\* Every answer is eventually delivered to the workflow, or its turn has ended,
\* or a dispatch has raised (answer_question, _answered_question,
\* mark_question_answer_delivered).
AnswerIsDelivered ==
    \A t \in Turns :
        (question[t].state = "answered") ~> (question[t].state # "answered" \/ failures > 0)
=============================================================================
