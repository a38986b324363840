------------------------- MODULE TurnDispatchProofs -------------------------
(***************************************************************************)
(* Safety of TurnDispatch for any number of turns, supervisors, questions, *)
(* takeovers, failures and crashes.                                        *)
(*                                                                         *)
(* The argument: a generation is taken only by raising the lease's, so no  *)
(* two processes hold the same one (LeaseInv).  Every change of a turn     *)
(* raises its revision, so a runner whose copy has the current revision    *)
(* has the current row (ViewInv); with it the revision check of            *)
(* transition_turn makes a run_turn that is no longer fenced by the lease  *)
(* harmless to the turn's state machine.                                   *)
(***************************************************************************)
EXTENDS TurnDispatch, FiniteSetTheorems, TLAPS

(* The inductive invariant. *)

LeaseInv ==
    \A s \in Supervisors :
        held[s] # 0 =>
            /\ held[s] <= lease.generation
            /\ held[s] = lease.generation => lease.owner = s

\* The revision tells whether a turn has been started.
RevisionInv ==
    \A t \in Turns :
        /\ turn[t].state = "absent" <=> turn[t].revision = 0
        /\ turn[t].state = "accepted" <=> turn[t].revision = 1
        /\ turn[t].revision <= 1 => turn[t].run = <<>> /\ starts[t] = 0

\* What a process has read of its turn is a past version of the row.
ViewInv ==
    \A s \in Supervisors :
        /\ job[s].turn \in Turns =>
              /\ job[s].view.revision <= turn[job[s].turn].revision
              /\ job[s].view.revision = turn[job[s].turn].revision =>
                    /\ job[s].view.state = turn[job[s].turn].state
                    /\ job[s].view.run = turn[job[s].turn].run
        /\ pc[s] = "start" => job[s].view.state = "accepted"

IInv ==
    /\ TypeOK /\ LeaseInv /\ GenerationsAreExclusive
    /\ RevisionInv /\ ViewInv /\ WaitingOnQuestion /\ StartedOnce

-----------------------------------------------------------------------------
(* Type correctness. *)

\* The initial tables are well-typed.
LEMMA TypeInit == Init => TypeOK
<1> SUFFICES ASSUME Init PROVE TypeOK
  OBVIOUS
<1>1. NoTurn \in TurnRow BY DEF NoTurn, TurnRow
<1>2. NoQuestion \in QuestionRow BY DEF NoQuestion, QuestionRow
<1>3. NoIntent \in IntentRow BY DEF NoIntent, IntentRow
<1>4. NoJob \in JobRow BY <1>1 DEF NoJob, JobRow
<1>5. lease \in LeaseRow BY DEF Init, LeaseRow
<1> QED BY <1>1, <1>2, <1>3, <1>4, <1>5, TurnsAssumption DEF Init, TypeOK, PCs

\* What a transition of a turn (transition_turn, create_question,
\* mark_question_answer_delivered) does to the turns table.
LEMMA TurnUpdate ==
  ASSUME TypeOK, NEW t \in Turns, NEW st \in Active \cup Terminal,
         turn' = [turn EXCEPT ![t].state = st, ![t].revision = @ + 1]
  PROVE  /\ turn' \in [Turns -> TurnRow]
         /\ turn'[t].state = st
         /\ turn'[t].revision = turn[t].revision + 1
         /\ turn'[t].run = turn[t].run
         /\ \A u \in Turns : u # t => turn'[u] = turn[u]
<1>1. turn[t] \in TurnRow /\ turn \in [Turns -> TurnRow] BY DEF TypeOK
<1> DEFINE row == [turn[t] EXCEPT !.state = st, !.revision = turn[t].revision + 1]
<1>2. /\ row \in TurnRow
      /\ row.state = st
      /\ row.revision = turn[t].revision + 1
      /\ row.run = turn[t].run
  BY <1>1 DEF TurnRow
<1>3. turn' = [turn EXCEPT ![t] = row]
  BY <1>1 DEF TurnRow
<1> HIDE DEF row
<1> QED BY <1>1, <1>2, <1>3

\* Every operation keeps tables and local variables well-typed.
LEMMA TypeStep == TypeOK /\ [Next]_vars => TypeOK'
<1> SUFFICES ASSUME TypeOK, [Next]_vars PROVE TypeOK'
  OBVIOUS
<1> USE DEF Requeued, Cancelled, LeaseFree, Fresh
<1>1. ASSUME NEW t \in Turns, CreateTurn(t) PROVE TypeOK'
  <2>1. [state |-> "accepted", revision |-> 1, run |-> <<>>] \in TurnRow
    BY DEF TurnRow, Active
  <2>2. turn' \in [Turns -> TurnRow] BY <1>1, <2>1 DEF CreateTurn, TypeOK, budget
  <2>3. Cardinality({u \in Turns : turn[u].state # "absent"}) \in Nat
    BY TurnsAssumption, FS_Subset, FS_CardinalityType
  <2>4. intent' \in [Turns -> IntentRow]
    BY <1>1, <2>3 DEF CreateTurn, TypeOK, IntentRow
  <2> QED BY <1>1, <2>2, <2>4 DEF CreateTurn, TypeOK, budget
<1>2. ASSUME NEW t \in Turns, AnswerQuestion(t) PROVE TypeOK'
  <2>1. question' \in [Turns -> QuestionRow]
    BY <1>2 DEF AnswerQuestion, TypeOK, QuestionRow
  <2>2. intent' \in [Turns -> IntentRow]
    BY <1>2, ZenonT(60) DEF AnswerQuestion, TypeOK, IntentRow
  <2> QED BY <1>2, <2>1, <2>2 DEF AnswerQuestion, TypeOK, budget
<1>3. ASSUME ExpireLease PROVE TypeOK'
  BY <1>3, TurnsAssumption DEF ExpireLease, TypeOK, LeaseRow, PCs, Goto, store, budget
<1>4. ASSUME NEW s \in Supervisors, AcquireLease(s) PROVE TypeOK'
  BY <1>4, TurnsAssumption DEF AcquireLease, TypeOK, LeaseRow, PCs, Goto, store, budget
<1>5. ASSUME NEW s \in Supervisors, LoseLease(s) PROVE TypeOK'
  BY <1>5, TurnsAssumption DEF LoseLease, TypeOK, LeaseRow, PCs, Goto, store, budget
<1>6. ASSUME NEW s \in Supervisors, Stop(s) PROVE TypeOK'
  <2>1. lease' \in LeaseRow
    BY <1>6 DEF Stop, TypeOK, LeaseRow
  <2>2. crashes' \in 0..MaxCrashes BY <1>6, TurnsAssumption DEF Stop, TypeOK
  <2>3. pc' \in [Supervisors -> PCs] /\ held' \in [Supervisors -> Nat]
    BY <1>6 DEF Stop, TypeOK, PCs
  <2>4. \A r \in Supervisors : pc'[r] \notin {"down", "idle"} => pc'[r] = pc[r]
    BY <1>6 DEF Stop, TypeOK
  <2> QED BY <1>6, <2>1, <2>2, <2>3, <2>4 DEF Stop, TypeOK
<1>7. ASSUME NEW s \in Supervisors, Crash(s) PROVE TypeOK'
  <2>1. NoJob \in JobRow BY DEF NoJob, JobRow, NoTurn, TurnRow
  <2> QED BY <1>7, <2>1, TurnsAssumption DEF Crash, TypeOK, PCs, LeaseRow
<1>8. ASSUME NEW s \in Supervisors, Start(s) PROVE TypeOK'
  BY <1>8, TurnsAssumption DEF Start, TypeOK, LeaseRow, PCs, Goto, store, budget
<1>9. ASSUME NEW s \in Supervisors, Claim(s) PROVE TypeOK'
  <2>1. PICK t \in Turns :
            /\ intent' = [intent EXCEPT ![t].state = "claimed", ![t].by = s,
                                        ![t].generation = held[s]]
            /\ job' = [job EXCEPT ![s] = [NoJob EXCEPT !.turn = t]]
    BY <1>9 DEF Claim
  <2>2. intent' \in [Turns -> IntentRow]
    <3>1. [intent[t] EXCEPT !.state = "claimed", !.by = s, !.generation = held[s]]
             \in IntentRow
      BY ZenonT(60) DEF TypeOK, IntentRow
    <3>2. intent' = [intent EXCEPT ![t] = [intent[t] EXCEPT !.state = "claimed", !.by = s,
                                                           !.generation = held[s]]]
      BY <2>1 DEF TypeOK
    <3> QED BY <3>1, <3>2 DEF TypeOK
  <2>3. [NoJob EXCEPT !.turn = t] \in JobRow BY DEF NoJob, JobRow, NoTurn, TurnRow
  <2>4. job' \in [Supervisors -> JobRow] /\ job'[s].turn = t
    BY <2>1, <2>3 DEF TypeOK, NoJob
  <2>5. \A r \in Supervisors : r # s => job'[r] = job[r] BY <2>1 DEF TypeOK
  <2> QED BY <1>9, <2>2, <2>4, <2>5 DEF Claim, Goto, TypeOK, PCs, budget
<1>10. ASSUME NEW s \in Supervisors, ReadTurn(s) PROVE TypeOK'
  <2>1. job' \in [Supervisors -> JobRow] /\ \A r \in Supervisors : job'[r].turn = job[r].turn
    <3>1. job[s].turn \in Turns BY <1>10 DEF ReadTurn, TypeOK
    <3>2. turn[job[s].turn] \in TurnRow BY <3>1 DEF TypeOK
    <3>3. job' = [job EXCEPT ![s].view = turn[job[s].turn]] BY <1>10 DEF ReadTurn
    <3> QED BY <3>2, <3>3 DEF TypeOK, JobRow
  <2> QED BY <1>10, <2>1 DEF ReadTurn, Goto, TypeOK, PCs, store, budget
<1>11. ASSUME NEW s \in Supervisors, DispatcherRaises(s) PROVE TypeOK'
  BY <1>11, TurnsAssumption DEF DispatcherRaises, TypeOK, LeaseRow, PCs, Goto, store, budget
<1>12. ASSUME NEW s \in Supervisors, StartTurn(s) PROVE TypeOK'
  <2>4. job[s].turn \in Turns BY <1>12 DEF StartTurn, TypeOK
  <2>5. [state |-> "running", revision |-> turn[job[s].turn].revision + 1,
         run |-> <<s, held[s]>>] \in TurnRow
    BY <2>4 DEF TypeOK, TurnRow, Active
  <2>1. turn' \in [Turns -> TurnRow] /\ starts' \in [Turns -> Nat]
    BY <1>12, <2>4, <2>5 DEF StartTurn, TypeOK
  <2>2. job' \in [Supervisors -> JobRow]
    BY <1>12, <2>1 DEF StartTurn, TypeOK, JobRow
  <2>3. \A r \in Supervisors : job'[r].turn = job[r].turn
    BY <1>12 DEF StartTurn, TypeOK, JobRow
  <2> QED BY <1>12, <2>1, <2>2, <2>3 DEF StartTurn, Goto, TypeOK, PCs, budget
<1>13. ASSUME NEW s \in Supervisors, ListAnswers(s) PROVE TypeOK'
  <2>1. job[s].turn \in Turns BY <1>13 DEF ListAnswers, TypeOK
  <2>2. question[job[s].turn].n \in Nat BY <2>1 DEF TypeOK, QuestionRow
  <2>3. job' \in [Supervisors -> JobRow] /\ \A r \in Supervisors : job'[r].turn = job[r].turn
    <3>1. CASE job' = job BY <3>1 DEF TypeOK
    <3>2. CASE job' = [job EXCEPT ![s].asked = question[job[s].turn].n]
      BY <2>2, <3>2 DEF TypeOK, JobRow
    <3> QED BY <1>13, <3>1, <3>2 DEF ListAnswers
  <2> QED BY <1>13, <2>3 DEF ListAnswers, Goto, TypeOK, PCs, store, budget
<1>14. ASSUME NEW s \in Supervisors, DeliverAnswer(s) PROVE TypeOK'
  <2>1. turn' \in [Turns -> TurnRow]
    <3>1. job[s].turn \in Turns BY <1>14 DEF DeliverAnswer, TypeOK
    <3>2. CASE turn' = turn BY <3>2 DEF TypeOK
    <3>3. CASE turn' = [turn EXCEPT ![job[s].turn].state = "running",
                                    ![job[s].turn].revision = @ + 1]
      <4>1. "running" \in Active \cup Terminal BY DEF Active
      <4> QED BY <3>1, <3>3, <4>1, TurnUpdate
    <3> QED BY <1>14, <3>2, <3>3 DEF DeliverAnswer
  <2>2. question' \in [Turns -> QuestionRow]
    BY <1>14 DEF DeliverAnswer, TypeOK, QuestionRow
  <2> QED BY <1>14, <2>1, <2>2 DEF DeliverAnswer, Goto, TypeOK, PCs, budget
<1>15. ASSUME NEW s \in Supervisors, ResumeTurn(s) PROVE TypeOK'
  <2>1. job' \in [Supervisors -> JobRow] /\ \A r \in Supervisors : job'[r].turn = job[r].turn
    BY <1>15, ZenonT(60) DEF ResumeTurn, TypeOK, JobRow, QuestionRow
  <2> QED BY <1>15, <2>1 DEF ResumeTurn, Goto, TypeOK, PCs, store, budget
<1>16. ASSUME NEW s \in Supervisors, AskQuestion(s) PROVE TypeOK'
  <2>1. turn' \in [Turns -> TurnRow]
    <3>1. job[s].turn \in Turns BY <1>16 DEF AskQuestion, TypeOK
    <3>2. CASE turn' = turn BY <3>2 DEF TypeOK
    <3>3. CASE turn' = [turn EXCEPT ![job[s].turn].state = "waiting",
                                    ![job[s].turn].revision = @ + 1]
      <4>1. "waiting" \in Active \cup Terminal BY DEF Active
      <4> QED BY <3>1, <3>3, <4>1, TurnUpdate
    <3> QED BY <1>16, <3>2, <3>3 DEF AskQuestion
  <2>2. question' \in [Turns -> QuestionRow]
    BY <1>16 DEF AskQuestion, TypeOK, QuestionRow, JobRow
  <2>3. job' \in [Supervisors -> JobRow] /\ \A r \in Supervisors : job'[r].turn = job[r].turn
    <3>1. PICK outcome \in {"suspended", "raised"} :
                job' = [job EXCEPT ![s].outcome = outcome]
      BY <1>16 DEF AskQuestion, Returned
    <3> QED BY <3>1 DEF TypeOK, JobRow
  <2>4. pc' = [pc EXCEPT ![s] = "returned"] BY <1>16 DEF AskQuestion, Returned, Goto
  <2> QED BY <1>16, <2>1, <2>2, <2>3, <2>4 DEF AskQuestion, TypeOK, PCs, budget
<1>17. ASSUME NEW s \in Supervisors, ActivityRefused(s) PROVE TypeOK'
  <2>1. job' \in [Supervisors -> JobRow] /\ \A r \in Supervisors : job'[r].turn = job[r].turn
    BY <1>17 DEF ActivityRefused, Returned, TypeOK, JobRow, QuestionRow
  <2> QED BY <1>17, <2>1 DEF ActivityRefused, Returned, Goto, TypeOK, PCs, store, budget
<1>18. ASSUME NEW s \in Supervisors, WorkflowEnds(s) PROVE TypeOK'
  <2>1. PICK outcome \in {"completed", "raised"} : Returned(s, outcome)
    BY <1>18 DEF WorkflowEnds
  <2>2. job' \in [Supervisors -> JobRow] /\ \A r \in Supervisors : job'[r].turn = job[r].turn
    BY <2>1 DEF Returned, TypeOK, JobRow
  <2> QED BY <1>18, <2>1, <2>2 DEF WorkflowEnds, Returned, Goto, TypeOK, PCs, store, budget
<1>19. ASSUME NEW s \in Supervisors, ReadLatest(s) PROVE TypeOK'
  <2>1. job' \in [Supervisors -> JobRow] /\ \A r \in Supervisors : job'[r].turn = job[r].turn
    BY <1>19, ZenonT(60) DEF ReadLatest, TypeOK, JobRow, QuestionRow
  <2> QED BY <1>19, <2>1 DEF ReadLatest, Goto, TypeOK, PCs, store, budget
<1>20. ASSUME NEW s \in Supervisors, SettleTurn(s) PROVE TypeOK'
  <2>1. turn' \in [Turns -> TurnRow]
    <3>1. Settlement(job[s].outcome, job[s].view.state) \in {"none"} \cup Terminal
      BY DEF Settlement, Terminal
    <3>2. job[s].turn \in Turns BY <1>20 DEF SettleTurn, TypeOK
    <3> DEFINE target == Settlement(job[s].outcome, job[s].view.state)
    <3>3. CASE turn' = turn BY <3>3 DEF TypeOK
    <3>4. CASE /\ target # "none"
               /\ turn' = [turn EXCEPT ![job[s].turn].state = target,
                                       ![job[s].turn].revision = @ + 1]
      <4>1. target \in Active \cup Terminal BY <3>1, <3>4
      <4> HIDE DEF target
      <4> QED BY <3>2, <3>4, <4>1, TurnUpdate
    <3> QED BY <1>20, <3>3, <3>4 DEF SettleTurn
  <2>2. question' \in [Turns -> QuestionRow]
    BY <1>20 DEF SettleTurn, TypeOK, QuestionRow
  <2> QED BY <1>20, <2>1, <2>2 DEF SettleTurn, Goto, TypeOK, PCs, budget
<1>21. ASSUME NEW s \in Supervisors, FinishDispatch(s) PROVE TypeOK'
  <2>1. NoJob \in JobRow BY DEF NoJob, JobRow, NoTurn, TurnRow
  <2>2. NoIntent \in IntentRow BY DEF NoIntent, IntentRow
  <2>3. intent' \in [Turns -> IntentRow]
    BY <1>21, <2>2, ZenonT(60) DEF FinishDispatch, TypeOK, IntentRow
  <2> QED BY <1>21, <2>1, <2>3 DEF FinishDispatch, Goto, TypeOK, PCs, budget
<1>22. CASE UNCHANGED vars
  BY <1>22 DEF vars, store, budget, TypeOK
<1> QED
  BY <1>1, <1>2, <1>3, <1>4, <1>5, <1>6, <1>7, <1>8, <1>9, <1>10, <1>11, <1>12, <1>13,
     <1>14, <1>15, <1>16, <1>17, <1>18, <1>19, <1>20, <1>21, <1>22 DEF Next, Step

-----------------------------------------------------------------------------
(* The lease. *)

\* Generations stay exclusive through acquisition, loss, release and crash.
LEMMA LeaseStep ==
  TypeOK /\ LeaseInv /\ GenerationsAreExclusive /\ [Next]_vars
    => LeaseInv' /\ GenerationsAreExclusive'
<1> SUFFICES ASSUME TypeOK, LeaseInv, GenerationsAreExclusive, [Next]_vars
             PROVE  LeaseInv' /\ GenerationsAreExclusive'
  OBVIOUS
<1> USE DEF LeaseInv, GenerationsAreExclusive, LeaseFree
<1>1. CASE ExpireLease
  BY <1>1 DEF ExpireLease, TypeOK, LeaseRow
<1>2. ASSUME NEW s \in Supervisors, AcquireLease(s)
      PROVE  LeaseInv' /\ GenerationsAreExclusive'
  <2> DEFINE g == IF lease.live THEN lease.generation ELSE lease.generation + 1
  <2>1. /\ lease'.owner = s
        /\ lease'.generation = g
        /\ held' = [held EXCEPT ![s] = g]
    BY <1>2 DEF AcquireLease
  <2>2. \A r \in Supervisors : r # s /\ held[r] # 0 => held[r] < g
    BY <1>2, TurnsAssumption DEF AcquireLease, TypeOK, LeaseRow
  <2>3. g \in Nat BY DEF TypeOK, LeaseRow
  <2> HIDE DEF g
  <2> QED BY <2>1, <2>2, <2>3 DEF TypeOK
<1>3. ASSUME NEW s \in Supervisors, LoseLease(s)
      PROVE  LeaseInv' /\ GenerationsAreExclusive'
  BY <1>3 DEF LoseLease, store, TypeOK
<1>4. ASSUME NEW s \in Supervisors, Stop(s) \/ Crash(s)
      PROVE  LeaseInv' /\ GenerationsAreExclusive'
  <2>1. /\ held' = [held EXCEPT ![s] = 0]
        /\ lease'.generation = lease.generation
        /\ lease.owner # s => lease'.owner = lease.owner
    BY <1>4 DEF Stop, Crash, TypeOK, LeaseRow
  <2> QED BY <2>1, TurnsAssumption DEF TypeOK
<1>5. CASE UNCHANGED <<lease, held>>
  BY <1>5
<1> QED
  BY <1>1, <1>2, <1>3, <1>4, <1>5, ZenonT(60)
     DEF Next, Step, vars, store, CreateTurn, AnswerQuestion, Start, Claim, ReadTurn,
         DispatcherRaises, StartTurn, ListAnswers, DeliverAnswer, ResumeTurn, AskQuestion,
         ActivityRefused, WorkflowEnds, ReadLatest, SettleTurn, FinishDispatch

-----------------------------------------------------------------------------
(* What a step may do to a turn. *)

\* The turn is left alone, created, started, or moved on by its own run.
TurnMoves(t) ==
    \/ turn'[t] = turn[t] /\ starts'[t] = starts[t]
    \/ /\ turn[t].state = "absent"
       /\ turn'[t] = [state |-> "accepted", revision |-> 1, run |-> <<>>]
       /\ starts'[t] = starts[t]
    \/ /\ turn[t].state = "accepted"
       /\ turn'[t].state = "running"
       /\ turn'[t].revision = turn[t].revision + 1
       /\ starts'[t] = starts[t] + 1
    \/ /\ turn[t].state \in Active
       /\ turn'[t].state \in {"running", "waiting"} \cup Terminal
       /\ turn'[t].revision = turn[t].revision + 1
       /\ turn'[t].run = turn[t].run
       /\ starts'[t] = starts[t]

\* Every operation moves every turn along its life cycle, although run_turn
\* acts on copies and is not fenced by the lease: the revision checks of
\* transition_turn and create_question refuse a stale copy.
LEMMA TurnStep ==
  ASSUME TypeOK, ViewInv, WaitingOnQuestion, [Next]_vars
  PROVE  \A t \in Turns : TurnMoves(t)
<1> USE DEF Fresh
<1>1. ASSUME NEW t \in Turns, CreateTurn(t) PROVE \A u \in Turns : TurnMoves(u)
  BY <1>1 DEF CreateTurn, TypeOK, TurnMoves
<1>2. ASSUME NEW s \in Supervisors, StartTurn(s) PROVE \A u \in Turns : TurnMoves(u)
  <2>1. CASE UNCHANGED <<turn, starts>> BY <2>1 DEF TurnMoves
  <2> DEFINE t == job[s].turn
  <2>2. CASE Fresh(s)
    <3>1. t \in Turns /\ turn[t].state = "accepted"
      BY <1>2, <2>2 DEF StartTurn, TypeOK, ViewInv
    <3>2. /\ turn' = [turn EXCEPT ![t] = [state |-> "running",
                         revision |-> turn[t].revision + 1, run |-> <<s, held[s]>>]]
          /\ starts' = [starts EXCEPT ![t] = @ + 1]
      BY <1>2, <2>2 DEF StartTurn
    <3> HIDE DEF t
    <3> QED BY <3>1, <3>2 DEF TypeOK, TurnMoves
  <2> QED BY <1>2, <2>1, <2>2 DEF StartTurn
<1>3. ASSUME NEW s \in Supervisors, DeliverAnswer(s) PROVE \A u \in Turns : TurnMoves(u)
  <2>1. CASE UNCHANGED <<turn, starts>> BY <2>1 DEF TurnMoves
  <2> DEFINE t == job[s].turn
  <2>2. CASE /\ question[t].state = "answered"
             /\ turn' = [turn EXCEPT ![t].state = "running", ![t].revision = @ + 1]
    <3>1. t \in Turns BY <1>3 DEF DeliverAnswer, TypeOK
    <3>2. turn[t].state = "waiting" BY <2>2, <3>1 DEF WaitingOnQuestion, Unresolved
    <3>3. "running" \in Active \cup Terminal BY DEF Active
    <3>4. starts' = starts BY <1>3 DEF DeliverAnswer
    <3> HIDE DEF t
    <3> QED BY <2>2, <3>1, <3>2, <3>3, <3>4, TurnUpdate DEF TurnMoves, Active
  <2> QED BY <1>3, <2>1, <2>2 DEF DeliverAnswer
<1>4. ASSUME NEW s \in Supervisors, AskQuestion(s) PROVE \A u \in Turns : TurnMoves(u)
  <2>1. CASE UNCHANGED <<turn, starts>> BY <2>1 DEF TurnMoves
  <2> DEFINE t == job[s].turn
  <2>2. CASE /\ turn[t].state = "running"
             /\ turn' = [turn EXCEPT ![t].state = "waiting", ![t].revision = @ + 1]
    <3>1. t \in Turns BY <1>4 DEF AskQuestion, TypeOK
    <3>3. "waiting" \in Active \cup Terminal BY DEF Active
    <3>4. starts' = starts BY <1>4 DEF AskQuestion
    <3> HIDE DEF t
    <3> QED BY <2>2, <3>1, <3>3, <3>4, TurnUpdate DEF TurnMoves, Active
  <2> QED BY <1>4, <2>1, <2>2 DEF AskQuestion
<1>5. ASSUME NEW s \in Supervisors, SettleTurn(s) PROVE \A u \in Turns : TurnMoves(u)
  <2>1. CASE UNCHANGED <<turn, starts>> BY <2>1 DEF TurnMoves
  <2> DEFINE t == job[s].turn
             target == Settlement(job[s].outcome, job[s].view.state)
  <2>2. CASE /\ target # "none"
             /\ Fresh(s)
             /\ turn' = [turn EXCEPT ![t].state = target, ![t].revision = @ + 1]
    <3>1. t \in Turns BY <1>5 DEF SettleTurn, TypeOK
    <3>2. target \in Terminal /\ job[s].view.state \in Active
      BY <2>2 DEF Settlement, Terminal, Active
    <3>3. turn[t].state \in Active BY <2>2, <3>1, <3>2 DEF ViewInv
    <3>4. starts' = starts BY <1>5 DEF SettleTurn
    <3>5. target \in Active \cup Terminal BY <3>2
    <3> HIDE DEF t, target
    <3> QED BY <2>2, <3>1, <3>2, <3>3, <3>4, <3>5, TurnUpdate, ZenonT(60) DEF TurnMoves
  <2> QED BY <1>5, <2>1, <2>2 DEF SettleTurn
<1>6. CASE UNCHANGED <<turn, starts>>
  BY <1>6 DEF TurnMoves
<1> QED
  BY <1>1, <1>2, <1>3, <1>4, <1>5, <1>6, ZenonT(60)
     DEF Next, Step, vars, store, AnswerQuestion, ExpireLease, AcquireLease, LoseLease,
         Stop, Crash, Start, Claim, ReadTurn, DispatcherRaises, ListAnswers, ResumeTurn,
         ActivityRefused, WorkflowEnds, ReadLatest, FinishDispatch

\* Revisions keep telling started turns from unstarted ones, and a turn is
\* started only once.
LEMMA RevisionStep ==
  ASSUME TypeOK, TypeOK', RevisionInv, StartedOnce, \A t \in Turns : TurnMoves(t)
  PROVE  RevisionInv' /\ StartedOnce'
<1>1. ASSUME NEW t \in Turns
      PROVE  /\ turn'[t].state = "absent" <=> turn'[t].revision = 0
             /\ turn'[t].state = "accepted" <=> turn'[t].revision = 1
             /\ turn'[t].revision <= 1 => turn'[t].run = <<>> /\ starts'[t] = 0
             /\ starts'[t] <= 1
  <2>1. TurnMoves(t) OBVIOUS
  <2>2. turn[t].revision \in Nat /\ starts[t] \in Nat BY DEF TypeOK, TurnRow
  <2>3. /\ turn[t].state = "absent" <=> turn[t].revision = 0
        /\ turn[t].state = "accepted" <=> turn[t].revision = 1
        /\ turn[t].revision <= 1 => turn[t].run = <<>> /\ starts[t] = 0
        /\ starts[t] <= 1
    BY DEF RevisionInv, StartedOnce
  <2> QED BY <2>1, <2>2, <2>3, SMTT(30) DEF TurnMoves, Active, Terminal
<1> QED BY <1>1 DEF RevisionInv, StartedOnce

-----------------------------------------------------------------------------
(* What a process knows of its turn. *)

\* A process keeps its copy, reads the row anew, claims a turn or drops it.
ViewMoves(s) ==
    \/ job'[s].turn = job[s].turn /\ job'[s].view = job[s].view
    \/ job'[s].turn = job[s].turn /\ job'[s].view = turn'[job[s].turn]
    \/ job'[s].turn \in Turns /\ turn[job'[s].turn].state # "absent" /\ job'[s].view = NoTurn
    \/ job'[s].turn \notin Turns

\* Every operation leaves the copies of the other processes alone.
LEMMA ViewMove ==
  ASSUME TypeOK, [Next]_vars PROVE \A s \in Supervisors : ViewMoves(s)
<1>1. ASSUME NEW s \in Supervisors,
             ReadTurn(s) \/ ResumeTurn(s) \/ ReadLatest(s)
      PROVE  \A r \in Supervisors : ViewMoves(r)
  <2>1. job' = [job EXCEPT ![s].view = turn[job[s].turn]] /\ turn' = turn
    BY <1>1 DEF ReadTurn, ResumeTurn, ReadLatest, store
  <2> QED BY <2>1 DEF TypeOK, JobRow, ViewMoves
<1>2. ASSUME NEW s \in Supervisors, StartTurn(s) PROVE \A r \in Supervisors : ViewMoves(r)
  <2>1. CASE job' = job BY <2>1 DEF ViewMoves
  <2>2. CASE job' = [job EXCEPT ![s].view = turn'[job[s].turn]]
    BY <2>2 DEF TypeOK, JobRow, ViewMoves
  <2> QED BY <1>2, <2>1, <2>2 DEF StartTurn
<1>3. ASSUME NEW s \in Supervisors, Claim(s) PROVE \A r \in Supervisors : ViewMoves(r)
  <2>1. PICK t \in Turns :
            /\ Eligible(t, held[s])
            /\ job' = [job EXCEPT ![s] = [NoJob EXCEPT !.turn = t]]
    BY <1>3 DEF Claim
  <2>2. turn[t].state # "absent" BY <2>1 DEF Eligible, Due
  <2>3. job'[s].turn = t /\ job'[s].view = NoTurn BY <2>1 DEF TypeOK, NoJob
  <2>4. \A r \in Supervisors : r # s => job'[r] = job[r] BY <2>1 DEF TypeOK
  <2> QED BY <2>2, <2>3, <2>4 DEF ViewMoves
<1>4. ASSUME NEW s \in Supervisors, FinishDispatch(s) \/ Crash(s)
      PROVE  \A r \in Supervisors : ViewMoves(r)
  <2>1. job' = [job EXCEPT ![s] = NoJob] BY <1>4 DEF FinishDispatch, Crash
  <2>2. NoJob.turn \notin Turns BY TurnsAssumption DEF NoJob
  <2> QED BY <2>1, <2>2 DEF TypeOK, ViewMoves
<1>5. ASSUME NEW s \in Supervisors, NEW o, Returned(s, o)
      PROVE  \A r \in Supervisors : ViewMoves(r)
  BY <1>5 DEF Returned, TypeOK, JobRow, ViewMoves
<1>6. ASSUME NEW s \in Supervisors, ListAnswers(s) PROVE \A r \in Supervisors : ViewMoves(r)
  BY <1>6 DEF ListAnswers, TypeOK, JobRow, ViewMoves
<1>7. CASE job' = job
  BY <1>7 DEF ViewMoves
<1>8. ASSUME NEW s \in Supervisors, AskQuestion(s) \/ ActivityRefused(s) \/ WorkflowEnds(s)
      PROVE  \A r \in Supervisors : ViewMoves(r)
  BY <1>5, <1>8 DEF AskQuestion, ActivityRefused, WorkflowEnds
<1> QED
  BY <1>1, <1>2, <1>3, <1>4, <1>6, <1>7, <1>8, ZenonT(60)
     DEF Next, Step, vars, CreateTurn, AnswerQuestion, ExpireLease, AcquireLease, LoseLease,
         Stop, Start, DispatcherRaises, DeliverAnswer, SettleTurn

\* A process is about to start a turn only after it has read it as accepted.
LEMMA StartView ==
  ASSUME TypeOK, ViewInv, [Next]_vars, NEW s \in Supervisors, pc'[s] = "start"
  PROVE  job'[s].view.state = "accepted"
<1>1. CASE ReadTurn(s)
  BY <1>1 DEF ReadTurn, Goto, TypeOK, JobRow
<1>2. CASE pc[s] = "start" /\ job'[s] = job[s]
  BY <1>2 DEF ViewInv
<1>3. ASSUME NEW r \in Supervisors, r # s,
             Step(r) \/ DispatcherRaises(r) \/ Stop(r) \/ Crash(r) \/ Start(r)
      PROVE  pc'[s] = pc[s] /\ job'[s] = job[s]
  BY <1>3, ZenonT(60)
     DEF TypeOK, Step, AcquireLease, LoseLease, Claim, ReadTurn, StartTurn, ListAnswers,
         DeliverAnswer, ResumeTurn, AskQuestion, ActivityRefused, WorkflowEnds, Returned,
         ReadLatest, SettleTurn, FinishDispatch, DispatcherRaises, Stop, Crash, Start, Goto
<1>4. ASSUME Step(s) \/ DispatcherRaises(s) \/ Stop(s) \/ Crash(s) \/ Start(s)
      PROVE  ReadTurn(s) \/ (pc[s] = "start" /\ job'[s] = job[s])
  BY <1>4, ZenonT(60)
     DEF TypeOK, Step, AcquireLease, LoseLease, Claim, StartTurn, ListAnswers,
         DeliverAnswer, ResumeTurn, AskQuestion, ActivityRefused, WorkflowEnds, Returned,
         ReadLatest, SettleTurn, FinishDispatch, DispatcherRaises, Stop, Crash, Start, Goto
<1>5. CASE UNCHANGED <<pc, job>>
  BY <1>5 DEF ViewInv
<1> QED
  BY <1>1, <1>2, <1>3, <1>4, <1>5 DEF Next, vars, CreateTurn, AnswerQuestion, ExpireLease

\* Copies stay past versions of the rows they were read from.
LEMMA ViewStep ==
  ASSUME TypeOK, TypeOK', RevisionInv, ViewInv, [Next]_vars,
         \A t \in Turns : TurnMoves(t)
  PROVE  ViewInv'
<1> SUFFICES ASSUME NEW s \in Supervisors, job'[s].turn \in Turns
             PROVE  /\ job'[s].view.revision <= turn'[job'[s].turn].revision
                    /\ job'[s].view.revision = turn'[job'[s].turn].revision =>
                          /\ job'[s].view.state = turn'[job'[s].turn].state
                          /\ job'[s].view.run = turn'[job'[s].turn].run
  BY StartView DEF ViewInv
<1> DEFINE t == job'[s].turn
<1>1. ViewMoves(s) BY ViewMove
<1>2. TurnMoves(t) OBVIOUS
<1>3. turn[t].revision \in Nat /\ turn'[t].revision \in Nat /\ job[s].view.revision \in Nat
  BY DEF TypeOK, TurnRow, JobRow
<1>4. CASE t = job[s].turn /\ job'[s].view = job[s].view
  <2>1. turn'[t] = turn[t] \/ turn'[t].revision > turn[t].revision
    BY <1>2, <1>3, SMTT(30) DEF TurnMoves, RevisionInv
  <2> QED BY <1>3, <1>4, <2>1 DEF ViewInv
<1>5. CASE job'[s].view = turn'[t]
  BY <1>3, <1>5
<1>6. CASE turn[t].state # "absent" /\ job'[s].view = NoTurn
  <2>1. turn'[t].revision > 0 BY <1>2, <1>3, <1>6 DEF TurnMoves, RevisionInv
  <2> QED BY <1>3, <1>6, <2>1 DEF NoTurn
<1> QED BY <1>1, <1>4, <1>5, <1>6 DEF ViewMoves

-----------------------------------------------------------------------------
(* Questions. *)

\* Asking, answering, delivering and cancelling a question move its turn in
\* the same transaction.
LEMMA WaitingStep ==
  ASSUME TypeOK, ViewInv, WaitingOnQuestion, [Next]_vars
  PROVE  WaitingOnQuestion'
<1> USE DEF WaitingOnQuestion, Unresolved, Fresh, Cancelled
<1>1. ASSUME NEW t \in Turns, CreateTurn(t) PROVE WaitingOnQuestion'
  BY <1>1 DEF CreateTurn, TypeOK
<1>2. ASSUME NEW t \in Turns, AnswerQuestion(t) PROVE WaitingOnQuestion'
  BY <1>2 DEF AnswerQuestion, TypeOK, QuestionRow
<1>3. ASSUME NEW s \in Supervisors, StartTurn(s) PROVE WaitingOnQuestion'
  <2>1. CASE turn' = turn BY <1>3, <2>1 DEF StartTurn
  <2> DEFINE t == job[s].turn
  <2>2. CASE Fresh(s)
    <3>1. t \in Turns /\ turn[t].state = "accepted"
      BY <1>3, <2>2 DEF StartTurn, TypeOK, ViewInv
    <3>2. /\ turn' = [turn EXCEPT ![t] = [state |-> "running",
                         revision |-> turn[t].revision + 1, run |-> <<s, held[s]>>]]
          /\ question' = question
      BY <1>3, <2>2 DEF StartTurn
    <3> HIDE DEF t
    <3> QED BY <3>1, <3>2 DEF TypeOK
  <2> QED BY <1>3, <2>1, <2>2 DEF StartTurn
<1>4. ASSUME NEW s \in Supervisors, DeliverAnswer(s) PROVE WaitingOnQuestion'
  <2>1. CASE UNCHANGED <<turn, question>> BY <2>1
  <2> DEFINE t == job[s].turn
  <2>2. CASE /\ question' = [question EXCEPT ![t].state = "delivered"]
             /\ turn' = [turn EXCEPT ![t].state = "running", ![t].revision = @ + 1]
    <3>1. t \in Turns BY <1>4 DEF DeliverAnswer, TypeOK
    <3>2. "running" \in Active \cup Terminal BY DEF Active
    <3>3. /\ question'[t].state = "delivered"
          /\ \A u \in Turns : u # t => question'[u] = question[u]
      BY <2>2, <3>1 DEF TypeOK, QuestionRow
    <3> HIDE DEF t
    <3>4. turn'[t].state = "running" /\ \A u \in Turns : u # t => turn'[u] = turn[u]
      BY <2>2, <3>1, <3>2, TurnUpdate
    <3> QED BY <3>3, <3>4
  <2> QED BY <1>4, <2>1, <2>2 DEF DeliverAnswer
<1>5. ASSUME NEW s \in Supervisors, AskQuestion(s) PROVE WaitingOnQuestion'
  <2>1. CASE UNCHANGED <<turn, question>> BY <2>1
  <2> DEFINE t == job[s].turn
             q == [n |-> job[s].asked + 1, state |-> "open"]
  <2>2. CASE /\ question' = [question EXCEPT ![t] = q]
             /\ turn' = [turn EXCEPT ![t].state = "waiting", ![t].revision = @ + 1]
    <3>1. t \in Turns BY <1>5 DEF AskQuestion, TypeOK
    <3>2. "waiting" \in Active \cup Terminal BY DEF Active
    <3>3. q.state = "open" OBVIOUS
    <3> HIDE DEF t, q
    <3>4. turn'[t].state = "waiting" /\ \A u \in Turns : u # t => turn'[u] = turn[u]
      BY <2>2, <3>1, <3>2, TurnUpdate
    <3> QED BY <2>2, <3>1, <3>3, <3>4 DEF TypeOK
  <2> QED BY <1>5, <2>1, <2>2 DEF AskQuestion
<1>6. ASSUME NEW s \in Supervisors, SettleTurn(s) PROVE WaitingOnQuestion'
  <2>1. CASE UNCHANGED <<turn, question>> BY <2>1
  <2> DEFINE t == job[s].turn
             target == Settlement(job[s].outcome, job[s].view.state)
  <2>2. CASE /\ target # "none"
             /\ Fresh(s)
             /\ turn' = [turn EXCEPT ![t].state = target, ![t].revision = @ + 1]
             /\ question' = IF target = "failed" THEN Cancelled(t) ELSE question
    <3>1. t \in Turns BY <1>6 DEF SettleTurn, TypeOK
    <3>2. target \in Terminal /\ (target = "succeeded" => job[s].view.state = "running")
      BY <2>2 DEF Settlement, Terminal, Active
    <3>3. target = "succeeded" => turn[t].state = "running"
      BY <2>2, <3>1, <3>2 DEF ViewInv
    <3>4. target \in Active \cup Terminal BY <3>2
    <3> HIDE DEF t, target
    <3>5. turn'[t].state = target /\ \A u \in Turns : u # t => turn'[u] = turn[u]
      BY <2>2, <3>1, <3>4, TurnUpdate
    <3>6. /\ \A u \in Turns : u # t => question'[u] = question[u]
          /\ question'[t].state \notin {"open", "answered"}
      BY <2>2, <3>1, <3>2, <3>3 DEF TypeOK, QuestionRow, Terminal
    <3> QED BY <3>1, <3>2, <3>5, <3>6 DEF Terminal
  <2> QED BY <1>6, <2>1, <2>2 DEF SettleTurn
<1>7. CASE UNCHANGED <<turn, question>>
  BY <1>7
<1> QED
  BY <1>1, <1>2, <1>3, <1>4, <1>5, <1>6, <1>7, ZenonT(60)
     DEF Next, Step, vars, store, ExpireLease, AcquireLease, LoseLease, Stop, Crash, Start,
         Claim, ReadTurn, DispatcherRaises, ListAnswers, ResumeTurn, ActivityRefused,
         WorkflowEnds, ReadLatest, FinishDispatch

-----------------------------------------------------------------------------
(* The theorems. *)

\* An empty workspace satisfies the inductive invariant.
LEMMA InvInit == Init => IInv
<1> SUFFICES ASSUME Init PROVE IInv
  OBVIOUS
<1>1. TypeOK BY TypeInit
<1>2. LeaseInv /\ GenerationsAreExclusive
  BY DEF Init, LeaseInv, GenerationsAreExclusive
<1>3. RevisionInv /\ StartedOnce
  BY DEF Init, RevisionInv, StartedOnce, NoTurn
<1>4. ViewInv
  BY TurnsAssumption DEF Init, ViewInv, NoJob
<1>5. WaitingOnQuestion
  BY DEF Init, WaitingOnQuestion, Unresolved, NoTurn, NoQuestion
<1> QED BY <1>1, <1>2, <1>3, <1>4, <1>5 DEF IInv

\* Every step preserves it.
LEMMA InvStep == IInv /\ [Next]_vars => IInv'
<1> SUFFICES ASSUME IInv, [Next]_vars PROVE IInv'
  OBVIOUS
<1>1. TypeOK' BY TypeStep DEF IInv
<1>2. LeaseInv' /\ GenerationsAreExclusive' BY LeaseStep DEF IInv
<1>3. \A t \in Turns : TurnMoves(t) BY TurnStep DEF IInv
<1>4. RevisionInv' /\ StartedOnce' BY <1>1, <1>3, RevisionStep DEF IInv
<1>5. ViewInv' BY <1>1, <1>3, ViewStep DEF IInv
<1>6. WaitingOnQuestion' BY WaitingStep DEF IInv
<1> QED BY <1>1, <1>2, <1>4, <1>5, <1>6 DEF IInv

\* The invariant the safety theorems below follow from holds of every
\* behaviour of the workspace and its supervisors.
THEOREM Inductive == Spec => []IInv
BY InvInit, InvStep, PTL DEF Spec

\* The tables and the local variables of the dispatch loops are well-typed.
THEOREM TypeCorrect == Spec => []TypeOK
<1>1. IInv => TypeOK BY DEF IInv
<1> QED BY <1>1, Inductive, PTL

\* acquire_supervisor_lease never gives one generation to two processes.
THEOREM ExclusiveGenerations == Spec => []GenerationsAreExclusive
<1>1. IInv => GenerationsAreExclusive BY DEF IInv
<1> QED BY <1>1, Inductive, PTL

\* A turn waits for input exactly while its question is open or answered,
\* whatever takeovers and late runners do.
THEOREM WaitingTurnsHaveQuestions == Spec => []WaitingOnQuestion
<1>1. IInv => WaitingOnQuestion BY DEF IInv
<1> QED BY <1>1, Inductive, PTL

\* run_turn starts the workflow from a user message at most once, although
\* nothing but the turn's revision fences it.
THEOREM UserMessageStartedOnce == Spec => []StartedOnce
<1>1. IInv => StartedOnce BY DEF IInv
<1> QED BY <1>1, Inductive, PTL

\* A finished turn never changes, and a turn never changes its run.
THEOREM FinishedTurnsStay == Spec => TurnsSettle
<1>1. ASSUME IInv, [Next]_vars
      PROVE  \A t \in Turns :
                /\ turn[t].state \in Terminal => turn'[t] = turn[t]
                /\ turn[t].run # <<>> => turn'[t].run = turn[t].run
  <2>1. \A t \in Turns : TurnMoves(t) BY <1>1, TurnStep DEF IInv
  <2> QED BY <1>1, <2>1 DEF IInv, RevisionInv, TurnMoves, Active, Terminal
<1> QED BY <1>1, Inductive, PTL DEF Spec, TurnsSettle
=============================================================================
