--------------------------- MODULE JobActionsProofs ---------------------------
(***************************************************************************)
(* Theorems about job actions, for any number of jobs, supervisors,        *)
(* takeovers and retries: types, one active action per job, final results, *)
(* no claimed action without a process that delivers it, and none that the *)
(* holder of the lease could not claim.                                    *)
(*                                                                         *)
(* ActionNotStranded is not inductive.  LeaseInv says that the owner of a  *)
(* live lease holds its generation, and ClaimInv that no claim is from a   *)
(* later generation than the lease and that the claims of a live lease are *)
(* what its owner is delivering: a takeover then leaves no claim behind    *)
(* that its successor could not claim again.                               *)
(***************************************************************************)
EXTENDS JobActions, JobsProofs, SequenceTheorems, FiniteSetTheorems

ActionTypes ==
    /\ intents \in Seq(IntentRow)
    /\ lease \in LeaseRow
    /\ held \in [Supervisors -> 0..MaxGenerations]
    /\ pc \in [Supervisors -> {"idle", "dispatch", "finish"}]
    /\ current \in [Supervisors -> Nat]
    /\ outcome \in [Supervisors -> Outcomes \cup {"none"}]
    /\ retries \in 0..MaxRetries

\* A supervisor in dispatch_next has an action, and later an outcome for it.
DispatchInv ==
    \A s \in Supervisors :
        /\ pc[s] # "idle" => current[s] \in DOMAIN intents
        /\ pc[s] = "finish" => outcome[s] \in Outcomes

InUse(i) == intents[i].state \in {"pending", "claimed"}

\* OneActiveAction, without counting.
OneInUse ==
    \A i, k \in DOMAIN intents :
        InUse(i) /\ InUse(k) /\ intents[i].job = intents[k].job => i = k

LeaseInv ==
    lease.live => /\ lease.generation # 0
                  /\ lease.owner # Nobody => held[lease.owner] = lease.generation

ClaimInv ==
    \A i \in DOMAIN intents : intents[i].state = "claimed" =>
        /\ intents[i].generation <= lease.generation
        /\ lease.live /\ lease.owner # Nobody /\ intents[i].generation = lease.generation
              => /\ intents[i].by = lease.owner
                 /\ current[lease.owner] = i
                 /\ pc[lease.owner] # "idle"

ActionsInv ==
    /\ JobsInv /\ ActionTypes /\ DispatchInv /\ OneInUse /\ LeaseInv /\ ClaimInv

-----------------------------------------------------------------------------
\* An intent of the list is a well-typed row.
LEMMA RowType ==
  ASSUME ActionsInv, NEW i \in DOMAIN intents
  PROVE  /\ i \in 1..Len(intents) /\ intents[i] \in IntentRow
         /\ intents[i].job \in JobIds /\ intents[i].generation \in Nat
         /\ intents[i].by \in Supervisors \cup {Nobody}
         /\ intents[i].state \in Settled \cup {"pending", "claimed"}
<1>1. intents \in Seq(IntentRow) BY DEF ActionsInv, ActionTypes
<1>2. i \in 1..Len(intents) /\ intents[i] \in IntentRow BY <1>1
<1> QED BY <1>2 DEF IntentRow

\* accept_job_action ends the waiting action it replaces and adds its own.
AcceptEffect(j) ==
    /\ Len(intents') = Len(intents) + 1
    /\ \A i \in 1..Len(intents) :
          intents'[i] = IF i \in Active(j) THEN [intents[i] EXCEPT !.state = "cancelled"]
                                           ELSE intents[i]
    /\ intents'[Len(intents) + 1].job = j
    /\ intents'[Len(intents) + 1].state = "pending"

\* Accepting an action cancels the active ones of its job and appends a pending
\* one; the other rows stay.
LEMMA AcceptRows ==
  ASSUME ActionsInv, NEW c \in Clients, NEW act \in JobActionNames, AcceptAction(c, act)
  PROVE  AcceptEffect(seen[c].job) /\ intents' \in Seq(IntentRow) /\ seen[c].job \in JobIds
<1>0. PICK j : j = seen[c].job OBVIOUS
<1>1. j \in JobIds BY <1>0 DEF AcceptAction, Fresh
<1>2. PICK rows : rows = [i \in DOMAIN intents |->
                     IF i \in Active(j) THEN [intents[i] EXCEPT !.state = "cancelled"]
                                        ELSE intents[i]]
  OBVIOUS
<1>3. intents' = Append(rows, NewIntent(j, act)) BY <1>0, <1>2 DEF AcceptAction
<1>4. intents \in Seq(IntentRow) BY DEF ActionsInv, ActionTypes
<1>5. DOMAIN intents = 1..Len(intents) /\ Len(intents) \in Nat BY <1>4
<1>6. ASSUME NEW i \in DOMAIN intents PROVE rows[i] \in IntentRow
  <2>1. intents[i] \in IntentRow BY <1>4
  <2>2. [intents[i] EXCEPT !.state = "cancelled"] \in IntentRow BY <2>1 DEF IntentRow, Settled
  <2> QED BY <1>2, <2>1, <2>2
<1>7. rows \in Seq(IntentRow) /\ Len(rows) = Len(intents)
  BY <1>2, <1>5, <1>6
<1>8. NewIntent(j, act) \in IntentRow BY <1>1 DEF NewIntent, IntentRow
<1>9. /\ intents' \in Seq(IntentRow) /\ Len(intents') = Len(intents) + 1
      /\ \A i \in 1..Len(intents) : intents'[i] = rows[i]
      /\ intents'[Len(intents) + 1] = NewIntent(j, act)
  BY <1>3, <1>7, <1>8, AppendProperties
<1> QED BY <1>0, <1>1, <1>2, <1>5, <1>9 DEF AcceptEffect, NewIntent

\* One row of the list is changed and stays a row of the same job.
RowChanged(i) ==
    /\ intents' \in Seq(IntentRow)
    /\ DOMAIN intents' = DOMAIN intents
    /\ i \in DOMAIN intents
    /\ intents'[i].job = intents[i].job
    /\ \A k \in DOMAIN intents \ {i} : intents'[k] = intents[k]

\* claim_next_job_action_intent claims one active action for its caller.
LEMMA ClaimRows ==
  ASSUME ActionsInv, NEW s \in Supervisors, Claim(s)
  PROVE  \E i \in DOMAIN intents :
           /\ Claimable(i, held[s])
           /\ RowChanged(i)
           /\ intents'[i].state = "claimed"
           /\ intents'[i].by = s
           /\ intents'[i].generation = held[s]
           /\ current' = [current EXCEPT ![s] = i]
<1>1. PICK i \in DOMAIN intents :
        /\ Claimable(i, held[s])
        /\ intents' = [intents EXCEPT ![i].state = "claimed", ![i].by = s,
                                      ![i].generation = held[s]]
        /\ current' = [current EXCEPT ![s] = i]
  BY DEF Claim
<1>2. PICK r : r = [[[intents[i] EXCEPT !.state = "claimed"] EXCEPT !.by = s]
                       EXCEPT !.generation = held[s]]
  OBVIOUS
<1>3. held[s] \in Nat /\ intents \in Seq(IntentRow)
  BY ActionsAssumption DEF ActionsInv, ActionTypes
<1>4. /\ r \in IntentRow /\ r.state = "claimed" /\ r.by = s /\ r.generation = held[s]
      /\ r.job = intents[i].job
  <2>1. intents[i] \in IntentRow BY RowType
  <2> QED BY <1>2, <1>3, <2>1 DEF IntentRow
<1>5. intents' = [intents EXCEPT ![i] = r] BY <1>1, <1>2, <1>3
<1>6. RowChanged(i) /\ intents'[i] = r
  BY <1>1, <1>3, <1>4, <1>5, ExceptSeq DEF RowChanged
<1> QED BY <1>1, <1>4, <1>6

\* finish_job_action_intent records the outcome of the caller's own claim.
LEMMA FinishRows ==
  ASSUME ActionsInv, NEW s \in Supervisors, Finish(s), OwnsClaim(s)
  PROVE  LET i == current[s] IN
         /\ RowChanged(i)
         /\ intents[i].state = "claimed"
         /\ intents'[i].state = outcome[s] /\ outcome[s] \in Outcomes
<1>1. PICK i : i = current[s] OBVIOUS
<1>2. i \in DOMAIN intents /\ outcome[s] \in Outcomes
  BY <1>1 DEF ActionsInv, DispatchInv, Finish
<1>3. intents' = [intents EXCEPT ![i].state = outcome[s]] BY <1>1 DEF Finish
<1>4. PICK r : r = [intents[i] EXCEPT !.state = outcome[s]] OBVIOUS
<1>5. intents \in Seq(IntentRow) BY DEF ActionsInv, ActionTypes
<1>6. r \in IntentRow /\ r.state = outcome[s] /\ r.job = intents[i].job
  <2>1. intents[i] \in IntentRow BY <1>2, RowType
  <2> QED BY <1>2, <1>4, <2>1 DEF IntentRow, Outcomes, Settled
<1>7. intents' = [intents EXCEPT ![i] = r] BY <1>3, <1>4, <1>5
<1>8. RowChanged(i) /\ intents'[i] = r
  BY <1>2, <1>5, <1>6, <1>7, ExceptSeq DEF RowChanged
<1> QED BY <1>1, <1>2, <1>6, <1>8 DEF OwnsClaim

-----------------------------------------------------------------------------
\* The job tables keep their invariant: accepting an action bumps the revision
\* of a job and leaves its state alone.
LEMMA JobsStep == ASSUME ActionsInv, [Next]_vars PROVE JobsInv'
<1>1. CASE [JobsNext]_jobVars BY <1>1, JobsInvStep DEF ActionsInv
<1>2. ASSUME NEW c \in Clients, NEW act \in JobActionNames, AcceptAction(c, act)
      PROVE  JobsInv'
  <2>0. PICK j : j = seen[c].job OBVIOUS
  <2>1. /\ JobsInv /\ j \in JobIds
        /\ job' = [job EXCEPT ![j] = Moved(@, @.state)]
        /\ deps' = deps /\ operations' = operations /\ seen' = seen
    BY <1>2, <2>0 DEF AcceptAction, Fresh, ActionsInv
  <2>2. job \in [JobIds -> JobRow] BY <2>1 DEF JobsInv, JobsTypeOK
  <2>3. Moved(job[j], job[j].state) \in JobRow BY <2>1, <2>2 DEF Moved, JobRow
  <2>4. \A k \in JobIds : /\ job'[k].state = job[k].state
                          /\ job[k].revision \in Nat /\ job'[k].revision \in Nat
                          /\ job'[k].revision = job[k].revision
                               \/ job'[k].revision = job[k].revision + 1
    BY <2>1, <2>2 DEF Moved, JobRow
  <2>5. JobsTypeOK' BY <2>1, <2>3 DEF JobsInv, JobsTypeOK
  <2>6. SeenInv'
    <3> SUFFICES ASSUME NEW d \in Clients, seen[d].job \in JobIds
                 PROVE  /\ job'[seen[d].job].state # "absent"
                        /\ seen[d].row.revision <= job'[seen[d].job].revision
                        /\ seen[d].row.revision = job'[seen[d].job].revision
                              => seen[d].row.state = job'[seen[d].job].state
      BY <2>1 DEF SeenInv
    <3>1. seen[d].row.revision \in Nat BY <2>1 DEF JobsInv, JobsTypeOK, View, JobRow
    <3> QED BY <2>1, <2>4, <3>1 DEF JobsInv, SeenInv
  <2>7. \A D \in SUBSET JobIds : Complete(D)' <=> Complete(D) BY <2>4 DEF Complete
  <2>8. \A k \in JobIds : deps[k] \in SUBSET JobIds BY <2>1 DEF JobsInv, JobsTypeOK
  <2>9. DependenciesGate' /\ PendingIsBlocked'
    BY <2>1, <2>4, <2>7, <2>8 DEF JobsInv, DependenciesGate, PendingIsBlocked, Complete
  <2> QED BY <2>5, <2>6, <2>9 DEF JobsInv
<1>3. ASSUME NEW s \in Supervisors, Deliver(s) \/ ReleaseLease(s) \/ Crash(s)
      PROVE  jobVars' = jobVars
  BY <1>3 DEF Deliver, AcquireLease, Claim, Dispatch, Finish, ReleaseLease, Crash
<1> QED BY <1>1, <1>2, <1>3 DEF Next, ExpireLease, vars, jobVars

\* The parts of the invariant about actions and leases.
Delivery == ActionTypes /\ DispatchInv /\ OneInUse /\ LeaseInv /\ ClaimInv

\* Accepting an action.
LEMMA AcceptStep ==
  ASSUME ActionsInv, NEW c \in Clients, NEW act \in JobActionNames, AcceptAction(c, act)
  PROVE  Delivery'
<1>0. PICK j : j = seen[c].job OBVIOUS
<1>1. AcceptEffect(j) /\ intents' \in Seq(IntentRow) BY <1>0, AcceptRows
<1>2. UNCHANGED <<lease, held, pc, current, outcome, retries>> BY DEF AcceptAction
<1>3. intents \in Seq(IntentRow) BY DEF ActionsInv, ActionTypes
<1>4. /\ Len(intents) \in Nat /\ DOMAIN intents = 1..Len(intents)
      /\ DOMAIN intents' = 1..(Len(intents) + 1)
  BY <1>1, <1>3 DEF AcceptEffect
<1>5. \A i \in DOMAIN intents : /\ intents'[i].job = intents[i].job
                                /\ intents'[i].generation = intents[i].generation
                                /\ intents'[i].by = intents[i].by
                                /\ i \in Active(j) => intents'[i].state = "cancelled"
                                /\ i \notin Active(j) => intents'[i] = intents[i]
  <2> SUFFICES ASSUME NEW i \in DOMAIN intents
               PROVE  /\ intents'[i].job = intents[i].job
                      /\ intents'[i].generation = intents[i].generation
                      /\ intents'[i].by = intents[i].by
                      /\ i \in Active(j) => intents'[i].state = "cancelled"
                      /\ i \notin Active(j) => intents'[i] = intents[i]
    OBVIOUS
  <2>1. intents[i] \in IntentRow BY RowType
  <2> QED BY <1>1, <1>4, <2>1 DEF AcceptEffect, IntentRow
<1>6. \A i \in DOMAIN intents : i \notin Active(j) /\ InUse(i) => intents[i].job # j
  BY DEF Active, InUse
<1>7. ActionTypes' BY <1>1, <1>2 DEF ActionsInv, ActionTypes
<1>8. DispatchInv' BY <1>2, <1>4 DEF ActionsInv, DispatchInv
<1>9. OneInUse'
  <2> SUFFICES ASSUME NEW i \in DOMAIN intents', NEW k \in DOMAIN intents',
                      intents'[i].state \in {"pending", "claimed"},
                      intents'[k].state \in {"pending", "claimed"},
                      intents'[i].job = intents'[k].job
               PROVE  i = k
    BY DEF OneInUse, InUse
  <2>1. \A x \in DOMAIN intents :
            intents'[x].state \in {"pending", "claimed"} => x \notin Active(j) /\ InUse(x)
                                                            /\ intents'[x].job # j
    BY <1>5, <1>6 DEF InUse
  <2>2. intents'[Len(intents) + 1].job = j BY <1>1 DEF AcceptEffect
  <2>3. CASE i \in DOMAIN intents /\ k \in DOMAIN intents
    BY <1>5, <2>1, <2>3 DEF ActionsInv, OneInUse
  <2> QED BY <1>4, <2>1, <2>2, <2>3
<1>10. LeaseInv' BY <1>2 DEF ActionsInv, LeaseInv
<1>11. ClaimInv'
  <2> SUFFICES ASSUME NEW i \in DOMAIN intents', intents'[i].state = "claimed"
               PROVE  /\ intents'[i].generation <= lease.generation
                      /\ lease.live /\ lease.owner # Nobody
                           /\ intents'[i].generation = lease.generation
                            => /\ intents'[i].by = lease.owner
                               /\ current[lease.owner] = i
                               /\ pc[lease.owner] # "idle"
    BY <1>2 DEF ClaimInv
  <2>1. i \in DOMAIN intents /\ intents'[i] = intents[i]
    BY <1>1, <1>4, <1>5 DEF AcceptEffect
  <2> QED BY <2>1 DEF ActionsInv, ClaimInv
<1> QED BY <1>7, <1>8, <1>9, <1>10, <1>11 DEF Delivery

\* The lease runs out, is acquired, released or loses its process.
LEMMA LeaseStep ==
  ASSUME ActionsInv,
         ExpireLease \/ \E s \in Supervisors : AcquireLease(s) \/ ReleaseLease(s) \/ Crash(s)
  PROVE  Delivery'
<1> USE DEF ActionsInv
<1>0. /\ lease.owner \in Supervisors \cup {Nobody} /\ lease.generation \in Nat
      /\ lease.live \in BOOLEAN
  BY DEF ActionTypes, LeaseRow
<1>1. CASE ExpireLease
  <2>1. /\ lease' = [lease EXCEPT !.live = FALSE]
        /\ UNCHANGED <<intents, held, pc, current, outcome, retries>>
    BY <1>1 DEF ExpireLease
  <2>2. ~lease'.live /\ lease'.generation = lease.generation /\ lease' \in LeaseRow
    BY <2>1 DEF ActionTypes, LeaseRow
  <2> QED BY <2>1, <2>2 DEF Delivery, ActionTypes, DispatchInv, OneInUse, InUse, LeaseInv, ClaimInv
<1>2. ASSUME NEW s \in Supervisors, AcquireLease(s) PROVE Delivery'
  <2>1. UNCHANGED <<intents, pc, current, outcome, retries>> BY <1>2 DEF AcquireLease
  <2>2. ~lease.live
    <3> SUFFICES ASSUME lease.live PROVE FALSE BY <1>0
    <3>1. lease.owner = s /\ ~LeaseMatches(s) BY <1>2 DEF AcquireLease
    <3>2. s # Nobody BY ActionsAssumption
    <3> QED BY <3>1, <3>2 DEF LeaseInv, LeaseMatches
  <2>3. PICK g : /\ g = lease.generation + 1 /\ g <= MaxGenerations
                 /\ lease' = [owner |-> s, generation |-> g, live |-> TRUE]
                 /\ held' = [held EXCEPT ![s] = g]
    BY <1>2, <2>2 DEF AcquireLease
  <2>4. g \in 0..MaxGenerations /\ g # 0 BY <1>0, <2>3, ActionsAssumption
  <2>5. ActionTypes' BY <2>1, <2>3, <2>4 DEF ActionTypes, LeaseRow
  <2>6. LeaseInv' BY <2>3, <2>4 DEF LeaseInv, ActionTypes
  <2>7. ClaimInv'
    <3>1. \A i \in DOMAIN intents : intents[i].generation \in Nat BY RowType
    <3> QED BY <1>0, <2>1, <2>3, <3>1 DEF ClaimInv
  <2>8. DispatchInv' /\ OneInUse' BY <2>1 DEF DispatchInv, OneInUse, InUse
  <2> QED BY <2>5, <2>6, <2>7, <2>8 DEF Delivery
<1>3. ASSUME NEW s \in Supervisors, ReleaseLease(s) PROVE Delivery'
  <2>1. /\ lease' = [lease EXCEPT !.live = FALSE]
        /\ held' = [held EXCEPT ![s] = 0]
        /\ UNCHANGED <<intents, pc, current, outcome, retries>>
    BY <1>3 DEF ReleaseLease
  <2>2. ~lease'.live /\ lease'.generation = lease.generation /\ lease' \in LeaseRow
    BY <2>1 DEF ActionTypes, LeaseRow
  <2>3. held' \in [Supervisors -> 0..MaxGenerations]
    BY <2>1, ActionsAssumption DEF ActionTypes
  <2> QED BY <2>1, <2>2, <2>3
          DEF Delivery, ActionTypes, DispatchInv, OneInUse, InUse, LeaseInv, ClaimInv
<1>4. ASSUME NEW s \in Supervisors, Crash(s) PROVE Delivery'
  <2>1. /\ lease' = [lease EXCEPT !.owner = IF @ = s THEN Nobody ELSE @]
        /\ held' = [held EXCEPT ![s] = 0]
        /\ pc' = [pc EXCEPT ![s] = "idle"]
        /\ current' = [current EXCEPT ![s] = 0]
        /\ outcome' = [outcome EXCEPT ![s] = "none"]
        /\ UNCHANGED <<intents, retries>>
    BY <1>4 DEF Crash
  <2>2. /\ lease' \in LeaseRow /\ lease'.live = lease.live
        /\ lease'.generation = lease.generation
        /\ lease'.owner # s
        /\ lease'.owner # Nobody => lease'.owner = lease.owner /\ lease.owner \in Supervisors \ {s}
    BY <1>0, <2>1, ActionsAssumption DEF ActionTypes, LeaseRow
  <2>3. ActionTypes' BY <2>1, <2>2, ActionsAssumption DEF ActionTypes
  <2>4. DispatchInv' /\ OneInUse' BY <2>1 DEF DispatchInv, OneInUse, InUse, ActionTypes
  <2>5. LeaseInv' BY <2>1, <2>2 DEF LeaseInv, ActionTypes
  <2>6. ClaimInv' BY <2>1, <2>2 DEF ClaimInv, ActionTypes
  <2> QED BY <2>3, <2>4, <2>5, <2>6 DEF Delivery
<1> QED BY <1>1, <1>2, <1>3, <1>4

\* A supervisor claims an action, delivers it and records the result.
LEMMA DeliverStep ==
  ASSUME ActionsInv, NEW s \in Supervisors,
         Claim(s) \/ (\E o \in Outcomes : Dispatch(s, o)) \/ Finish(s)
  PROVE  Delivery'
<1> USE DEF ActionsInv
<1>0. /\ lease.owner \in Supervisors \cup {Nobody} /\ lease.generation \in Nat
      /\ lease.live \in BOOLEAN /\ s # Nobody
  BY ActionsAssumption DEF ActionTypes, LeaseRow
<1>1. CASE Claim(s)
  <2>1. PICK i \in DOMAIN intents :
           /\ Claimable(i, held[s])
           /\ RowChanged(i)
           /\ intents'[i].state = "claimed"
           /\ intents'[i].by = s
           /\ intents'[i].generation = held[s]
           /\ current' = [current EXCEPT ![s] = i]
    BY <1>1, ClaimRows
  <2>2. /\ pc' = [pc EXCEPT ![s] = "dispatch"] /\ pc[s] = "idle"
        /\ UNCHANGED <<lease, held, outcome, retries>>
        /\ lease.live /\ lease.owner = s /\ held[s] = lease.generation
    BY <1>1 DEF Claim, LeaseMatches
  <2>3. i \in Nat BY RowType
  <2>4. ActionTypes' BY <2>1, <2>2, <2>3 DEF ActionTypes, RowChanged
  <2>5. DispatchInv' BY <2>1, <2>2 DEF DispatchInv, ActionTypes, RowChanged
  <2>6. \A k \in DOMAIN intents : intents'[k].job = intents[k].job
    BY <2>1 DEF RowChanged
  <2>7. \A k \in DOMAIN intents :
            intents'[k].state \in {"pending", "claimed"} => InUse(k)
    BY <2>1 DEF RowChanged, InUse, Claimable
  <2>8. OneInUse' BY <2>1, <2>6, <2>7 DEF OneInUse, InUse, RowChanged
  <2>9. LeaseInv' BY <2>2 DEF LeaseInv
  <2>10. \A k \in DOMAIN intents \ {i} :
            intents[k].state = "claimed" => /\ intents[k].generation <= lease.generation
                                            /\ intents[k].generation # lease.generation
    BY <1>0, <2>2 DEF ClaimInv
  <2>11. ClaimInv'
    <3> SUFFICES ASSUME NEW k \in DOMAIN intents, intents'[k].state = "claimed"
                 PROVE  /\ intents'[k].generation <= lease.generation
                        /\ intents'[k].generation = lease.generation
                              => intents'[k].by = s /\ current'[s] = k /\ pc'[s] # "idle"
      BY <2>1, <2>2 DEF ClaimInv, RowChanged
    <3>1. CASE k = i BY <1>0, <2>1, <2>2, <3>1 DEF ActionTypes
    <3>2. CASE k # i BY <2>1, <2>10, <3>2 DEF RowChanged
    <3> QED BY <3>1, <3>2
  <2> QED BY <2>4, <2>5, <2>8, <2>9, <2>11 DEF Delivery
<1>2. ASSUME NEW o \in Outcomes, Dispatch(s, o) PROVE Delivery'
  <2>1. /\ retries' \in 0..MaxRetries
        /\ outcome' = [outcome EXCEPT ![s] = o]
        /\ pc' = [pc EXCEPT ![s] = "finish"] /\ pc[s] = "dispatch"
        /\ UNCHANGED <<intents, lease, held, current>>
    BY <1>2, ActionsAssumption DEF Dispatch, ActionTypes
  <2>2. ActionTypes' BY <2>1 DEF ActionTypes
  <2>3. DispatchInv' BY <2>1 DEF DispatchInv, ActionTypes
  <2>4. OneInUse' /\ LeaseInv' BY <2>1 DEF OneInUse, InUse, LeaseInv
  <2>5. ClaimInv' BY <2>1, <1>0 DEF ClaimInv, ActionTypes
  <2> QED BY <2>2, <2>3, <2>4, <2>5 DEF Delivery
<1>3. CASE Finish(s)
  <2>1. /\ pc' = [pc EXCEPT ![s] = "idle"] /\ pc[s] = "finish"
        /\ current' = [current EXCEPT ![s] = 0]
        /\ outcome' = [outcome EXCEPT ![s] = "none"]
        /\ UNCHANGED <<lease, held, retries>>
    BY <1>3 DEF Finish
  <2>2. LeaseInv' BY <2>1 DEF LeaseInv
  <2>3. CASE OwnsClaim(s)
    <3>1. PICK i : i = current[s] OBVIOUS
    <3>2. /\ RowChanged(i) /\ intents[i].state = "claimed"
          /\ intents'[i].state \in Outcomes
          /\ lease.owner = s
      BY <1>3, <2>3, <3>1, FinishRows DEF OwnsClaim, LeaseMatches
    <3>3. ActionTypes' BY <2>1, <3>2 DEF ActionTypes, RowChanged
    <3>4. DispatchInv' BY <2>1, <3>2 DEF DispatchInv, ActionTypes, RowChanged
    <3>5. \A k \in DOMAIN intents : /\ intents'[k].job = intents[k].job
                                    /\ intents'[k].state \in {"pending", "claimed"} => InUse(k)
      BY <3>2 DEF RowChanged, InUse
    <3>6. OneInUse' BY <3>2, <3>5 DEF OneInUse, InUse, RowChanged
    <3>7. ClaimInv'
      <4> SUFFICES ASSUME NEW k \in DOMAIN intents, intents'[k].state = "claimed"
                   PROVE  /\ intents[k] = intents'[k] /\ k # i
                          /\ intents[k].generation <= lease.generation
                          /\ ~(lease.live /\ intents[k].generation = lease.generation)
        BY <2>1, <3>2 DEF ClaimInv, RowChanged
      <4>1. k # i BY <3>2 DEF Outcomes
      <4>2. intents[k] = intents'[k] BY <3>2, <4>1 DEF RowChanged
      <4> QED BY <1>0, <3>1, <3>2, <4>1, <4>2 DEF ClaimInv
    <3> QED BY <2>2, <3>3, <3>4, <3>6, <3>7 DEF Delivery
  <2>4. CASE ~OwnsClaim(s)
    <3>1. intents' = intents BY <1>3, <2>4 DEF Finish
    <3>2. ActionTypes' BY <2>1, <3>1 DEF ActionTypes
    <3>3. DispatchInv' BY <2>1, <3>1 DEF DispatchInv, ActionTypes
    <3>4. OneInUse' BY <3>1 DEF OneInUse, InUse
    <3>5. ClaimInv'
      <4> SUFFICES ASSUME NEW k \in DOMAIN intents, intents[k].state = "claimed",
                          lease.live, lease.owner # Nobody,
                          intents[k].generation = lease.generation
                   PROVE  lease.owner # s
        BY <1>0, <2>1, <3>1 DEF ClaimInv, ActionTypes
      <4>1. /\ intents[k].by = lease.owner /\ current[lease.owner] = k
            /\ held[lease.owner] = lease.generation /\ lease.generation # 0
        BY DEF ClaimInv, LeaseInv
      <4> QED BY <2>4, <4>1 DEF OwnsClaim, LeaseMatches
    <3> QED BY <2>2, <3>2, <3>3, <3>4, <3>5 DEF Delivery
  <2> QED BY <2>3, <2>4
<1> QED BY <1>1, <1>2, <1>3

-----------------------------------------------------------------------------
\* The empty tables and an expired lease satisfy the invariant.
LEMMA ActionsInvInit == Init => ActionsInv
<1> SUFFICES ASSUME Init PROVE ActionsInv OBVIOUS
<1>1. JobsInv BY JobsInvInit DEF Init
<1>2. ActionTypes BY ActionsAssumption DEF Init, ActionTypes, LeaseRow
<1>3. DispatchInv /\ OneInUse /\ LeaseInv /\ ClaimInv
  BY DEF Init, DispatchInv, OneInUse, LeaseInv, ClaimInv
<1> QED BY <1>1, <1>2, <1>3 DEF ActionsInv

\* Every step preserves the invariant.
LEMMA ActionsInvStep == ASSUME ActionsInv, [Next]_vars PROVE ActionsInv'
<1>1. JobsInv' BY JobsStep
<1>2. Delivery'
  <2>1. CASE actionVars' = actionVars
    BY <2>1 DEF ActionsInv, Delivery, actionVars, ActionTypes, DispatchInv, OneInUse, InUse,
                LeaseInv, ClaimInv
  <2>2. ASSUME NEW c \in Clients, NEW act \in JobActionNames, AcceptAction(c, act)
        PROVE  Delivery'
    BY <2>2, AcceptStep
  <2>3. CASE ExpireLease BY <2>3, LeaseStep
  <2>4. ASSUME NEW s \in Supervisors, Deliver(s) \/ ReleaseLease(s) \/ Crash(s)
        PROVE  Delivery'
    BY <2>4, LeaseStep, DeliverStep DEF Deliver
  <2> QED BY <2>1, <2>2, <2>3, <2>4 DEF Next, vars
<1> QED BY <1>1, <1>2 DEF ActionsInv, Delivery

\* The invariant holds in every reachable state.
LEMMA ActionsInvariance == Spec => []ActionsInv
<1>1. ActionsInv /\ [Next]_vars => ActionsInv' BY ActionsInvStep
<1> QED BY <1>1, ActionsInvInit, PTL DEF Spec

\* Intents, the lease and what each supervisor holds are well-typed, and a
\* supervisor inside dispatch_next always has an intent of the list.
THEOREM ActionTypesHold == Spec => []TypeOK
<1>1. ActionsInv => TypeOK BY DEF ActionsInv, TypeOK, JobsInv, ActionTypes, DispatchInv
<1> QED BY <1>1, ActionsInvariance, PTL

\* However accepts, claims, retries and takeovers interleave, the unique index
\* one_active_job_action is never hit.
THEOREM OneActionPerJob == Spec => []OneActiveAction
<1>1. ASSUME ActionsInv, NEW j \in JobIds
      PROVE  Cardinality({i \in DOMAIN intents :
                 intents[i].job = j /\ intents[i].state \in {"pending", "claimed"}}) <= 1
  <2>1. PICK S : S = {i \in DOMAIN intents :
                       intents[i].job = j /\ intents[i].state \in {"pending", "claimed"}}
    OBVIOUS
  <2>2. \A i, k \in S : i = k BY <1>1, <2>1 DEF ActionsInv, OneInUse, InUse
  <2>3. CASE S = {} BY <2>1, <2>3, FS_EmptySet
  <2>4. CASE S # {}
    <3>1. PICK x : S = {x} BY <2>2, <2>4
    <3>2. Cardinality(S) = 1 BY <3>1, FS_Singleton
    <3> QED BY <2>1, <3>2
  <2> QED BY <2>3, <2>4
<1>2. ActionsInv => OneActiveAction BY <1>1 DEF OneActiveAction
<1> QED BY <1>2, ActionsInvariance, PTL

\* A claim made under a live lease is being delivered by the process that holds
\* the lease, so the takeover of a lost lease strands no action.
THEOREM NoStrandedAction == Spec => []ActionNotStranded
<1>1. ActionsInv => ActionNotStranded
  <2> SUFFICES ASSUME ActionsInv, NEW i \in DOMAIN intents, intents[i].state = "claimed",
                      lease.live, lease.owner # Nobody,
                      intents[i].generation = lease.generation
               PROVE  \E s \in Supervisors : current[s] = i /\ held[s] = lease.generation
    BY DEF ActionNotStranded
  <2>1. lease.owner \in Supervisors BY DEF ActionsInv, ActionTypes, LeaseRow
  <2>2. current[lease.owner] = i /\ held[lease.owner] = lease.generation
    BY DEF ActionsInv, ClaimInv, LeaseInv
  <2> QED BY <2>1, <2>2
<1> QED BY <1>1, ActionsInvariance, PTL

\* Whatever was claimed and not finished before, the holder of the live lease
\* may claim every unfinished action at its next dispatch_next: a claim of its
\* own generation would be one it is still delivering.
THEOREM OwnerFindsUnfinished == Spec => []OwnerFindsAll
<1>1. ActionsInv => OwnerFindsAll
  <2> SUFFICES ASSUME ActionsInv, NEW s \in Supervisors, LeaseMatches(s), pc[s] = "idle",
                      NEW i \in DOMAIN intents, intents[i].state = "claimed"
               PROVE  intents[i].generation # held[s]
    BY DEF OwnerFindsAll, Claimable
  <2>1. lease.live /\ lease.owner = s /\ lease.generation = held[s] BY DEF LeaseMatches
  <2>2. lease.owner # Nobody BY <2>1, ActionsAssumption
  <2> QED BY <2>1, <2>2 DEF ActionsInv, ClaimInv
<1> QED BY <1>1, ActionsInvariance, PTL

\* Nothing overwrites the recorded result of an action, not even a supervisor
\* that finishes its delivery after it was replaced.
THEOREM ActionResultsAreFinal == Spec => ResultsAreFinal
<1>1. ASSUME ActionsInv, [Next]_vars, NEW i \in DOMAIN intents, intents[i].state \in Settled
      PROVE  intents'[i].state = intents[i].state
  <2>0. "pending" \notin Settled /\ "claimed" \notin Settled BY DEF Settled
  <2>1. ASSUME NEW c \in Clients, NEW act \in JobActionNames, AcceptAction(c, act)
        PROVE  intents'[i].state = intents[i].state
    <3>1. AcceptEffect(seen[c].job) BY <1>1, <2>1, AcceptRows
    <3>2. i \in 1..Len(intents) BY <1>1, RowType
    <3> QED BY <1>1, <2>0, <3>1, <3>2 DEF AcceptEffect, Active
  <2>2. ASSUME NEW s \in Supervisors, Claim(s) PROVE intents'[i].state = intents[i].state
    BY <1>1, <2>0, <2>2, ClaimRows DEF RowChanged, Claimable
  <2>3. ASSUME NEW s \in Supervisors, Finish(s) PROVE intents'[i].state = intents[i].state
    <3>1. CASE OwnsClaim(s) BY <1>1, <2>0, <2>3, <3>1, FinishRows DEF RowChanged
    <3>2. CASE ~OwnsClaim(s) BY <2>3, <3>2 DEF Finish
    <3> QED BY <3>1, <3>2
  <2>4. CASE intents' = intents BY <2>4
  <2>5. ASSUME NEW s \in Supervisors,
               AcquireLease(s) \/ ReleaseLease(s) \/ Crash(s)
                  \/ \E o \in Outcomes : Dispatch(s, o)
        PROVE  intents' = intents
    BY <2>5 DEF AcquireLease, ReleaseLease, Crash, Dispatch
  <2> QED BY <1>1, <2>1, <2>2, <2>3, <2>4, <2>5
          DEF Next, Deliver, ExpireLease, vars, actionVars
<1>2. ActionsInv /\ [Next]_vars =>
        [\A i \in DOMAIN intents :
            intents[i].state \in Settled => intents'[i].state = intents[i].state]_vars
  BY <1>1
<1> QED BY <1>2, ActionsInvariance, PTL DEF Spec, ResultsAreFinal
=============================================================================
