----------------------------- MODULE JobsProofs -----------------------------
(***************************************************************************)
(* For any set of jobs, clients and attempts: dependencies gate jobs, no   *)
(* pending job is forgotten, and an equal revision means an equal state.   *)
(* JobsInv is the inductive invariant; SeenInv says what it takes for      *)
(* revisions to be enough, namely that every copy is a past version.       *)
(***************************************************************************)
EXTENDS Jobs, TLAPS

SeenInv ==
    \A c \in Clients : seen[c].job \in JobIds =>
        /\ job[seen[c].job].state # "absent"
        /\ seen[c].row.revision <= job[seen[c].job].revision
        /\ seen[c].row.revision = job[seen[c].job].revision
              => seen[c].row.state = job[seen[c].job].state

JobsInv == JobsTypeOK /\ SeenInv /\ DependenciesGate /\ PendingIsBlocked

-----------------------------------------------------------------------------
\* What the proofs need of _TRANSITIONS: nothing becomes pending, and a
\* pending job can only be cancelled.
LEMMA TransitionFacts ==
  ASSUME NEW s \in States
  PROVE  /\ Transitions[s] \subseteq States
         /\ "pending" \notin Transitions[s]
         /\ s = "pending" => Transitions[s] = {"cancelled"}
BY DEF Transitions, States, Finished

\* A request that is not refused is about a job that exists.
LEMMA FreshJob ==
  ASSUME JobsInv, NEW c \in Clients, Fresh(c)
  PROVE  /\ seen[c].job \in JobIds
         /\ job[seen[c].job].state \in States
         /\ job[seen[c].job].revision \in Nat
BY DEF Fresh, JobsInv, JobsTypeOK, SeenInv, JobRow

\* The three ways in which a step may treat a job: leave it, create it, or
\* move it under a new revision.
JobMoves(k) ==
    \/ job'[k] = job[k]
    \/ job[k].state = "absent" /\ job'[k].state \in {"ready", "pending"} /\ job'[k].revision = 1
    \/ /\ job[k].state \in States \ Finished
       /\ job'[k].state \in States
       /\ job'[k].revision = job[k].revision + 1

\* What transition_job does to the rows when it moves job j to state s.
TransitionEffect(j, s) ==
    /\ j \in JobIds
    /\ job[j].state \in States \ Finished
    /\ job'[j].state = s
    /\ job'[j].revision = job[j].revision + 1
    /\ \A k \in JobIds \ {j} :
          IF s = "succeeded" /\ Releases(k, j)
          THEN job'[k].state = "ready" /\ job'[k].revision = job[k].revision + 1
          ELSE job'[k] = job[k]

\* transition_job has that effect on the rows.
LEMMA TransitionRows ==
  ASSUME JobsInv, NEW c \in Clients, NEW s \in States, TransitionJob(c, s)
  PROVE  TransitionEffect(seen[c].job, s)
<1>1. PICK j : j = seen[c].job OBVIOUS
<1>2. j \in JobIds /\ job[j].state \in States BY <1>1, FreshJob DEF TransitionJob
<1>3. job' = [k \in JobIds |->
                IF k = j THEN Moved(job[j], s)
                ELSE IF s = "succeeded" /\ Releases(k, j) THEN Released(job[k])
                ELSE job[k]]
  BY <1>1 DEF TransitionJob
<1>4. job[j].state \notin Finished BY <1>1 DEF TransitionJob
<1>5. TransitionEffect(j, s)
  BY <1>2, <1>3, <1>4 DEF TransitionEffect, Moved, Released
<1> QED BY <1>1, <1>5

\* Every operation on jobs moves each job in one of the three ways.
LEMMA JobMove ==
  ASSUME JobsInv, [JobsNext]_jobVars PROVE \A k \in JobIds : JobMoves(k)
<1>1. ASSUME NEW j \in JobIds, NEW D \in SUBSET JobIds, CreateJob(j, D)
      PROVE  \A k \in JobIds : JobMoves(k)
  BY <1>1 DEF CreateJob, JobsInv, JobsTypeOK, JobMoves
<1>2. ASSUME NEW c \in Clients, NEW s \in States, TransitionJob(c, s)
      PROVE  \A k \in JobIds : JobMoves(k)
  <2>1. PICK j : TransitionEffect(j, s) BY <1>2, TransitionRows
  <2>2. "pending" \in States \ Finished /\ "ready" \in States BY DEF States, Finished
  <2>3. \A k \in JobIds : Releases(k, j) => job[k].state = "pending" BY DEF Releases
  <2>4. ASSUME NEW k \in JobIds PROVE JobMoves(k)
    <3>1. CASE k = j BY <2>1, <3>1 DEF TransitionEffect, JobMoves
    <3>2. CASE k # j BY <2>1, <2>2, <2>3, <3>2 DEF TransitionEffect, JobMoves
    <3> QED BY <3>1, <3>2
  <2> QED BY <2>4
<1>3. ASSUME NEW c \in Clients, NEW a \in Attempts, StartOperation(c, a)
      PROVE  \A k \in JobIds : JobMoves(k)
  <2> DEFINE j == seen[c].job
  <2>1. j \in JobIds BY <1>3, FreshJob DEF StartOperation
  <2>2. "ready" \in States \ Finished /\ "running" \in States BY DEF States, Finished
  <2> QED BY <1>3, <2>1, <2>2 DEF StartOperation, Moved, JobMoves, JobsInv, JobsTypeOK
<1>4. CASE job' = job BY <1>4 DEF JobMoves
<1> QED BY <1>1, <1>2, <1>3, <1>4 DEF JobsNext, ReadJob, jobVars

-----------------------------------------------------------------------------
\* The tables keep their types.
LEMMA TypeStep == ASSUME JobsInv, [JobsNext]_jobVars PROVE JobsTypeOK'
<1> USE DEF JobsInv, JobsTypeOK
<1>1. ASSUME NEW j \in JobIds, NEW D \in SUBSET JobIds, CreateJob(j, D) PROVE JobsTypeOK'
  BY <1>1 DEF CreateJob, JobRow, States
<1>2. ASSUME NEW c \in Clients, NEW j \in JobIds, ReadJob(c, j) PROVE JobsTypeOK'
  <2>1. [job |-> j, row |-> job[j]] \in View BY DEF View
  <2> QED BY <1>2, <2>1 DEF ReadJob
<1>3. ASSUME NEW c \in Clients, NEW s \in States, TransitionJob(c, s) PROVE JobsTypeOK'
  <2>0. PICK j : j = seen[c].job OBVIOUS
  <2>1. TransitionEffect(j, s) BY <1>3, <2>0, TransitionRows
  <2>2. ASSUME NEW k \in JobIds PROVE job'[k] \in JobRow
    <3>1. /\ Moved(job[k], s) \in JobRow /\ Released(job[k]) \in JobRow
          /\ job[k] \in JobRow
      BY DEF Moved, Released, JobRow, States
    <3>2. job'[k] \in {Moved(job[k], s), Released(job[k]), job[k]}
      BY <1>3, <2>0 DEF TransitionJob
    <3> QED BY <3>1, <3>2
  <2>3. job' \in [JobIds -> JobRow] BY <1>3, <2>2 DEF TransitionJob
  <2>4. seen' = [seen EXCEPT ![c].row = job'[j]] /\ job'[j] \in JobRow
    BY <1>3, <2>0, <2>1, <2>2 DEF TransitionJob, TransitionEffect
  <2>5. seen' \in [Clients -> View] BY <2>4 DEF View
  <2> QED BY <1>3, <2>3, <2>5 DEF TransitionJob
<1>4. ASSUME NEW c \in Clients, NEW a \in Attempts, StartOperation(c, a) PROVE JobsTypeOK'
  <2>1. seen[c].job \in JobIds BY <1>4, FreshJob DEF StartOperation
  <2>2. Moved(job[seen[c].job], "running") \in JobRow BY <2>1 DEF Moved, JobRow, States
  <2> QED BY <1>4, <2>1, <2>2 DEF StartOperation
<1>5. CASE UNCHANGED jobVars BY <1>5 DEF jobVars
<1> QED BY <1>1, <1>2, <1>3, <1>4, <1>5 DEF JobsNext

\* Copies stay past versions of the rows they were read from.
LEMMA SeenStep == ASSUME JobsInv, JobsTypeOK', [JobsNext]_jobVars PROVE SeenInv'
<1> SUFFICES ASSUME NEW c \in Clients, seen'[c].job \in JobIds
             PROVE  LET j == seen'[c].job IN
                    /\ job'[j].state # "absent"
                    /\ seen'[c].row.revision <= job'[j].revision
                    /\ seen'[c].row.revision = job'[j].revision
                          => seen'[c].row.state = job'[j].state
  BY DEF SeenInv
<1> DEFINE j == seen'[c].job
<1>1. JobMoves(j) BY JobMove
<1>2. job[j].revision \in Nat /\ job'[j].revision \in Nat /\ seen[c].row.revision \in Nat
  BY DEF JobsInv, JobsTypeOK, JobRow, View
<1>3. "absent" \notin States BY DEF States, Finished
<1>4. CASE seen'[c] = seen[c]
  <2>1. /\ job[j].state # "absent"
        /\ seen[c].row.revision <= job[j].revision
        /\ seen[c].row.revision = job[j].revision => seen[c].row.state = job[j].state
    BY <1>4 DEF JobsInv, SeenInv
  <2> QED BY <1>1, <1>2, <1>3, <1>4, <2>1 DEF JobMoves
<1>5. CASE seen'[c].row = job'[j] /\ job'[j].state # "absent" BY <1>2, <1>5
<1>6. ASSUME NEW d \in Clients, NEW k \in JobIds, ReadJob(d, k)
      PROVE  seen'[c] = seen[c] \/ (seen'[c].row = job'[j] /\ job'[j].state # "absent")
  BY <1>6 DEF ReadJob, Created, JobsInv, JobsTypeOK
<1>7. ASSUME NEW d \in Clients, NEW s \in States, TransitionJob(d, s)
      PROVE  seen'[c] = seen[c] \/ (seen'[c].row = job'[j] /\ job'[j].state # "absent")
  <2>1. seen' = [seen EXCEPT ![d].row = job'[seen[d].job]] BY <1>7 DEF TransitionJob
  <2>2. job'[seen[d].job].state = s
    BY <1>7, TransitionRows DEF TransitionEffect
  <2> QED BY <2>1, <2>2, <1>3 DEF JobsInv, JobsTypeOK, View
<1>8. seen' = seen => seen'[c] = seen[c] OBVIOUS
<1> QED
  BY <1>4, <1>5, <1>6, <1>7, <1>8 DEF JobsNext, CreateJob, StartOperation, jobVars

-----------------------------------------------------------------------------
\* All of D has succeeded after the step.
CompleteAfter(D) == \A d \in D : job'[d].state = "succeeded"

\* A succeeded job stays succeeded, so complete dependencies stay complete.
LEMMA CompleteStays ==
  ASSUME JobsInv, [JobsNext]_jobVars, NEW D \in SUBSET JobIds, Complete(D)
  PROVE  CompleteAfter(D)
<1>1. \A k \in JobIds : JobMoves(k) BY JobMove
<1> QED BY <1>1 DEF Complete, CompleteAfter, JobMoves, Finished

\* Dependencies keep gating jobs, and pending jobs keep waiting for one.
LEMMA DependencyStep ==
  ASSUME JobsInv, [JobsNext]_jobVars PROVE DependenciesGate' /\ PendingIsBlocked'
<1> SUFFICES ASSUME NEW k \in JobIds
             PROVE  /\ job'[k].state \notin {"absent", "pending", "cancelled"}
                           => CompleteAfter(deps'[k])
                    /\ job'[k].state = "pending" => ~CompleteAfter(deps'[k])
  BY DEF DependenciesGate, PendingIsBlocked, Complete, CompleteAfter
<1> DEFINE Goal == /\ job'[k].state \notin {"absent", "pending", "cancelled"}
                           => CompleteAfter(deps'[k])
                   /\ job'[k].state = "pending" => ~CompleteAfter(deps'[k])
<1>0. /\ deps[k] \in SUBSET JobIds
      /\ job[k].state \notin {"absent", "pending", "cancelled"} => Complete(deps[k])
      /\ job[k].state = "pending" => ~Complete(deps[k])
  BY DEF JobsInv, JobsTypeOK, DependenciesGate, PendingIsBlocked
<1>1. ASSUME NEW j \in JobIds, NEW D \in SUBSET JobIds, CreateJob(j, D) PROVE Goal
  <2>1. /\ job[j].state = "absent"
        /\ \A i \in JobIds \ {j} : job'[i] = job[i] /\ deps'[i] = deps[i]
        /\ deps'[j] = D /\ j \notin D
        /\ job'[j].state = IF Complete(D) THEN "ready" ELSE "pending"
    BY <1>1 DEF CreateJob, JobsInv, JobsTypeOK, Created
  <2>2. CASE k = j BY <2>1, <2>2 DEF Complete, CompleteAfter
  <2>3. CASE k # j
    <3>1. deps'[k] = deps[k] /\ job'[k] = job[k] BY <2>1, <2>3
    <3>2. job'[j].state # "succeeded" BY <2>1
    <3> QED BY <1>0, <2>1, <3>1, <3>2 DEF Complete, CompleteAfter
  <2> QED BY <2>2, <2>3
<1>2. ASSUME NEW c \in Clients, NEW s \in States, TransitionJob(c, s) PROVE Goal
  <2>0. PICK j : j = seen[c].job OBVIOUS
  <2>1. deps' = deps BY <1>2 DEF TransitionJob
  <2>2. /\ j \in JobIds /\ job[j].state \in States \ Finished
        /\ job'[j].state = s
        /\ \A i \in JobIds \ {j} : IF s = "succeeded" /\ Releases(i, j)
                                   THEN job'[i].state = "ready" ELSE job'[i] = job[i]
    BY <1>2, <2>0, TransitionRows DEF TransitionEffect
  <2>3. Complete(deps[k]) => CompleteAfter(deps[k]) BY <1>0, CompleteStays
  <2>4. s \in Transitions[job[j].state] \cup {job[j].state} BY <1>2, <2>0 DEF TransitionJob
  <2>5. /\ s = "pending" => job[j].state = "pending"
        /\ job[j].state = "pending" => s \in {"pending", "cancelled"}
    BY <2>2, <2>4, TransitionFacts
  <2>6. CASE k = j
    <3>1. job[j].state # "absent" BY <2>2 DEF States, Finished
    <3>2. s = "pending" => ~CompleteAfter(deps[k])
      <4> SUFFICES ASSUME s = "pending" PROVE ~CompleteAfter(deps[k]) OBVIOUS
      <4>1. PICK d \in deps[k] : job[d].state # "succeeded" BY <1>0, <2>5, <2>6 DEF Complete
      <4>2. job'[d].state # "succeeded" BY <1>0, <2>2, <4>1
      <4> QED BY <4>1, <4>2 DEF CompleteAfter
    <3> QED BY <1>0, <2>1, <2>2, <2>3, <2>5, <2>6, <3>1, <3>2 DEF Finished
  <2>7. CASE k # j /\ s = "succeeded" /\ Releases(k, j)
    <3>1. \A d \in deps[k] \ {j} : job[d].state = "succeeded"
      BY <2>7 DEF Releases, Complete
    <3>2. \A d \in deps[k] : job'[d].state = "succeeded"
      BY <1>0, <2>2, <2>7, <3>1 DEF Releases
    <3> QED BY <2>1, <2>2, <2>7, <3>2 DEF CompleteAfter
  <2>8. CASE k # j /\ ~(s = "succeeded" /\ Releases(k, j))
    <3>1. job'[k] = job[k] BY <2>2, <2>8
    <3>2. job[k].state = "pending" => ~CompleteAfter(deps[k])
      <4> SUFFICES ASSUME job[k].state = "pending" PROVE ~CompleteAfter(deps[k]) OBVIOUS
      <4>1. PICK d \in deps[k] : job[d].state # "succeeded" /\ (d = j => s # "succeeded")
        BY <1>0, <2>8 DEF Complete, Releases
      <4>2. job'[d].state # "succeeded" BY <1>0, <2>2, <4>1
      <4> QED BY <4>1, <4>2 DEF CompleteAfter
    <3> QED BY <1>0, <2>1, <2>3, <3>1, <3>2
  <2> QED BY <2>6, <2>7, <2>8
<1>3. ASSUME NEW c \in Clients, NEW a \in Attempts, StartOperation(c, a) PROVE Goal
  <2> DEFINE j == seen[c].job
  <2>1. /\ j \in JobIds /\ job[j].state = "ready" /\ deps' = deps
        /\ job' = [job EXCEPT ![j] = Moved(@, "running")]
    BY <1>3, FreshJob DEF StartOperation
  <2>2. \A i \in JobIds : job'[i].state = IF i = j THEN "running" ELSE job[i].state
    BY <2>1 DEF Moved, JobsInv, JobsTypeOK
  <2>3. Complete(deps[k]) <=> CompleteAfter(deps[k])
    BY <1>0, <2>1, <2>2 DEF Complete, CompleteAfter
  <2> QED BY <1>0, <2>1, <2>2, <2>3
<1>4. CASE UNCHANGED <<job, deps>>
  BY <1>0, <1>4 DEF Complete, CompleteAfter
<1> QED BY <1>1, <1>2, <1>3, <1>4 DEF JobsNext, ReadJob, jobVars

-----------------------------------------------------------------------------
(* The theorems. *)

\* The empty tables satisfy the invariant.
LEMMA JobsInvInit == JobsInit => JobsInv
BY JobsAssumption DEF JobsInit, JobsInv, JobsTypeOK, SeenInv, DependenciesGate,
   PendingIsBlocked, Absent, JobRow, View

\* Every operation on jobs preserves the invariant.
LEMMA JobsInvStep == ASSUME JobsInv, [JobsNext]_jobVars PROVE JobsInv'
BY TypeStep, SeenStep, DependencyStep DEF JobsInv

\* The invariant holds in every reachable state.
LEMMA JobsInvariance == JobsSpec => []JobsInv
<1>1. JobsInit => JobsInv BY JobsInvInit
<1>2. JobsInv /\ [JobsNext]_jobVars => JobsInv' BY JobsInvStep
<1> QED BY <1>1, <1>2, PTL DEF JobsSpec

\* Job rows, dependencies, attempts and what clients have read are well-typed
\* after any sequence of create_job, transition_job and start_job_operation.
THEOREM JobTypes == JobsSpec => []JobsTypeOK
<1>1. JobsInv => JobsTypeOK BY DEF JobsInv
<1> QED BY <1>1, JobsInvariance, PTL

\* A job gets past "pending" only when all its prerequisites have succeeded.
THEOREM DependenciesGateJobs == JobsSpec => []DependenciesGate
<1>1. JobsInv => DependenciesGate BY DEF JobsInv
<1> QED BY <1>1, JobsInvariance, PTL

\* A pending job waits for a prerequisite that has not succeeded.
THEOREM NoForgottenJob == JobsSpec => []PendingIsBlocked
<1>1. JobsInv => PendingIsBlocked BY DEF JobsInv
<1> QED BY <1>1, JobsInvariance, PTL

\* A client that names the current revision has seen the current state.
THEOREM RevisionsAreEnough == JobsSpec => []RevisionMeansState
<1>1. JobsInv => RevisionMeansState BY DEF JobsInv, SeenInv, RevisionMeansState
<1> QED BY <1>1, JobsInvariance, PTL
=============================================================================
