-------------------------- MODULE JobWorkersProofs --------------------------
(***************************************************************************)
(* Proofs that worker ownership is exclusive and bounded by the lease of   *)
(* the supervisor, for any jobs, attempts, workers, supervisors, lease     *)
(* lengths and bounds.  The job tables keep the invariant of JobsProofs.   *)
(***************************************************************************)
EXTENDS JobWorkers, JobsProofs

\* An unexpired grant agrees with the row of its attempt.
GrantInv ==
    \A w \in Workers, x \in Slot :
        Working(w, x) => owner[x].worker = w /\ owner[x].expires = grant[w].expires

\* A live row is of the current generation and ends no later than its lease,
\* or of a generation that was given up.
RowInv ==
    \A x \in Slot : owner[x].expires > now =>
        \/ owner[x].generation = lease.generation /\ owner[x].expires <= lease.expires
        \/ owner[x].generation \in released

\* A lease is never longer than from now on, so renewing does not shorten it.
LeaseInv == lease.expires <= now + SupervisorLease

WorkersInv == TypeOK /\ GrantInv /\ RowInv /\ LeaseInv

WorkerOps(s, w, x) ==
    \/ \E n \in WorkerLeases : ClaimWorker(s, w, x, n) \/ Heartbeat(s, w, x, n)
    \/ MarkExited(s, w, x)

-----------------------------------------------------------------------------
\* What is granted to a worker lies within the lease of its supervisor.
LEMMA WorkerExpiryBounds ==
    ASSUME TypeOK, NEW n \in WorkerLeases
    PROVE  WorkerExpiry(n) \in Nat /\ WorkerExpiry(n) <= lease.expires
<1>1. n \in Nat /\ now \in Nat /\ lease.expires \in Nat
  BY WorkersAssumption DEF TypeOK, LeaseRow
<1> QED BY <1>1 DEF WorkerExpiry

\* The empty tables satisfy the invariant.
LEMMA WorkersInvInit == Init => WorkersInv
<1> SUFFICES ASSUME Init PROVE WorkersInv
  OBVIOUS
<1>1. JobsTypeOK
  BY JobsInvInit DEF Init, JobsInv
<1>2. TypeOK
  BY <1>1 DEF Init, TypeOK, LeaseRow, OwnerRow, Grant, NoOwner, NoGrant
<1>3. GrantInv
  BY DEF Init, GrantInv, Working, NoGrant
<1>4. RowInv
  BY DEF Init, RowInv, NoOwner
<1>5. LeaseInv
  BY WorkersAssumption DEF Init, LeaseInv
<1> QED BY <1>2, <1>3, <1>4, <1>5 DEF WorkersInv

\* The tables keep their types.
LEMMA WorkersTypeStep ==
    ASSUME TypeOK, JobsTypeOK', [Next]_vars PROVE TypeOK'
<1> USE DEF TypeOK
<1>1. CASE UNCHANGED workerVars
  BY <1>1 DEF workerVars
<1>2. CASE Tick
  BY <1>2 DEF Tick
<1>3. ASSUME NEW s \in Supervisors, AcquireLease(s) \/ RenewLease(s) \/ ReleaseLease(s)
      PROVE  TypeOK'
  BY <1>3, WorkersAssumption DEF AcquireLease, RenewLease, ReleaseLease, LeaseRow
<1>4. ASSUME NEW s \in Supervisors, NEW w \in Workers, NEW x \in Slot,
             NEW n \in WorkerLeases, ClaimWorker(s, w, x, n)
      PROVE  TypeOK'
  <2>1. WorkerExpiry(n) \in Nat
    BY WorkerExpiryBounds
  <2>2. owner' \in [Slot -> OwnerRow]
    BY <1>4, <2>1, SMTT(30) DEF ClaimWorker, OwnerRow
  <2>3. grant' \in [Workers -> Grant]
    BY <1>4, <2>1, SMTT(30) DEF ClaimWorker, Grant
  <2> QED BY <1>4, <2>2, <2>3 DEF ClaimWorker
<1>5. ASSUME NEW s \in Supervisors, NEW w \in Workers, NEW x \in Slot,
             NEW n \in WorkerLeases, Heartbeat(s, w, x, n)
      PROVE  TypeOK'
  <2>1. WorkerExpiry(n) \in Nat
    BY WorkerExpiryBounds
  <2>2. owner' \in [Slot -> OwnerRow]
    <3>1. PICK row : row = [owner[x] EXCEPT !.expires = WorkerExpiry(n), !.state = "running"]
      OBVIOUS
    <3>2. owner[x] \in OwnerRow
      OBVIOUS
    <3>3. row \in OwnerRow
      BY <2>1, <3>1, <3>2 DEF OwnerRow
    <3>4. owner' = [owner EXCEPT ![x] = row]
      BY <1>5, <3>1 DEF Heartbeat
    <3> QED BY <3>3, <3>4
  <2>3. grant' \in [Workers -> Grant]
    BY <1>5, <2>1, SMTT(30) DEF Heartbeat, Grant
  <2> QED BY <1>5, <2>2, <2>3 DEF Heartbeat
<1>6. ASSUME NEW s \in Supervisors, NEW w \in Workers, NEW x \in Slot, MarkExited(s, w, x)
      PROVE  TypeOK'
  <2>1. owner' \in [Slot -> OwnerRow]
    BY <1>6, SMTT(30) DEF MarkExited, OwnerRow
  <2>2. grant' \in [Workers -> Grant]
    BY <1>6, SMTT(30) DEF MarkExited, Grant, NoGrant
  <2> QED BY <1>6, <2>1, <2>2 DEF MarkExited
<1>7. ASSUME NEW x \in Slot, RequestCancellation(x) PROVE TypeOK'
  BY <1>7 DEF RequestCancellation, OwnerRow
<1> QED BY <1>1, <1>2, <1>3, <1>4, <1>5, <1>6, <1>7 DEF Next, vars

\* An operation of a supervisor on an attempt touches only that attempt's row
\* and that worker's grant, finds no other worker at work there, and leaves row
\* and grant in agreement and within the lease.
LEMMA WorkerOpEffect ==
    ASSUME WorkersInv, NEW s \in Supervisors, NEW w \in Workers, NEW x \in Slot,
           WorkerOps(s, w, x)
    PROVE  /\ UNCHANGED <<now, lease, released>>
           /\ \A y \in Slot \ {x} : owner'[y] = owner[y]
           /\ \A v \in Workers \ {w} : grant'[v] = grant[v] /\ ~Working(v, x)
           /\ owner'[x].worker = w
           /\ grant'[w] = NoGrant \/ grant'[w] = [slot |-> x, expires |-> owner'[x].expires]
           /\ \/ owner'[x].expires <= now
              \/ owner'[x].generation = lease.generation /\ owner'[x].expires <= lease.expires
<1> USE DEF WorkersInv, TypeOK
<1>1. ASSUME NEW n \in WorkerLeases, ClaimWorker(s, w, x, n)
      PROVE  /\ owner'[x].worker = w
             /\ owner'[x].generation = held[s]
             /\ owner'[x].expires = WorkerExpiry(n)
             /\ grant'[w] = [slot |-> x, expires |-> WorkerExpiry(n)]
             /\ lease.generation = held[s]
             /\ owner[x].expires <= now
             /\ UNCHANGED <<now, lease, released>>
             /\ \A y \in Slot \ {x} : owner'[y] = owner[y]
             /\ \A v \in Workers \ {w} : grant'[v] = grant[v]
  BY <1>1 DEF ClaimWorker, LeaseMatches, Reclaimable
<1>2. ASSUME NEW n \in WorkerLeases, Heartbeat(s, w, x, n)
      PROVE  /\ owner'[x] = [owner[x] EXCEPT !.expires = WorkerExpiry(n), !.state = "running"]
             /\ grant'[w] = [slot |-> x, expires |-> WorkerExpiry(n)]
             /\ owner[x].generation = lease.generation
             /\ owner[x].worker = w
             /\ UNCHANGED <<now, lease, released>>
             /\ \A y \in Slot \ {x} : owner'[y] = owner[y]
             /\ \A v \in Workers \ {w} : grant'[v] = grant[v]
  BY <1>2 DEF Heartbeat, LeaseMatches, OwnedBy
<1>3. ASSUME MarkExited(s, w, x)
      PROVE  /\ owner'[x] = [owner[x] EXCEPT !.expires = now, !.state = "exited"]
             /\ grant'[w] = NoGrant
             /\ owner[x].worker = w
             /\ UNCHANGED <<now, lease, released>>
             /\ \A y \in Slot \ {x} : owner'[y] = owner[y]
             /\ \A v \in Workers \ {w} : grant'[v] = grant[v]
  BY <1>3 DEF MarkExited, OwnedBy
<1>4. owner[x] \in OwnerRow /\ now \in Nat
  OBVIOUS
<1>5. ASSUME owner[x].worker = w \/ owner[x].expires <= now
      PROVE  \A v \in Workers \ {w} : ~Working(v, x)
  BY <1>4, <1>5 DEF GrantInv, Working, OwnerRow
<1>6. CASE \E n \in WorkerLeases : ClaimWorker(s, w, x, n)
  <2>1. PICK n \in WorkerLeases : ClaimWorker(s, w, x, n)
    BY <1>6
  <2>2. /\ owner'[x].worker = w
        /\ owner'[x].generation = lease.generation
        /\ owner'[x].expires = WorkerExpiry(n)
    BY <1>1, <2>1
  <2>3. \A v \in Workers \ {w} : ~Working(v, x)
    BY <1>1, <1>5, <2>1
  <2>4. WorkerExpiry(n) <= lease.expires
    BY WorkerExpiryBounds
  <2> QED BY <1>1, <2>1, <2>2, <2>3, <2>4
<1>7. CASE \E n \in WorkerLeases : Heartbeat(s, w, x, n)
  <2>1. PICK n \in WorkerLeases : Heartbeat(s, w, x, n)
    BY <1>7
  <2>2. /\ owner'[x].worker = w
        /\ owner'[x].generation = lease.generation
        /\ owner'[x].expires = WorkerExpiry(n)
    BY <1>2, <1>4, <2>1 DEF OwnerRow
  <2>3. \A v \in Workers \ {w} : ~Working(v, x)
    BY <1>2, <1>5, <2>1
  <2>4. WorkerExpiry(n) <= lease.expires
    BY WorkerExpiryBounds
  <2> QED BY <1>2, <2>1, <2>2, <2>3, <2>4
<1>8. CASE MarkExited(s, w, x)
  <2>1. owner'[x].worker = w /\ owner'[x].expires = now
    BY <1>3, <1>4, <1>8 DEF OwnerRow
  <2> QED BY <1>3, <1>4, <1>5, <1>8, <2>1
<1> QED BY <1>6, <1>7, <1>8 DEF WorkerOps

\* Every step preserves the invariant.
LEMMA WorkersInvStep ==
    ASSUME WorkersInv, JobsTypeOK', [Next]_vars PROVE WorkersInv'
<1>1. TypeOK /\ TypeOK'
  BY WorkersTypeStep DEF WorkersInv
<1>2. /\ now \in Nat /\ lease.expires \in Nat /\ SupervisorLease \in Nat
      /\ \A x \in Slot : owner[x] \in OwnerRow /\ owner[x].expires \in Nat
      /\ \A w \in Workers : grant[w].expires \in Nat
  BY <1>1, WorkersAssumption DEF TypeOK, LeaseRow, OwnerRow, Grant
<1> USE DEF WorkersInv
<1>3. CASE UNCHANGED workerVars
  <2>1. GrantInv' /\ RowInv' /\ LeaseInv'
    BY <1>3 DEF workerVars, GrantInv, RowInv, LeaseInv, Working
  <2> QED BY <1>1, <2>1
<1>4. CASE Tick
  <2>1. GrantInv' /\ RowInv' /\ LeaseInv'
    BY <1>2, <1>4 DEF Tick, GrantInv, RowInv, LeaseInv, Working
  <2> QED BY <1>1, <2>1
<1>5. ASSUME NEW s \in Supervisors, AcquireLease(s) PROVE WorkersInv'
  <2>1. GrantInv' /\ RowInv' /\ LeaseInv'
    BY <1>2, <1>5 DEF AcquireLease, GrantInv, RowInv, LeaseInv, Working
  <2> QED BY <1>1, <2>1
<1>6. ASSUME NEW s \in Supervisors, RenewLease(s) PROVE WorkersInv'
  <2>1. /\ lease'.generation = lease.generation
        /\ lease'.expires = now + SupervisorLease
        /\ UNCHANGED <<now, owner, grant, released>>
    BY <1>1, <1>6 DEF RenewLease, TypeOK, LeaseRow
  <2>2. GrantInv' /\ RowInv' /\ LeaseInv'
    BY <1>2, <2>1 DEF GrantInv, RowInv, LeaseInv, Working
  <2> QED BY <1>1, <2>2
<1>7. ASSUME NEW s \in Supervisors, ReleaseLease(s) PROVE WorkersInv'
  <2>1. /\ lease'.generation = lease.generation
        /\ lease'.expires = now
        /\ released' = released \cup {lease.generation}
        /\ UNCHANGED <<now, owner, grant>>
    BY <1>1, <1>7 DEF ReleaseLease, TypeOK, LeaseRow
  <2>2. GrantInv' /\ RowInv' /\ LeaseInv'
    BY <1>2, <2>1 DEF GrantInv, RowInv, LeaseInv, Working
  <2> QED BY <1>1, <2>2
<1>8. ASSUME NEW s \in Supervisors, NEW w \in Workers, NEW x \in Slot, WorkerOps(s, w, x)
      PROVE  WorkersInv'
  <2>1. /\ UNCHANGED <<now, lease, released>>
        /\ \A y \in Slot \ {x} : owner'[y] = owner[y]
        /\ \A v \in Workers \ {w} : grant'[v] = grant[v] /\ ~Working(v, x)
        /\ owner'[x].worker = w
        /\ grant'[w] = NoGrant \/ grant'[w] = [slot |-> x, expires |-> owner'[x].expires]
        /\ \/ owner'[x].expires <= now
           \/ owner'[x].generation = lease.generation /\ owner'[x].expires <= lease.expires
    BY <1>8, WorkerOpEffect
  <2>2. owner'[x].expires \in Nat
    BY <1>1 DEF TypeOK, OwnerRow
  <2>3. ASSUME NEW v \in Workers, NEW y \in Slot, Working(v, y)'
        PROVE  owner'[y].worker = v /\ owner'[y].expires = grant'[v].expires
    <3>1. CASE v = w
      <4>1. grant'[w] # NoGrant
        BY <1>2, <2>1, <2>3, <3>1 DEF Working, NoGrant
      <4> QED BY <2>1, <2>3, <3>1, <4>1 DEF Working
    <3>2. CASE v # w
      <4>1. Working(v, y) /\ y # x /\ grant'[v] = grant[v]
        BY <2>1, <2>3, <3>2 DEF Working
      <4> QED BY <2>1, <4>1 DEF GrantInv
    <3> QED BY <3>1, <3>2
  <2>4. GrantInv'
    BY <2>3 DEF GrantInv
  <2>5. RowInv'
    BY <1>2, <2>1, <2>2 DEF RowInv
  <2>6. LeaseInv'
    BY <2>1 DEF LeaseInv
  <2> QED BY <1>1, <2>4, <2>5, <2>6
<1>9. ASSUME NEW x \in Slot, RequestCancellation(x) PROVE WorkersInv'
  <2>1. /\ UNCHANGED <<now, lease, grant, released>>
        /\ \A y \in Slot : /\ owner'[y].worker = owner[y].worker
                           /\ owner'[y].expires = owner[y].expires
                           /\ owner'[y].generation = owner[y].generation
    BY <1>1, <1>9 DEF RequestCancellation, TypeOK, OwnerRow
  <2>2. GrantInv' /\ RowInv' /\ LeaseInv'
    BY <1>2, <2>1 DEF GrantInv, RowInv, LeaseInv, Working
  <2> QED BY <1>1, <2>2
<1> QED BY <1>3, <1>4, <1>5, <1>6, <1>7, <1>8, <1>9 DEF Next, vars, WorkerOps

-----------------------------------------------------------------------------
(* The theorems. *)

\* Steps of this module are steps of the job tables or leave them alone.
LEMMA JobsStep == [Next]_vars => [JobsNext]_jobVars
<1>1. \A s \in Supervisors : AcquireLease(s) \/ RenewLease(s) \/ ReleaseLease(s)
                               => UNCHANGED jobVars
  BY Zenon DEF AcquireLease, RenewLease, ReleaseLease
<1>2. ASSUME NEW s \in Supervisors, NEW w \in Workers, NEW x \in Slot, NEW n \in WorkerLeases,
             ClaimWorker(s, w, x, n) \/ Heartbeat(s, w, x, n)
      PROVE  UNCHANGED jobVars
  <2>1. ClaimWorker(s, w, x, n) => UNCHANGED jobVars
    BY DEF ClaimWorker
  <2>2. Heartbeat(s, w, x, n) => UNCHANGED jobVars
    BY DEF Heartbeat
  <2> QED BY <1>2, <2>1, <2>2
<1>3. \A s \in Supervisors, w \in Workers, x \in Slot :
        MarkExited(s, w, x) => UNCHANGED jobVars
  BY Zenon DEF MarkExited
<1>4. \A x \in Slot : RequestCancellation(x) => UNCHANGED jobVars
  BY Zenon DEF RequestCancellation
<1>5. Tick => UNCHANGED jobVars
  BY Zenon DEF Tick
<1>6. UNCHANGED vars => UNCHANGED jobVars
  BY Zenon DEF vars
<1> QED BY <1>1, <1>2, <1>3, <1>4, <1>5, <1>6 DEF Next

\* Both invariants hold in every reachable state.
LEMMA WorkersInvariance == Spec => [](JobsInv /\ WorkersInv)
<1>1. Init => JobsInv /\ WorkersInv
  BY JobsInvInit, WorkersInvInit DEF Init
<1>2. ASSUME JobsInv, WorkersInv, [Next]_vars PROVE (JobsInv /\ WorkersInv)'
  <2>1. JobsInv'
    BY <1>2, JobsStep, JobsInvStep
  <2>2. JobsTypeOK'
    BY <2>1 DEF JobsInv
  <2> QED BY <1>2, <2>1, <2>2, WorkersInvStep
<1> QED BY <1>1, <1>2, PTL DEF Spec

\* Leases, owner rows and grants are well-typed after any sequence of claims,
\* heartbeats, exits, cancellations and lease operations.
THEOREM WorkerTypes == Spec => []TypeOK
<1>1. WorkersInv => TypeOK BY DEF WorkersInv
<1> QED BY <1>1, WorkersInvariance, PTL

\* No two worker processes hold an unexpired grant of the same attempt.
THEOREM ExclusiveWorkers == Spec => []OneWorkerPerAttempt
<1>1. WorkersInv => OneWorkerPerAttempt
  BY DEF WorkersInv, GrantInv, OneWorkerPerAttempt
<1> QED BY <1>1, WorkersInvariance, PTL

\* A worker outlives its supervisor generation only if that was given up.
THEOREM WorkersWithinLease == Spec => []NoOrphanWorker
<1>1. WorkersInv => NoOrphanWorker
  BY DEF WorkersInv, RowInv, NoOrphanWorker
<1> QED BY <1>1, WorkersInvariance, PTL

\* A cancelled attempt stays cancelled and with the worker it was given to.
THEOREM CancelledAttemptsStay == Spec => CancelledStaysWithWorker
<1> DEFINE Stays == \A x \in Slot : owner[x].cancelled =>
                        owner'[x].cancelled /\ owner'[x].worker = owner[x].worker
<1>1. ASSUME WorkersInv, [Next]_vars PROVE Stays
  <2> SUFFICES ASSUME NEW y \in Slot, owner[y].cancelled
               PROVE  owner'[y].cancelled /\ owner'[y].worker = owner[y].worker
    OBVIOUS
  <2>1. owner \in [Slot -> OwnerRow] /\ owner[y] \in OwnerRow
    BY <1>1 DEF WorkersInv, TypeOK
  <2>2. CASE UNCHANGED owner
    BY <2>2
  <2>3. ASSUME NEW s \in Supervisors, NEW w \in Workers, NEW x \in Slot,
               NEW n \in WorkerLeases, ClaimWorker(s, w, x, n)
        PROVE  x # y /\ owner'[y] = owner[y]
    BY <2>1, <2>3 DEF ClaimWorker, Reclaimable
  <2>4. ASSUME NEW s \in Supervisors, NEW w \in Workers, NEW x \in Slot,
               NEW n \in WorkerLeases, Heartbeat(s, w, x, n)
        PROVE  owner'[y].cancelled /\ owner'[y].worker = owner[y].worker
    BY <2>1, <2>4 DEF Heartbeat, OwnerRow
  <2>5. ASSUME NEW s \in Supervisors, NEW w \in Workers, NEW x \in Slot, MarkExited(s, w, x)
        PROVE  owner'[y].cancelled /\ owner'[y].worker = owner[y].worker
    BY <2>1, <2>5 DEF MarkExited, OwnerRow
  <2>6. ASSUME NEW x \in Slot, RequestCancellation(x)
        PROVE  owner'[y].cancelled /\ owner'[y].worker = owner[y].worker
    BY <2>1, <2>6 DEF RequestCancellation, OwnerRow
  <2>7. [Next]_vars
    BY <1>1
  <2> QED BY <2>2, <2>3, <2>4, <2>5, <2>6, <2>7
          DEF Next, vars, workerVars, Tick, AcquireLease, RenewLease, ReleaseLease
<1>2. WorkersInv /\ [Next]_vars => [Stays]_vars
  BY <1>1
<1> QED BY <1>2, WorkersInvariance, PTL DEF Spec, CancelledStaysWithWorker
=============================================================================
