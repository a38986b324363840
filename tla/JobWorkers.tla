----------------------------- MODULE JobWorkers -----------------------------
(***************************************************************************)
(* Worker ownership of job attempts: the worker_ownership and              *)
(* supervisor_lease tables of WorkspaceStore                               *)
(* (packages/local/src/powdrr_local/workspace.py).  A supervisor that      *)
(* holds the lease claims a bound attempt for a worker process, and renews *)
(* that ownership with heartbeats until the worker exits or is lost.       *)
(*                                                                         *)
(* Both leases carry an expiry time, so this module has a clock.  A worker *)
(* process knows only the expiry it was last granted and may act until     *)
(* then, whatever happens to the tables: `grant' is that knowledge.        *)
(***************************************************************************)
EXTENDS Jobs

CONSTANTS
    Workers,           \* worker identities: worker_id and process identity
    Supervisors,       \* supervisor processes
    Nobody,            \* no process
    SupervisorLease,   \* length of a supervisor lease, the same at every renewal
    WorkerLeases,      \* lengths a worker lease may be asked for
    MaxTime,           \* bound: clock
    MaxGenerations     \* bound: lease generations

ASSUME WorkersAssumption ==
    /\ Nobody \notin Workers \cup Supervisors
    /\ SupervisorLease \in Nat \ {0}
    /\ WorkerLeases \subseteq Nat \ {0}
    /\ MaxTime \in Nat
    /\ MaxGenerations \in Nat

VARIABLES
    now,         \* wall-clock time
    lease,       \* the supervisor_lease row
    held,        \* the generation each supervisor believes it holds; 0 if none
    owner,       \* worker_ownership: the row of each attempt
    grant,       \* what each worker process was last told
    released     \* generations given up by release_supervisor_lease (history)

workerVars == <<now, lease, held, owner, grant, released>>
vars == <<jobVars, workerVars>>

-----------------------------------------------------------------------------
Slot == JobIds \X Attempts

LeaseRow == [owner : Supervisors \cup {Nobody}, generation : Nat, expires : Nat]

\* The row revision only refuses requests made on an older reading of the row;
\* such a request changes nothing, so the revision is left out.
OwnerRow == [worker : Workers \cup {Nobody}, supervisor : Supervisors \cup {Nobody},
             generation : Nat, expires : Nat, cancelled : BOOLEAN,
             state : {"none", "claimed", "running", "exited"}]

NoOwner == [worker |-> Nobody, supervisor |-> Nobody, generation |-> 0, expires |-> 0,
            cancelled |-> FALSE, state |-> "none"]

\* slot is <<>> when the process has been told nothing, or is gone.
Grant == [slot : Slot \cup {<<>>}, expires : Nat]

NoGrant == [slot |-> <<>>, expires |-> 0]

Init ==
    /\ JobsInit
    /\ now = 0
    /\ lease = [owner |-> Nobody, generation |-> 0, expires |-> 0]
    /\ held = [s \in Supervisors |-> 0]
    /\ owner = [x \in Slot |-> NoOwner]
    /\ grant = [w \in Workers |-> NoGrant]
    /\ released = {}

Tick ==
    /\ now < MaxTime
    /\ now' = now + 1
    /\ UNCHANGED <<jobVars, lease, held, owner, grant, released>>

-----------------------------------------------------------------------------
(* The supervisor lease. *)

\* The check at the top of every supervisor request.
LeaseMatches(s) ==
    held[s] # 0 /\ lease.owner = s /\ lease.generation = held[s] /\ lease.expires > now

\* acquire_supervisor_lease.
AcquireLease(s) ==
    /\ lease.expires <= now
    /\ lease.generation < MaxGenerations
    /\ lease' = [owner |-> s, generation |-> lease.generation + 1,
                 expires |-> now + SupervisorLease]
    /\ held' = [held EXCEPT ![s] = lease.generation + 1]
    /\ UNCHANGED <<jobVars, now, owner, grant, released>>

\* renew_supervisor_lease, or acquire_supervisor_lease by the live owner.
RenewLease(s) ==
    /\ LeaseMatches(s)
    /\ lease' = [lease EXCEPT !.expires = now + SupervisorLease]
    /\ UNCHANGED <<jobVars, now, held, owner, grant, released>>

\* release_supervisor_lease ends the lease now, not the leases of its workers.
ReleaseLease(s) ==
    /\ held[s] # 0
    /\ lease.owner = s /\ lease.generation = held[s]
    /\ lease' = [lease EXCEPT !.expires = now]
    /\ held' = [held EXCEPT ![s] = 0]
    /\ released' = released \cup {lease.generation}
    /\ UNCHANGED <<jobVars, now, owner, grant>>

-----------------------------------------------------------------------------
(* Worker ownership. *)

\* Mutants: a worker lease may outlast the lease of its supervisor, and a
\* remaining time is stored where an instant belongs.
UncappedExpiry(n) == now + n
RemainingTime(n) == lease.expires - (now + n)

\* A worker lease ends no later than the lease it is granted under.
WorkerExpiry(n) == IF now + n <= lease.expires THEN now + n ELSE lease.expires

\* Mutants: a live worker is no obstacle, nor is a cancelled attempt.
NotCancelled(x) == ~owner[x].cancelled
NotLive(x) == owner[x].expires <= now

\* The attempt has no owner, or one that lost it and was not cancelled.
Reclaimable(x) == owner[x].expires <= now /\ ~owner[x].cancelled

\* claim_job_worker.  A worker_id names one row; claiming again what one owns
\* returns the row unchanged.
ClaimWorker(s, w, x, n) ==
    /\ LeaseMatches(s)
    /\ x \in operations
    /\ job[x[1]].state = "running"
    /\ Reclaimable(x)
    /\ \A y \in Slot \ {x} : owner[y].worker # w
    /\ owner' = [owner EXCEPT ![x] = [worker |-> w, supervisor |-> s,
                                      generation |-> held[s], expires |-> WorkerExpiry(n),
                                      cancelled |-> owner[x].cancelled, state |-> "claimed"]]
    /\ grant' = [grant EXCEPT ![w] = [slot |-> x, expires |-> WorkerExpiry(n)]]
    /\ UNCHANGED <<jobVars, now, lease, held, released>>

\* The row names this worker of this supervisor and generation.
OwnedBy(s, w, x) ==
    owner[x].worker = w /\ owner[x].supervisor = s /\ owner[x].generation = held[s]

\* heartbeat_job_worker.
Heartbeat(s, w, x, n) ==
    /\ LeaseMatches(s)
    /\ OwnedBy(s, w, x)
    /\ owner[x].expires > now
    /\ owner[x].state # "exited"
    /\ owner' = [owner EXCEPT ![x].expires = WorkerExpiry(n), ![x].state = "running"]
    /\ grant' = [grant EXCEPT ![w] = [slot |-> x, expires |-> WorkerExpiry(n)]]
    /\ UNCHANGED <<jobVars, now, lease, held, released>>

\* mark_job_worker_exited: the supervisor saw the process end.
MarkExited(s, w, x) ==
    /\ LeaseMatches(s)
    /\ OwnedBy(s, w, x)
    /\ owner[x].expires > now
    /\ owner[x].state # "exited"
    /\ owner' = [owner EXCEPT ![x].expires = now, ![x].state = "exited"]
    /\ grant' = [grant EXCEPT ![w] = NoGrant]
    /\ UNCHANGED <<jobVars, now, lease, held, released>>

\* request_job_worker_cancellation, which needs no lease.
RequestCancellation(x) ==
    /\ owner[x].worker # Nobody
    /\ owner[x].state # "exited"
    /\ owner' = [owner EXCEPT ![x].cancelled = TRUE]
    /\ UNCHANGED <<jobVars, now, lease, held, grant, released>>

-----------------------------------------------------------------------------
Next ==
    \/ JobsNext /\ UNCHANGED workerVars
    \/ Tick
    \/ \E s \in Supervisors : AcquireLease(s) \/ RenewLease(s) \/ ReleaseLease(s)
    \/ \E s \in Supervisors, w \in Workers, x \in Slot :
        \/ \E n \in WorkerLeases : ClaimWorker(s, w, x, n) \/ Heartbeat(s, w, x, n)
        \/ MarkExited(s, w, x)
    \/ \E x \in Slot : RequestCancellation(x)

Spec == Init /\ [][Next]_vars

-----------------------------------------------------------------------------
TypeOK ==
    /\ JobsTypeOK
    /\ now \in Nat
    /\ lease \in LeaseRow
    /\ held \in [Supervisors -> Nat]
    /\ owner \in [Slot -> OwnerRow]
    /\ grant \in [Workers -> Grant]
    /\ released \subseteq Nat

(* Properties. *)

\* A worker process that still holds an unexpired grant of attempt x.
Working(w, x) == grant[w].slot = x /\ grant[w].expires > now

\* No two processes hold unexpired grants of one attempt: it is handed to another
\* worker only when the lease its last owner knows of has run out, or its
\* process has ended, across supervisor takeovers and late heartbeats.
OneWorkerPerAttempt ==
    \A x \in Slot : \A v, w \in Workers : Working(v, x) /\ Working(w, x) => v = w

\* A worker outlives the supervisor generation it was claimed under only if
\* that generation gave its lease up early (release_supervisor_lease): after
\* an expiry or a crash no worker is left when the next supervisor takes over.
NoOrphanWorker ==
    \A x \in Slot : (owner[x].expires > now /\ owner[x].generation # lease.generation)
                        => owner[x].generation \in released

\* A cancelled attempt stays cancelled and is never given to another worker.
CancelledStaysWithWorker ==
    [][\A x \in Slot : owner[x].cancelled =>
            owner'[x].cancelled /\ owner'[x].worker = owner[x].worker]_vars
=============================================================================
