-------------------------------- MODULE Jobs --------------------------------
(***************************************************************************)
(* The jobs, dependencies and job_operations tables of WorkspaceStore      *)
(* (packages/local/src/powdrr_local/workspace.py) and the operations that  *)
(* create a job, move it and bind an attempt to it.  JobActions and        *)
(* JobWorkers extend this component with what acts on jobs.                *)
(*                                                                         *)
(* Every operation is one SQLite transaction, so one action.  A caller     *)
(* (browser, supervisor or worker) first reads a job and later sends a     *)
(* request that names the revision it read; a request naming another       *)
(* revision is refused and changes nothing.  A repeated request_id returns *)
(* the saved result and changes nothing either.                            *)
(***************************************************************************)
EXTENDS Naturals

CONSTANTS
    JobIds,        \* job identifiers
    Attempts,      \* attempt identifiers of a job
    Clients,       \* callers that read a job and act on what they read
    NoJob,         \* what a client has read before it reads anything
    MaxRevision    \* bound: revisions of one job

ASSUME JobsAssumption ==
    /\ NoJob \notin JobIds
    /\ MaxRevision \in Nat

VARIABLES
    job,           \* jobs table: state and revision of each job
    deps,          \* dependencies table: the prerequisites of each job
    operations,    \* job_operations table: attempts bound to a job
    seen           \* the copy of a job row each client holds

jobVars == <<job, deps, operations, seen>>

-----------------------------------------------------------------------------
Finished == {"succeeded", "cancelled"}

States == Finished \cup {"pending", "ready", "running", "waiting_for_input",
                         "waiting_for_external", "interrupted", "failed"}

\* _TRANSITIONS.
Transitions ==
    [s \in States |->
        CASE s = "ready" -> {"running", "cancelled"}
          [] s = "running" -> States \ {"pending", "ready", "running"}
          [] s \in {"waiting_for_input", "interrupted", "failed"} -> {"ready", "cancelled"}
          [] s \in {"pending", "waiting_for_external"} -> {"cancelled"}
          [] s \in Finished -> {}]

JobRow == [state : States \cup {"absent"}, revision : Nat]

View == [job : JobIds \cup {NoJob}, row : JobRow]

Absent == [state |-> "absent", revision |-> 0]

Created == {j \in JobIds : job[j].state # "absent"}

JobsInit ==
    /\ job = [j \in JobIds |-> Absent]
    /\ deps = [j \in JobIds |-> {}]
    /\ operations = {}
    /\ seen = [c \in Clients |-> [job |-> NoJob, row |-> Absent]]

-----------------------------------------------------------------------------
(* Creating and reading. *)

Complete(D) == \A d \in D : job[d].state = "succeeded"

\* create_job: prerequisites exist already, and may have succeeded already.
CreateJob(j, D) ==
    /\ job[j].state = "absent"
    /\ D \subseteq Created
    /\ job' = [job EXCEPT ![j] = [state |-> IF Complete(D) THEN "ready" ELSE "pending",
                                  revision |-> 1]]
    /\ deps' = [deps EXCEPT ![j] = D]
    /\ UNCHANGED <<operations, seen>>

\* get_job, read_job_detail.
ReadJob(c, j) ==
    /\ j \in Created
    /\ seen' = [seen EXCEPT ![c] = [job |-> j, row |-> job[j]]]
    /\ UNCHANGED <<job, deps, operations>>

-----------------------------------------------------------------------------
(* Moving a job. *)

\* The request of c names the revision the job has now.
Fresh(c) ==
    /\ seen[c].job \in JobIds
    /\ seen[c].row.revision = job[seen[c].job].revision
    /\ job[seen[c].job].revision < MaxRevision

Moved(row, s) == [state |-> s, revision |-> row.revision + 1]

\* Mutants: a release that looks at the finished job only, and one that is
\* forgotten.
ReleasesEager(k, j) == job[k].state = "pending" /\ j \in deps[k]
ReleasesNone(k, j) == FALSE

\* _release_dependents: job k was waiting for j and for nothing else.
Releases(k, j) ==
    /\ job[k].state = "pending"
    /\ j \in deps[k]
    /\ Complete(deps[k] \ {j})

\* Mutants: the release keeps the revision, or stores the name of the enum
\* member instead of its value.
ReleasedInPlace(row) == [state |-> "ready", revision |-> row.revision]
ReleasedByName(row) == Moved(row, "JobState.READY")

Released(row) == Moved(row, "ready")

\* transition_job; success releases the dependents in the same transaction.
\* A job may be "moved" to the state it is in, which only bumps its revision.
TransitionJob(c, s) ==
    LET j == seen[c].job IN
    /\ Fresh(c)
    /\ job[j].state \notin Finished
    /\ s \in Transitions[job[j].state] \cup {job[j].state}
    /\ s = "ready" => Complete(deps[j])
    /\ job' = [k \in JobIds |->
                IF k = j THEN Moved(job[j], s)
                ELSE IF s = "succeeded" /\ Releases(k, j) THEN Released(job[k])
                ELSE job[k]]
    /\ seen' = [seen EXCEPT ![c].row = job'[j]]
    /\ UNCHANGED <<deps, operations>>

\* start_job_operation: the attempt is new and the job starts running.
StartOperation(c, a) ==
    LET j == seen[c].job IN
    /\ Fresh(c)
    /\ job[j].state = "ready"
    /\ Complete(deps[j])
    /\ <<j, a>> \notin operations
    /\ operations' = operations \cup {<<j, a>>}
    /\ job' = [job EXCEPT ![j] = Moved(@, "running")]
    /\ UNCHANGED <<deps, seen>>

JobsNext ==
    \/ \E j \in JobIds, D \in SUBSET JobIds : CreateJob(j, D)
    \/ \E c \in Clients :
        \/ \E j \in JobIds : ReadJob(c, j)
        \/ \E s \in States : TransitionJob(c, s)
        \/ \E a \in Attempts : StartOperation(c, a)

JobsSpec == JobsInit /\ [][JobsNext]_jobVars

-----------------------------------------------------------------------------
JobsTypeOK ==
    /\ job \in [JobIds -> JobRow]
    /\ deps \in [JobIds -> SUBSET JobIds]
    /\ operations \subseteq JobIds \X Attempts
    /\ seen \in [Clients -> View]

(* Properties. *)

\* No job gets past "pending" (other than by being cancelled) before each of
\* its prerequisites has succeeded, whichever of create_job, transition_job,
\* start_job_operation and _release_dependents moved it.
DependenciesGate ==
    \A j \in JobIds :
        job[j].state \notin {"absent", "pending", "cancelled"} => Complete(deps[j])

\* No job is forgotten: a pending job is waiting for a prerequisite that has
\* not succeeded, so the last success is what makes it ready.
PendingIsBlocked ==
    \A j \in JobIds : job[j].state = "pending" => ~Complete(deps[j])

\* Comparing revisions is enough: a client whose revision is still the job's
\* has seen the state the job is in, even when the job was moved on behalf of
\* another one (_release_dependents).
RevisionMeansState ==
    \A c \in Clients : LET j == seen[c].job IN
        (j \in JobIds /\ seen[c].row.revision = job[j].revision)
            => seen[c].row.state = job[j].state
=============================================================================
