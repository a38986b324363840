----------------------------- MODULE JobActions -----------------------------
(***************************************************************************)
(* Durable job actions: the job_action_intents table of WorkspaceStore     *)
(* (packages/local/src/powdrr_local/workspace.py) and the supervisors that *)
(* deliver actions (job_action_supervisor.py, dispatch_next).  The         *)
(* dispatcher behind dispatch_job_action is external: it accepts the       *)
(* action, asks for a retry, or raises.                                    *)
(*                                                                         *)
(* Delivery is not fenced by the lease: while a supervisor delivers an     *)
(* action its lease may expire, another supervisor take over and deliver   *)
(* the same action again, and only the claim decides whose result counts.  *)
(* Only tests construct the supervisor so far, so nothing is assumed about *)
(* how often dispatch_next is called: there is no fairness here.           *)
(***************************************************************************)
EXTENDS Jobs, Sequences, FiniteSets

CONSTANTS
    Supervisors,      \* processes that run dispatch_next, one call at a time
    Nobody,           \* owner of a lease whose process is gone
    MaxActions,       \* bound: actions accepted
    MaxGenerations,   \* bound: lease generations, so finitely many takeovers
    MaxRetries        \* bound: deliveries that end in RetryableJobActionError

ASSUME ActionsAssumption ==
    /\ Nobody \notin Supervisors
    /\ MaxActions \in Nat
    /\ MaxGenerations \in Nat
    /\ MaxRetries \in Nat

VARIABLES
    intents,     \* job_action_intents in the order of their creation
    lease,       \* the supervisor_lease row
    held,        \* generation a supervisor was constructed with; 0 if none
    pc,          \* where each supervisor is in dispatch_next
    current,     \* the intent a supervisor is delivering; 0 if none
    outcome,     \* how its delivery ended
    retries      \* retries requested so far

actionVars == <<intents, lease, held, pc, current, outcome, retries>>
vars == <<jobVars, actionVars>>

-----------------------------------------------------------------------------
JobActionNames == {"start", "cancel", "retry"}

\* _JOB_ACTIONS_BY_STATE.
Available(s) ==
    CASE s \in Finished -> {}
      [] s = "ready" -> {"start", "cancel"}
      [] s \in {"interrupted", "failed"} -> {"retry", "cancel"}
      [] OTHER -> {"cancel"}

Settled == {"completed", "failed", "cancelled"}

\* A claim_id is minted for each dispatch_next; a supervisor runs one at a
\* time, so claimant and generation identify the claim.
IntentRow == [job : JobIds, action : JobActionNames,
              state : Settled \cup {"pending", "claimed"},
              by : Supervisors \cup {Nobody}, generation : Nat]

LeaseRow == [owner : Supervisors \cup {Nobody}, generation : Nat, live : BOOLEAN]

Init ==
    /\ JobsInit
    /\ intents = <<>>
    /\ lease = [owner |-> Nobody, generation |-> 0, live |-> FALSE]
    /\ held = [s \in Supervisors |-> 0]
    /\ pc = [s \in Supervisors |-> "idle"]
    /\ current = [s \in Supervisors |-> 0]
    /\ outcome = [s \in Supervisors |-> "none"]
    /\ retries = 0

-----------------------------------------------------------------------------
(* Accepting an action: accept_job_action. *)

\* Mutant: only actions nobody has claimed are in the way.
OnlyPending(j) == {i \in DOMAIN intents : intents[i].job = j /\ intents[i].state = "pending"}

Active(j) ==
    {i \in DOMAIN intents : intents[i].job = j /\ intents[i].state \in {"pending", "claimed"}}

\* A cancel replaces another action that no supervisor has claimed yet.
Supersedes(act, i) ==
    /\ act = "cancel"
    /\ intents[i].state = "pending"
    /\ intents[i].action # "cancel"

\* Mutant: the row stores the state that is reported to the caller.
ReportedIntent(j, act) ==
    [job |-> j, action |-> act, state |-> "accepted", by |-> Nobody, generation |-> 0]

NewIntent(j, act) ==
    [job |-> j, action |-> act, state |-> "pending", by |-> Nobody, generation |-> 0]

AcceptAction(c, act) ==
    LET j == seen[c].job IN
    /\ Fresh(c)
    /\ act \in Available(job[j].state)
    /\ Len(intents) < MaxActions
    /\ \A i \in Active(j) : Supersedes(act, i)
    /\ intents' = Append([i \in DOMAIN intents |->
                             IF i \in Active(j) THEN [intents[i] EXCEPT !.state = "cancelled"]
                                                ELSE intents[i]],
                         NewIntent(j, act))
    /\ job' = [job EXCEPT ![j] = Moved(@, @.state)]
    /\ UNCHANGED <<deps, operations, seen, lease, held, pc, current, outcome, retries>>

-----------------------------------------------------------------------------
(* The supervisor lease. *)

LeaseMatches(s) == held[s] # 0 /\ lease.owner = s /\ lease.generation = held[s] /\ lease.live

MayLoseLease == lease.generation < MaxGenerations

ExpireLease ==
    /\ lease.live
    /\ MayLoseLease
    /\ lease' = [lease EXCEPT !.live = FALSE]
    /\ UNCHANGED <<jobVars, intents, held, pc, current, outcome, retries>>

\* acquire_supervisor_lease; a lease that is still live keeps its generation.
AcquireLease(s) ==
    /\ pc[s] = "idle"
    /\ ~LeaseMatches(s)
    /\ ~lease.live \/ lease.owner = s
    /\ LET g == IF lease.live THEN lease.generation ELSE lease.generation + 1 IN
        /\ g <= MaxGenerations
        /\ lease' = [owner |-> s, generation |-> g, live |-> TRUE]
        /\ held' = [held EXCEPT ![s] = g]
    /\ UNCHANGED <<jobVars, intents, pc, current, outcome, retries>>

\* release_supervisor_lease: also one whose expiry has passed.
ReleaseLease(s) ==
    /\ pc[s] = "idle"
    /\ held[s] # 0
    /\ lease.owner = s /\ lease.generation = held[s]
    /\ MayLoseLease
    /\ lease' = [lease EXCEPT !.live = FALSE]
    /\ held' = [held EXCEPT ![s] = 0]
    /\ UNCHANGED <<jobVars, intents, pc, current, outcome, retries>>

\* A killed process comes back with another process identity: its lease row
\* matches nobody and runs out.
Crash(s) ==
    /\ held[s] # 0
    /\ MayLoseLease
    /\ lease' = [lease EXCEPT !.owner = IF @ = s THEN Nobody ELSE @]
    /\ held' = [held EXCEPT ![s] = 0]
    /\ pc' = [pc EXCEPT ![s] = "idle"]
    /\ current' = [current EXCEPT ![s] = 0]
    /\ outcome' = [outcome EXCEPT ![s] = "none"]
    /\ UNCHANGED <<jobVars, intents, retries>>

-----------------------------------------------------------------------------
(* Delivering: dispatch_next. *)

\* Mutant: claims of an earlier generation are not taken over.
NeverRedelivered(i, g) == intents[i].state = "pending"

\* claim_next_job_action_intent: pending, or claimed by another generation.
Claimable(i, g) ==
    \/ intents[i].state = "pending"
    \/ intents[i].state = "claimed" /\ intents[i].generation # g

Claim(s) ==
    /\ pc[s] = "idle"
    /\ LeaseMatches(s)
    /\ \E i \in DOMAIN intents :
        /\ Claimable(i, held[s])
        /\ \A k \in 1..(i - 1) : ~Claimable(k, held[s])
        /\ intents' = [intents EXCEPT ![i].state = "claimed", ![i].by = s,
                                      ![i].generation = held[s]]
        /\ current' = [current EXCEPT ![s] = i]
    /\ pc' = [pc EXCEPT ![s] = "dispatch"]
    /\ UNCHANGED <<jobVars, lease, held, outcome, retries>>

Outcomes == {"completed", "failed", "pending"}

\* dispatch_job_action accepts the action, raises RetryableJobActionError or
\* raises another Exception.  A CancelledError, which is no Exception, is not
\* modelled: it would leave the action claimed without a delivery.
Dispatch(s, o) ==
    /\ pc[s] = "dispatch"
    /\ o = "pending" => retries < MaxRetries
    /\ retries' = IF o = "pending" THEN retries + 1 ELSE retries
    /\ outcome' = [outcome EXCEPT ![s] = o]
    /\ pc' = [pc EXCEPT ![s] = "finish"]
    /\ UNCHANGED <<jobVars, intents, lease, held, current>>

\* Mutants: finish checks neither lease nor claim, and finish compares the
\* claim with something it never equals.
AnyClaim(s) == TRUE
NoClaim(s) == FALSE

\* What finish_job_action_intent demands of its caller.
OwnsClaim(s) ==
    /\ LeaseMatches(s)
    /\ intents[current[s]].state = "claimed"
    /\ intents[current[s]].by = s
    /\ intents[current[s]].generation = held[s]

\* finish_job_action_intent; a refused one (WorkspaceConflict) changes nothing.
Finish(s) ==
    /\ pc[s] = "finish"
    /\ intents' = IF OwnsClaim(s) THEN [intents EXCEPT ![current[s]].state = outcome[s]]
                                  ELSE intents
    /\ pc' = [pc EXCEPT ![s] = "idle"]
    /\ current' = [current EXCEPT ![s] = 0]
    /\ outcome' = [outcome EXCEPT ![s] = "none"]
    /\ UNCHANGED <<jobVars, lease, held, retries>>

-----------------------------------------------------------------------------
Deliver(s) ==
    \/ AcquireLease(s)
    \/ Claim(s)
    \/ \E o \in Outcomes : Dispatch(s, o)
    \/ Finish(s)

Next ==
    \/ JobsNext /\ UNCHANGED actionVars
    \/ \E c \in Clients, act \in JobActionNames : AcceptAction(c, act)
    \/ ExpireLease
    \/ \E s \in Supervisors : Deliver(s) \/ ReleaseLease(s) \/ Crash(s)

Spec == Init /\ [][Next]_vars

-----------------------------------------------------------------------------
TypeOK ==
    /\ JobsTypeOK
    /\ intents \in Seq(IntentRow)
    /\ lease \in LeaseRow
    /\ held \in [Supervisors -> 0..MaxGenerations]
    /\ pc \in [Supervisors -> {"idle", "dispatch", "finish"}]
    /\ current \in [Supervisors -> Nat]
    /\ \A s \in Supervisors : pc[s] # "idle" => current[s] \in DOMAIN intents
    /\ outcome \in [Supervisors -> Outcomes \cup {"none"}]
    /\ retries \in 0..MaxRetries

(* Properties. *)

\* A job has at most one action that is waiting or being delivered, although
\* accept_job_action, dispatch and the return of a claim to the queue come in
\* any order: the unique index one_active_job_action is never hit.
OneActiveAction ==
    \A j \in JobIds : Cardinality({i \in DOMAIN intents :
        intents[i].job = j /\ intents[i].state \in {"pending", "claimed"}}) <= 1

\* The result of an action is final: a supervisor that lost its lease while it
\* delivered cannot overwrite what its successor or a cancel recorded.
ResultsAreFinal ==
    [][\A i \in DOMAIN intents :
        intents[i].state \in Settled => intents'[i].state = intents[i].state]_vars

\* A claimed action is either still being delivered by its claimant or can be
\* claimed again: by this generation's owner never, so under a live lease whose
\* process is there the claimant must be at it.
ActionNotStranded ==
    \A i \in DOMAIN intents :
        (/\ intents[i].state = "claimed"
         /\ lease.live /\ lease.owner # Nobody
         /\ intents[i].generation = lease.generation)
            => \E s \in Supervisors : /\ current[s] = i
                                      /\ held[s] = lease.generation

\* The process that holds the live lease finds every unfinished action when it
\* calls dispatch_next: those its predecessors claimed and did not finish, and
\* those its own deliveries gave back.  claim_next_job_action_intent skips
\* claims of the caller's own generation, so a generation that came back idle
\* with a claim of its own, or a query that left out other generations' claims,
\* would leave an action to nobody.
OwnerFindsAll ==
    \A s \in Supervisors : LeaseMatches(s) /\ pc[s] = "idle" =>
        \A i \in DOMAIN intents :
            intents[i].state \in {"pending", "claimed"} => Claimable(i, held[s])
=============================================================================
