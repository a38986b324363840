--------------------------- MODULE ExecutionStore ---------------------------
(***************************************************************************)
(* FileExecutionStateStore (src/src/powdrr_lift/execution/store.py) and    *)
(* the ExecutionRuntime processes that commit through it.                  *)
(*                                                                         *)
(* One execution is three files: state.json, events.jsonl and, while a     *)
(* journaled commit is under way, transaction.json.  Each file is replaced *)
(* atomically; a process may be killed between two replacements.  A native *)
(* file lock serialises appends and dies with its holder.                  *)
(*                                                                         *)
(* Every change of an ExecutionState is the reduction of one event, so the *)
(* sequence of payloads reduced so far determines the document, whatever   *)
(* the payloads do to it: `state' is that sequence, its length is both     *)
(* state_version and event_sequence.                                       *)
(***************************************************************************)
EXTENDS Naturals, Sequences

CONSTANTS
    Workers,      \* processes that hold an ExecutionRuntime of this execution
    Founders,     \* workers that may open it before it exists; if there are
                  \* none, an earlier process has created it
    NoWorker,     \* the lock's holder when it is free
    MaxEvents,    \* bound: events each worker tries to commit
    MaxBatch,     \* bound: events in one commit
    MaxCrashes    \* bound: processes killed in a behaviour

ASSUME WorkersAssumption ==
    /\ NoWorker \notin Workers
    /\ Founders \subseteq Workers
    /\ MaxEvents \in Nat
    /\ MaxBatch \in Nat
    /\ MaxCrashes \in Nat

VARIABLES
    created,      \* state.json exists
    state,        \* state.json: the payloads reduced into it
    log,          \* events.jsonl
    journal,      \* transaction.json: {} or {one journal record}
    lock,         \* holder of state.lock
    pc,           \* where each worker is
    op,           \* the operation each worker is in
    cs,           \* the append each worker runs under the lock
    doc,          \* the state document in a local variable of that operation
    snapshot,     \* ExecutionRuntime.state of each worker
    issued,       \* events each worker has tried to commit so far
    crashes,      \* processes killed so far
    wiped,        \* create emptied a log that had events (history)
    acked         \* appends that returned to their caller (history)

files == <<created, state, log, journal, lock>>
locals == <<pc, op, cs, doc, snapshot, issued>>
vars == <<files, locals, crashes, wiped, acked>>

-----------------------------------------------------------------------------
(* Events and documents. *)

\* What an event says: each worker's are numbered, and all different.
Payload == Workers \X Nat

\* The next n events of worker w, which has issued k so far.
NewBatch(w, k, n) == [i \in 1..n |-> <<w, k + i>>]

Batch == {NewBatch(w, k, n) : w \in Workers, k \in 0..MaxEvents, n \in 1..MaxBatch}

Event == [sequence : Nat, payload : Payload]

\* ExecutionRuntime._event: consecutive sequence numbers after version v.
Stamp(v, b) == [i \in 1..Len(b) |-> [sequence |-> v + i, payload |-> b[i]]]

\* reduce_execution_event refuses an event whose sequence is not the next one,
\* so a log reduces to a document exactly when it is that document, numbered.
Rebuilds(events, document) == events = Stamp(0, document)

AppendOp == [expected : Nat, batch : Batch, recovering : BOOLEAN]

NoOp == [kind |-> "none"]
OpenOp == [kind |-> "open"]
VerifyOp == [kind |-> "verify"]
CommitOp == [kind : {"append", "transaction"}, batch : Batch, attempt : 1..3]

NoAppend == [expected |-> 0, batch |-> <<>>, recovering |-> FALSE]

Holding == {"journal", "check", "writeLog", "writeState", "finish"}

PCs == Holding \cup {"down", "load", "recover", "read", "create", "createLog",
                     "idle", "acquire", "verify", "loadFailed", "mismatch"}

-----------------------------------------------------------------------------
Init ==
    /\ created = (Founders = {})
    /\ state = <<>>
    /\ log = <<>>
    /\ journal = {}
    /\ lock = NoWorker
    /\ pc = [w \in Workers |-> "down"]
    /\ op = [w \in Workers |-> NoOp]
    /\ cs = [w \in Workers |-> NoAppend]
    /\ doc = [w \in Workers |-> <<>>]
    /\ snapshot = [w \in Workers |-> <<>>]
    /\ issued = [w \in Workers |-> 0]
    /\ crashes = 0
    /\ wiped = FALSE
    /\ acked = {}

Goto(w, where) == pc' = [pc EXCEPT ![w] = where]

\* The local variables of a finished call are gone.
Forget(w) ==
    /\ cs' = [cs EXCEPT ![w] = NoAppend]
    /\ doc' = [doc EXCEPT ![w] = <<>>]

-----------------------------------------------------------------------------
(* The lock and the version check. *)

\* Mutant: the lock is not taken.
Unlocked == TRUE

\* The native lock is free (acquire_native_lock blocks until it is).
LockFree == lock = NoWorker

\* Mutant: the lock is leaked.
KeepLock == UNCHANGED lock

ReleaseLock == lock' = NoWorker

\* Mutants: no version check, and none while a journal is recovered.
NeverStale(w) == FALSE
StaleUnlessRecovering(w) == ~cs[w].recovering /\ Len(state) # cs[w].expected

\* The append was prepared on another version than the one on disk.
Stale(w) == Len(state) # cs[w].expected

\* _commit_transaction makes three attempts.
MayRetry(w) == op[w].attempt < 3

-----------------------------------------------------------------------------
(* Opening the execution: ExecutionRuntime.__init__, load and create. *)

Open(w) ==
    /\ pc[w] = "down"
    /\ created \/ w \in Founders
    /\ op' = [op EXCEPT ![w] = OpenOp]
    /\ Goto(w, "load")
    /\ UNCHANGED <<files, cs, doc, snapshot, issued, crashes, wiped, acked>>

\* The unlocked test for a journal at the top of _recover_transaction.
Load(w) ==
    /\ pc[w] = "load"
    /\ Goto(w, IF journal = {} THEN "read" ELSE "recover")
    /\ UNCHANGED <<files, op, cs, doc, snapshot, issued, crashes, wiped, acked>>

\* _recover_transaction once it holds the lock: the journal may have gone.
RecoverTransaction(w) ==
    /\ pc[w] = "recover"
    /\ LockFree
    /\ \/ /\ journal = {}
          /\ Goto(w, "read")
          /\ UNCHANGED <<lock, cs>>
       \/ \E j \in journal :
            /\ lock' = w
            /\ cs' = [cs EXCEPT ![w] = [expected |-> j.expected, batch |-> j.batch,
                                        recovering |-> TRUE]]
            /\ Goto(w, "check")
    /\ UNCHANGED <<created, state, log, journal, op, doc, snapshot, issued,
                   crashes, wiped, acked>>

\* load reads state.json after recovery, outside the lock.
ReadState(w) ==
    /\ pc[w] = "read"
    /\ \/ /\ ~created
          /\ Goto(w, "create")
          /\ UNCHANGED <<op, doc, snapshot>>
       \/ /\ created
          /\ op[w].kind = "open"
          /\ snapshot' = [snapshot EXCEPT ![w] = state]
          /\ op' = [op EXCEPT ![w] = NoOp]
          /\ Goto(w, "idle")
          /\ UNCHANGED doc
       \/ /\ created
          /\ op[w].kind = "transaction"
          /\ snapshot' = [snapshot EXCEPT ![w] = state]
          /\ Goto(w, "acquire")
          /\ UNCHANGED <<op, doc>>
       \/ /\ created
          /\ op[w].kind = "verify"
          /\ doc' = [doc EXCEPT ![w] = state]
          /\ Goto(w, "verify")
          /\ UNCHANGED <<op, snapshot>>
    /\ UNCHANGED <<files, cs, issued, crashes, wiped, acked>>

\* create takes no lock and writes state.json before events.jsonl.
Create(w) ==
    /\ pc[w] = "create"
    /\ created' = TRUE
    /\ state' = <<>>
    /\ Goto(w, "createLog")
    /\ UNCHANGED <<log, journal, lock, op, cs, doc, snapshot, issued, crashes, wiped, acked>>

CreateLog(w) ==
    /\ pc[w] = "createLog"
    /\ log' = <<>>
    /\ snapshot' = [snapshot EXCEPT ![w] = <<>>]
    /\ op' = [op EXCEPT ![w] = NoOp]
    /\ Goto(w, "idle")
    /\ wiped' = IF log = <<>> THEN wiped ELSE TRUE
    /\ UNCHANGED <<created, state, journal, lock, cs, doc, issued, crashes, acked>>

-----------------------------------------------------------------------------
(* Committing: append, append_transaction and _append_locked. *)

\* Mutant: attempts are counted from zero.
CommitFromZero(w, kind, n) ==
    /\ pc[w] = "idle"
    /\ issued[w] + n <= MaxEvents
    /\ issued' = [issued EXCEPT ![w] = @ + n]
    /\ op' = [op EXCEPT ![w] = [kind |-> kind, attempt |-> 0,
                                batch |-> NewBatch(w, issued[w], n)]]
    /\ Goto(w, "acquire")
    /\ UNCHANGED <<files, cs, doc, snapshot, crashes, wiped, acked>>

StartCommit(w, kind, n) ==
    /\ pc[w] = "idle"
    /\ issued[w] + n <= MaxEvents
    /\ issued' = [issued EXCEPT ![w] = @ + n]
    /\ op' = [op EXCEPT ![w] = [kind |-> kind, attempt |-> 1,
                                batch |-> NewBatch(w, issued[w], n)]]
    /\ Goto(w, "acquire")
    /\ UNCHANGED <<files, cs, doc, snapshot, crashes, wiped, acked>>

\* The lock is taken with the events stamped against the runtime's snapshot.
Acquire(w) ==
    /\ pc[w] = "acquire"
    /\ LockFree
    /\ lock' = w
    /\ cs' = [cs EXCEPT ![w] = [expected |-> Len(snapshot[w]), batch |-> op[w].batch,
                                recovering |-> FALSE]]
    /\ Goto(w, IF op[w].kind = "transaction" THEN "journal" ELSE "check")
    /\ UNCHANGED <<created, state, log, journal, op, doc, snapshot, issued,
                   crashes, wiped, acked>>

WriteJournal(w) ==
    /\ pc[w] = "journal"
    /\ journal' = {[expected |-> cs[w].expected, batch |-> cs[w].batch]}
    /\ Goto(w, "check")
    /\ UNCHANGED <<created, state, log, lock, op, cs, doc, snapshot, issued,
                   crashes, wiped, acked>>

\* _append_locked up to the reduction; an append on a stale version raises.
CheckVersion(w) ==
    /\ pc[w] = "check"
    /\ ~Stale(w)
    /\ doc' = [doc EXCEPT ![w] = state \o cs[w].batch]
    /\ Goto(w, "writeLog")
    /\ UNCHANGED <<files, op, cs, snapshot, issued, crashes, wiped, acked>>

\* ExecutionStateConflict: append re-raises it, append_transaction drops its
\* journal and _commit_transaction reloads for up to three attempts, and a
\* recovering load fails with the journal still there.
Conflict(w) ==
    /\ pc[w] = "check"
    /\ Stale(w)
    /\ ReleaseLock
    /\ \/ /\ cs[w].recovering
          /\ Goto(w, "loadFailed")
          /\ UNCHANGED <<journal, op>>
       \/ /\ ~cs[w].recovering
          /\ op[w].kind = "append"
          /\ op' = [op EXCEPT ![w] = NoOp]
          /\ Goto(w, "idle")
          /\ UNCHANGED journal
       \/ /\ ~cs[w].recovering
          /\ op[w].kind = "transaction"
          /\ journal' = {}
          /\ \/ /\ MayRetry(w)
                /\ op' = [op EXCEPT ![w].attempt = @ + 1]
                /\ Goto(w, "load")
             \/ /\ ~MayRetry(w)
                /\ op' = [op EXCEPT ![w] = NoOp]
                /\ Goto(w, "idle")
    /\ cs' = [cs EXCEPT ![w] = NoAppend]
    /\ UNCHANGED <<created, state, log, doc, snapshot, issued, crashes, wiped, acked>>

\* Mutant: the log is replaced by the events of this append.
WriteOnlyBatch(w) ==
    /\ pc[w] = "writeLog"
    /\ log' = Stamp(cs[w].expected, cs[w].batch)
    /\ Goto(w, "writeState")
    /\ UNCHANGED <<created, state, journal, lock, op, cs, doc, snapshot, issued,
                   crashes, wiped, acked>>

WriteLog(w) ==
    /\ pc[w] = "writeLog"
    /\ log' = log \o Stamp(cs[w].expected, cs[w].batch)
    /\ Goto(w, "writeState")
    /\ UNCHANGED <<created, state, journal, lock, op, cs, doc, snapshot, issued,
                   crashes, wiped, acked>>

WriteState(w) ==
    /\ pc[w] = "writeState"
    /\ state' = doc[w]
    /\ Goto(w, "finish")
    /\ UNCHANGED <<created, log, journal, lock, op, cs, doc, snapshot, issued,
                   crashes, wiped, acked>>

\* Unlink the journal, release the lock and return.
FinishAppend(w) ==
    /\ pc[w] = "finish"
    /\ ReleaseLock
    /\ \/ /\ cs[w].recovering
          /\ journal' = {}
          /\ Goto(w, "read")
          /\ UNCHANGED <<op, snapshot, acked>>
       \/ /\ ~cs[w].recovering
          /\ journal' = IF op[w].kind = "transaction" THEN {} ELSE journal
          /\ snapshot' = [snapshot EXCEPT ![w] = doc[w]]
          /\ acked' = acked \cup {[expected |-> cs[w].expected, batch |-> cs[w].batch]}
          /\ op' = [op EXCEPT ![w] = NoOp]
          /\ Goto(w, "idle")
    /\ Forget(w)
    /\ UNCHANGED <<created, state, log, issued, crashes, wiped>>

-----------------------------------------------------------------------------
(* Verification, failed loads and killed processes. *)

StartVerify(w) ==
    /\ pc[w] = "idle"
    /\ op' = [op EXCEPT ![w] = VerifyOp]
    /\ Goto(w, "load")
    /\ UNCHANGED <<files, cs, doc, snapshot, issued, crashes, wiped, acked>>

\* verify reads events.jsonl after load has returned, outside the lock.
VerifyLog(w) ==
    /\ pc[w] = "verify"
    /\ \/ /\ Rebuilds(log, doc[w])
          /\ snapshot' = [snapshot EXCEPT ![w] = doc[w]]
          /\ op' = [op EXCEPT ![w] = NoOp]
          /\ Goto(w, "idle")
       \/ /\ ~Rebuilds(log, doc[w])
          /\ Goto(w, "mismatch")
          /\ UNCHANGED <<op, snapshot>>
    /\ Forget(w)
    /\ UNCHANGED <<files, issued, crashes, wiped, acked>>

\* The exception leaves the constructor (no runtime) or the runtime call.
Raise(w) ==
    /\ pc[w] \in {"loadFailed", "mismatch"}
    /\ Goto(w, IF op[w].kind = "open" THEN "down" ELSE "idle")
    /\ op' = [op EXCEPT ![w] = NoOp]
    /\ UNCHANGED <<files, cs, doc, snapshot, issued, crashes, wiped, acked>>

Crash(w) ==
    /\ pc[w] # "down"
    /\ crashes < MaxCrashes
    /\ crashes' = crashes + 1
    /\ Goto(w, "down")
    /\ op' = [op EXCEPT ![w] = NoOp]
    /\ snapshot' = [snapshot EXCEPT ![w] = <<>>]
    /\ Forget(w)
    /\ lock' = IF lock = w THEN NoWorker ELSE lock
    /\ UNCHANGED <<created, state, log, journal, issued, wiped, acked>>

-----------------------------------------------------------------------------
\* What a worker does once it has been asked: everything but starting
\* something new and being killed.
Step(w) ==
    \/ Load(w) \/ RecoverTransaction(w) \/ ReadState(w) \/ Create(w) \/ CreateLog(w)
    \/ Acquire(w) \/ WriteJournal(w) \/ CheckVersion(w) \/ Conflict(w)
    \/ WriteLog(w) \/ WriteState(w) \/ FinishAppend(w)
    \/ VerifyLog(w) \/ Raise(w)

Next ==
    \E w \in Workers :
        \/ Open(w)
        \/ Step(w)
        \/ \E kind \in {"append", "transaction"}, n \in 1..MaxBatch : StartCommit(w, kind, n)
        \/ StartVerify(w)
        \/ Crash(w)

Spec == Init /\ [][Next]_vars

\* A live process keeps running the operation it is in.
FairSpec == Spec /\ \A w \in Workers : WF_vars(Step(w))

-----------------------------------------------------------------------------
TypeOK ==
    /\ created \in BOOLEAN
    /\ state \in Seq(Payload)
    /\ log \in Seq(Event)
    /\ journal \in SUBSET [expected : Nat, batch : Batch]
    /\ lock \in Workers \cup {NoWorker}
    /\ pc \in [Workers -> PCs]
    /\ op \in [Workers -> {NoOp, OpenOp, VerifyOp} \cup CommitOp]
    /\ cs \in [Workers -> AppendOp \cup {NoAppend}]
    /\ doc \in [Workers -> Seq(Payload)]
    /\ snapshot \in [Workers -> Seq(Payload)]
    /\ issued \in [Workers -> 0..MaxEvents]
    /\ crashes \in 0..MaxCrashes
    /\ wiped \in BOOLEAN
    /\ acked \in SUBSET [expected : Nat, batch : Batch]

(* Properties. *)

\* Document c is an earlier version of document d, or d itself.
IsPast(c, d) ==
    /\ Len(c) <= Len(d)
    /\ \A i \in 1..Len(c) : c[i] = d[i]

\* Append a is part of document d, at the version it expected.
AppliedAt(a, d) ==
    /\ a.expected + Len(a.batch) <= Len(d)
    /\ \A i \in 1..Len(a.batch) : d[a.expected + i] = a.batch[i]

\* An append or a transaction that returned to its caller stays in state.json,
\* at the version it was committed on, through every later commit, crash and
\* recovery (append, append_transaction, _recover_transaction).
AckedDurable == \A a \in acked : AppliedAt(a, state)

\* The document a runtime holds is a past version of state.json, so equal
\* versions mean equal documents and the version check of _append_locked is
\* enough to refuse an append made on stale state.
SnapshotIsPast == \A w \in Workers : IsPast(snapshot[w], state)

\* state.json changes only by whole batches, each at most once, even when a
\* commit is interrupted and finished by another process's load.
Stream == INSTANCE EventStream WITH Batches <- Batch, stream <- state

StreamRefinement == Stream!StreamSpec

\* Whenever no append is under way the event log reduces to state.json: the
\* log is the history and the document can be rebuilt from it.  What takes it
\* away is a kill between the two files (_append_locked) or a creation that
\* empties the log after another process has appended to it (create).
LogRebuildsState == crashes = 0 /\ ~wiped /\ lock = NoWorker => Rebuilds(log, state)

\* A commit that asks for the lock returns to its caller, committed or refused,
\* as long as no process was killed (_lock, _commit_transaction).
CommitReturns == \A w \in Workers : (pc[w] = "acquire") ~> (pc[w] = "idle" \/ crashes > 0)

\* A restart can finish an interrupted commit: no load fails in recovery.
RestartFinishesCommit == \A w \in Workers : pc[w] # "loadFailed"
=============================================================================
