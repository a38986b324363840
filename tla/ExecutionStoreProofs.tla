------------------------ MODULE ExecutionStoreProofs ------------------------
(***************************************************************************)
(* Safety of ExecutionStore for any number of processes, batches and       *)
(* crashes, provided at most one process may find the execution missing.   *)
(*                                                                         *)
(* The argument: whoever is between taking the lock and releasing it holds *)
(* it (LockInv), so nobody changes state.json between the version check    *)
(* and the write (DocInv), and every write extends the document it read.   *)
(* Before the execution exists only its founder is running (BirthInv), so  *)
(* the unlocked create never replaces a document.                          *)
(*                                                                         *)
(* That no commit enters the document twice (the refinement of             *)
(* EventStream) needs to know where an unfinished commit can be: its       *)
(* events are numbered beyond what was issued before (IssuedInv), it is    *)
(* only in its own process and in the journal that process wrote           *)
(* (PendingInv), and an append that passes the version check is not in     *)
(* state.json yet (VersionInv).                                            *)
(***************************************************************************)
EXTENDS ExecutionStore, SequenceTheorems, TLAPS

OneFounder == \A v, w \in Founders : v = w

-----------------------------------------------------------------------------
(* The inductive invariant. *)

LockInv == \A w \in Workers : pc[w] \in Holding <=> lock = w

OpInv ==
    \A w \in Workers :
        /\ pc[w] = "acquire" => op[w] \in CommitOp
        /\ pc[w] \in Holding => cs[w] \in AppendOp
        /\ pc[w] \in Holding /\ ~cs[w].recovering => op[w] \in CommitOp

DocInv ==
    \A w \in Workers :
        /\ pc[w] \in {"writeLog", "writeState"} =>
              /\ Len(state) = cs[w].expected
              /\ doc[w] = state \o cs[w].batch
        /\ pc[w] = "finish" => doc[w] = state /\ AppliedAt(cs[w], state)
        /\ pc[w] = "verify" => IsPast(doc[w], state)

BirthInv ==
    /\ ~created =>
          /\ state = <<>> /\ acked = {} /\ journal = {}
          /\ \A w \in Workers :
                /\ pc[w] \in {"down", "load", "read", "create"}
                /\ pc[w] # "down" => w \in Founders
    /\ \A w \in Workers : pc[w] = "create" => ~created

IInv ==
    /\ TypeOK /\ LockInv /\ OpInv /\ DocInv /\ BirthInv
    /\ AckedDurable /\ SnapshotIsPast

\* The one-line guards of the lock and the version check are always expanded.
USE DEF LockFree, ReleaseLock, Stale, MayRetry

-----------------------------------------------------------------------------
(* Facts about batches. *)

\* A batch is a non-empty sequence of payloads (the events of one append).
LEMMA BatchIsSeq == \A b \in Batch : b \in Seq(Payload) /\ Len(b) \in Nat \ {0}
<1>1. ASSUME NEW w \in Workers, NEW k \in 0..MaxEvents, NEW n \in 1..MaxBatch
      PROVE  NewBatch(w, k, n) \in Seq(Payload) /\ Len(NewBatch(w, k, n)) = n
  <2>1. n \in Nat /\ k \in Nat /\ \A i \in 1..n : <<w, k + i>> \in Payload
    BY WorkersAssumption DEF Payload
  <2> QED BY <2>1 DEF NewBatch
<1> QED BY <1>1, WorkersAssumption DEF Batch

\* The events stamped for a batch are well-formed (ExecutionRuntime._event).
LEMMA StampIsSeq == \A v \in Nat : \A b \in Batch : Stamp(v, b) \in Seq(Event)
<1> TAKE v \in Nat
<1> TAKE b \in Batch
<1>1. b \in Seq(Payload) BY BatchIsSeq
<1>2. \A i \in 1..Len(b) : [sequence |-> v + i, payload |-> b[i]] \in Event
  BY <1>1 DEF Event
<1> QED BY <1>1, <1>2 DEF Stamp

-----------------------------------------------------------------------------
(* Type correctness. *)

\* Dropping a worker's local variables keeps them well-typed.
LEMMA LocalsForgotten ==
  ASSUME NEW w \in Workers, Forget(w),
         cs \in [Workers -> AppendOp \cup {NoAppend}],
         doc \in [Workers -> Seq(Payload)]
  PROVE  /\ cs' \in [Workers -> AppendOp \cup {NoAppend}]
         /\ doc' \in [Workers -> Seq(Payload)]
BY DEF Forget

\* The initial state is well-typed.
LEMMA TypeInit == Init => TypeOK
<1> SUFFICES ASSUME Init PROVE TypeOK
  OBVIOUS
<1>1. created \in BOOLEAN /\ wiped \in BOOLEAN BY DEF Init
<1>2. /\ state \in Seq(Payload) /\ log \in Seq(Event)
      /\ journal \in SUBSET [expected : Nat, batch : Batch]
      /\ acked \in SUBSET [expected : Nat, batch : Batch]
      /\ lock \in Workers \cup {NoWorker} /\ crashes \in 0..MaxCrashes
  BY WorkersAssumption DEF Init
<1>3. /\ pc \in [Workers -> PCs]
      /\ op \in [Workers -> {NoOp, OpenOp, VerifyOp} \cup CommitOp]
      /\ cs \in [Workers -> AppendOp \cup {NoAppend}]
      /\ doc \in [Workers -> Seq(Payload)]
      /\ snapshot \in [Workers -> Seq(Payload)]
      /\ issued \in [Workers -> 0..MaxEvents]
  BY WorkersAssumption DEF Init, PCs, Holding
<1> QED BY <1>1, <1>2, <1>3 DEF TypeOK

\* Every operation of the store keeps files and local variables well-typed.
LEMMA TypeStep == TypeOK /\ OpInv /\ [Next]_vars => TypeOK'
<1> SUFFICES ASSUME TypeOK, OpInv, [Next]_vars PROVE TypeOK'
  OBVIOUS
<1> USE WorkersAssumption
<1>1. ASSUME NEW w \in Workers, Open(w) PROVE TypeOK'
  BY <1>1 DEF TypeOK, Open, Goto, PCs, files
<1>2. ASSUME NEW w \in Workers, Load(w) PROVE TypeOK'
  BY <1>2 DEF TypeOK, Load, Goto, PCs, files
<1>3. ASSUME NEW w \in Workers, RecoverTransaction(w) PROVE TypeOK'
  <2>1. cs' \in [Workers -> AppendOp \cup {NoAppend}]
    <3>1. CASE cs' = cs BY <3>1 DEF TypeOK
    <3>2. ASSUME NEW j \in journal,
                 cs' = [cs EXCEPT ![w] = [expected |-> j.expected, batch |-> j.batch,
                                          recovering |-> TRUE]]
          PROVE  cs' \in [Workers -> AppendOp \cup {NoAppend}]
      <4>1. j.expected \in Nat /\ j.batch \in Batch BY DEF TypeOK
      <4> QED BY <3>2, <4>1 DEF TypeOK, AppendOp
    <3> QED BY <1>3, <3>1, <3>2 DEF RecoverTransaction
  <2>2. pc' \in [Workers -> PCs] /\ lock' \in Workers \cup {NoWorker}
    BY <1>3 DEF TypeOK, RecoverTransaction, Goto, PCs, Holding
  <2> QED BY <1>3, <2>1, <2>2 DEF TypeOK, RecoverTransaction
<1>4. ASSUME NEW w \in Workers, ReadState(w) PROVE TypeOK'
  BY <1>4, ZenonT(60) DEF TypeOK, ReadState, Goto, PCs, files
<1>5. ASSUME NEW w \in Workers, Create(w) PROVE TypeOK'
  BY <1>5 DEF TypeOK, Create, Goto, PCs
<1>6. ASSUME NEW w \in Workers, CreateLog(w) PROVE TypeOK'
  <2>1. wiped' \in BOOLEAN
    BY <1>6, Zenon DEF TypeOK, CreateLog
  <2>2. /\ log' = <<>> /\ snapshot' = [snapshot EXCEPT ![w] = <<>>]
        /\ op' = [op EXCEPT ![w] = NoOp] /\ pc' = [pc EXCEPT ![w] = "idle"]
        /\ UNCHANGED <<created, state, journal, lock, cs, doc, issued, crashes, acked>>
    BY <1>6, Zenon DEF CreateLog, Goto
  <2> QED BY <2>1, <2>2 DEF TypeOK, PCs
<1>7. ASSUME NEW w \in Workers, NEW kind \in {"append", "transaction"},
             NEW n \in 1..MaxBatch, StartCommit(w, kind, n)
      PROVE  TypeOK'
  <2>1. NewBatch(w, issued[w], n) \in Batch
    <3>1. issued[w] \in 0..MaxEvents BY <1>7 DEF TypeOK, StartCommit
    <3> QED BY <3>1 DEF Batch
  <2>2. op' \in [Workers -> {NoOp, OpenOp, VerifyOp} \cup CommitOp]
    BY <1>7, <2>1 DEF TypeOK, StartCommit, CommitOp
  <2>3. issued' \in [Workers -> 0..MaxEvents]
    BY <1>7 DEF TypeOK, StartCommit
  <2> QED BY <1>7, <2>2, <2>3 DEF TypeOK, StartCommit, Goto, PCs, files
<1>8. ASSUME NEW w \in Workers, Acquire(w) PROVE TypeOK'
  <2>1. op[w] \in CommitOp BY <1>8 DEF Acquire, OpInv
  <2>2. cs' \in [Workers -> AppendOp \cup {NoAppend}]
    BY <1>8, <2>1 DEF TypeOK, Acquire, AppendOp, CommitOp
  <2> QED BY <1>8, <2>2 DEF TypeOK, Acquire, Goto, PCs, Holding
<1>9. ASSUME NEW w \in Workers, WriteJournal(w) PROVE TypeOK'
  BY <1>9 DEF TypeOK, OpInv, WriteJournal, Goto, PCs, Holding, AppendOp
<1>10. ASSUME NEW w \in Workers, CheckVersion(w) PROVE TypeOK'
  <2>1. cs[w] \in AppendOp BY <1>10 DEF CheckVersion, OpInv, Holding
  <2>2. state \o cs[w].batch \in Seq(Payload)
    BY <2>1, BatchIsSeq DEF AppendOp, TypeOK
  <2> QED BY <1>10, <2>2 DEF TypeOK, CheckVersion, Goto, PCs, Holding, files
<1>11. ASSUME NEW w \in Workers, Conflict(w) PROVE TypeOK'
  <2>1. op' \in [Workers -> {NoOp, OpenOp, VerifyOp} \cup CommitOp]
    <3>1. CASE op' = op BY <3>1 DEF TypeOK
    <3>2. CASE op' = [op EXCEPT ![w] = NoOp] BY <3>2 DEF TypeOK
    <3>3. CASE /\ ~cs[w].recovering
               /\ op[w].attempt < 3
               /\ op' = [op EXCEPT ![w].attempt = @ + 1]
      <4>1. op[w] \in CommitOp BY <1>11, <3>3 DEF Conflict, OpInv, Holding
      <4>2. [op[w] EXCEPT !.attempt = @ + 1] \in CommitOp
        BY <3>3, <4>1 DEF CommitOp
      <4> QED BY <3>3, <4>2 DEF TypeOK
    <3> QED BY <1>11, <3>1, <3>2, <3>3 DEF Conflict
  <2> QED BY <1>11, <2>1 DEF TypeOK, Conflict, Goto, PCs
<1>12. ASSUME NEW w \in Workers, WriteLog(w) PROVE TypeOK'
  <2>1. cs[w] \in AppendOp BY <1>12 DEF WriteLog, OpInv, Holding
  <2>2. log \o Stamp(cs[w].expected, cs[w].batch) \in Seq(Event)
    BY <2>1, StampIsSeq DEF AppendOp, TypeOK
  <2> QED BY <1>12, <2>2 DEF TypeOK, WriteLog, Goto, PCs, Holding
<1>13. ASSUME NEW w \in Workers, WriteState(w) PROVE TypeOK'
  BY <1>13 DEF TypeOK, WriteState, Goto, PCs, Holding
<1>14. ASSUME NEW w \in Workers, FinishAppend(w) PROVE TypeOK'
  <2>1. cs[w] \in AppendOp BY <1>14 DEF FinishAppend, OpInv, Holding
  <2>2. acked' \in SUBSET [expected : Nat, batch : Batch]
    BY <1>14, <2>1 DEF TypeOK, FinishAppend, AppendOp
  <2>3. cs' \in [Workers -> AppendOp \cup {NoAppend}] /\ doc' \in [Workers -> Seq(Payload)]
    BY <1>14, LocalsForgotten DEF TypeOK, FinishAppend
  <2>4. op' \in [Workers -> {NoOp, OpenOp, VerifyOp} \cup CommitOp]
    BY <1>14 DEF TypeOK, FinishAppend
  <2>5. snapshot' \in [Workers -> Seq(Payload)] /\ pc' \in [Workers -> PCs]
    BY <1>14, ZenonT(60) DEF TypeOK, FinishAppend, Goto, PCs
  <2>6. journal' \in SUBSET [expected : Nat, batch : Batch] /\ lock' = NoWorker
    BY <1>14 DEF TypeOK, FinishAppend
  <2> QED BY <1>14, <2>2, <2>3, <2>4, <2>5, <2>6 DEF TypeOK, FinishAppend
<1>15. ASSUME NEW w \in Workers, StartVerify(w) PROVE TypeOK'
  BY <1>15 DEF TypeOK, StartVerify, Goto, PCs, files
<1>16. ASSUME NEW w \in Workers, VerifyLog(w) PROVE TypeOK'
  <2>1. cs' \in [Workers -> AppendOp \cup {NoAppend}] /\ doc' \in [Workers -> Seq(Payload)]
    BY <1>16, LocalsForgotten DEF TypeOK, VerifyLog
  <2>2. op' \in [Workers -> {NoOp, OpenOp, VerifyOp} \cup CommitOp]
    BY <1>16 DEF TypeOK, VerifyLog
  <2>3. snapshot' \in [Workers -> Seq(Payload)] /\ pc' \in [Workers -> PCs]
    BY <1>16 DEF TypeOK, VerifyLog, Goto, PCs
  <2> QED BY <1>16, <2>1, <2>2, <2>3 DEF TypeOK, VerifyLog, files
<1>17. ASSUME NEW w \in Workers, Raise(w) PROVE TypeOK'
  BY <1>17 DEF TypeOK, Raise, Goto, PCs, files
<1>18. ASSUME NEW w \in Workers, Crash(w) PROVE TypeOK'
  BY <1>18 DEF TypeOK, Crash, Forget, Goto, PCs
<1>19. CASE UNCHANGED vars
  BY <1>19 DEF TypeOK, vars, files, locals
<1> QED
  BY <1>1, <1>2, <1>3, <1>4, <1>5, <1>6, <1>7, <1>8, <1>9, <1>10, <1>11, <1>12,
     <1>13, <1>14, <1>15, <1>16, <1>17, <1>18, <1>19 DEF Next, Step
-----------------------------------------------------------------------------
(* Mutual exclusion and the shape of an operation. *)

\* The workers inside an append are exactly the lock's holder.
LEMMA LockStep == TypeOK /\ LockInv /\ [Next]_vars => LockInv'
<1> SUFFICES ASSUME TypeOK, LockInv, [Next]_vars PROVE LockInv'
  OBVIOUS
<1> USE WorkersAssumption DEF LockInv, TypeOK, Holding, Goto
<1>1. ASSUME NEW w \in Workers, Open(w) PROVE LockInv'
  BY <1>1 DEF Open, files
<1>2. ASSUME NEW w \in Workers, Load(w) PROVE LockInv'
  BY <1>2 DEF Load, files
<1>3. ASSUME NEW w \in Workers, RecoverTransaction(w) PROVE LockInv'
  BY <1>3 DEF RecoverTransaction, files
<1>4. ASSUME NEW w \in Workers, ReadState(w) PROVE LockInv'
  BY <1>4 DEF ReadState, files
<1>5. ASSUME NEW w \in Workers, Create(w) PROVE LockInv'
  BY <1>5 DEF Create, files
<1>6. ASSUME NEW w \in Workers, CreateLog(w) PROVE LockInv'
  BY <1>6 DEF CreateLog, files
<1>7. ASSUME NEW w \in Workers, NEW kind \in {"append", "transaction"},
             NEW n \in 1..MaxBatch, StartCommit(w, kind, n)
      PROVE  LockInv'
  BY <1>7 DEF StartCommit, files
<1>8. ASSUME NEW w \in Workers, Acquire(w) PROVE LockInv'
  BY <1>8 DEF Acquire, files
<1>9. ASSUME NEW w \in Workers, WriteJournal(w) PROVE LockInv'
  BY <1>9 DEF WriteJournal, files
<1>10. ASSUME NEW w \in Workers, CheckVersion(w) PROVE LockInv'
  BY <1>10 DEF CheckVersion, files
<1>11. ASSUME NEW w \in Workers, Conflict(w) PROVE LockInv'
  BY <1>11 DEF Conflict, files
<1>12. ASSUME NEW w \in Workers, WriteLog(w) PROVE LockInv'
  BY <1>12 DEF WriteLog, files
<1>13. ASSUME NEW w \in Workers, WriteState(w) PROVE LockInv'
  BY <1>13 DEF WriteState, files
<1>14. ASSUME NEW w \in Workers, FinishAppend(w) PROVE LockInv'
  BY <1>14 DEF FinishAppend, files
<1>15. ASSUME NEW w \in Workers, StartVerify(w) PROVE LockInv'
  BY <1>15 DEF StartVerify, files
<1>16. ASSUME NEW w \in Workers, VerifyLog(w) PROVE LockInv'
  BY <1>16 DEF VerifyLog, files
<1>17. ASSUME NEW w \in Workers, Raise(w) PROVE LockInv'
  BY <1>17 DEF Raise, files
<1>18. ASSUME NEW w \in Workers, Crash(w) PROVE LockInv'
  BY <1>18 DEF Crash, files
<1>19. CASE UNCHANGED vars
  BY <1>19 DEF vars, files, locals
<1> QED
  BY <1>1, <1>2, <1>3, <1>4, <1>5, <1>6, <1>7, <1>8, <1>9, <1>10, <1>11, <1>12,
     <1>13, <1>14, <1>15, <1>16, <1>17, <1>18, <1>19 DEF Next, Step

\* A worker that waits for the lock or holds it is committing or recovering.
LEMMA OpStep == TypeOK /\ OpInv /\ [Next]_vars => OpInv'
<1> SUFFICES ASSUME TypeOK, OpInv, [Next]_vars PROVE OpInv'
  OBVIOUS
<1> USE WorkersAssumption DEF OpInv, TypeOK, Holding, Goto
<1>1. ASSUME NEW w \in Workers, Open(w) PROVE OpInv'
  BY <1>1 DEF Open, files
<1>2. ASSUME NEW w \in Workers, Load(w) PROVE OpInv'
  BY <1>2 DEF Load, files
<1>3. ASSUME NEW w \in Workers, RecoverTransaction(w) PROVE OpInv'
  <2>1. CASE journal = {}
    BY <1>3, <2>1 DEF RecoverTransaction
  <2>2. ASSUME NEW j \in journal,
               cs' = [cs EXCEPT ![w] = [expected |-> j.expected, batch |-> j.batch,
                                        recovering |-> TRUE]],
               Goto(w, "check")
        PROVE  OpInv'
    <3>1. j.expected \in Nat /\ j.batch \in Batch OBVIOUS
    <3>2. cs'[w] \in AppendOp /\ cs'[w].recovering BY <2>2, <3>1 DEF AppendOp
    <3> QED BY <1>3, <2>2, <3>2 DEF RecoverTransaction
  <2> QED BY <1>3, <2>1, <2>2 DEF RecoverTransaction
<1>4. ASSUME NEW w \in Workers, ReadState(w) PROVE OpInv'
  <2>1. op[w].kind = "transaction" => op[w] \in CommitOp
    <3>1. op[w] \in {NoOp, OpenOp, VerifyOp} \/ op[w] \in CommitOp OBVIOUS
    <3>2. \A o \in {NoOp, OpenOp, VerifyOp} : o.kind # "transaction"
      BY DEF NoOp, OpenOp, VerifyOp
    <3> QED BY <3>1, <3>2
  <2> QED BY <1>4, <2>1 DEF ReadState, files
<1>5. ASSUME NEW w \in Workers, Create(w) PROVE OpInv'
  BY <1>5 DEF Create, files
<1>6. ASSUME NEW w \in Workers, CreateLog(w) PROVE OpInv'
  BY <1>6 DEF CreateLog, files
<1>7. ASSUME NEW w \in Workers, NEW kind \in {"append", "transaction"},
             NEW n \in 1..MaxBatch, StartCommit(w, kind, n)
      PROVE  OpInv'
  <2>1. issued[w] \in 0..MaxEvents BY DEF TypeOK
  <2>2. NewBatch(w, issued[w], n) \in Batch BY <2>1 DEF Batch
  <2>3. op'[w] \in CommitOp BY <1>7, <2>2 DEF StartCommit, CommitOp
  <2> QED BY <1>7, <2>3 DEF StartCommit, files
<1>8. ASSUME NEW w \in Workers, Acquire(w) PROVE OpInv'
  <2>1. op[w] \in CommitOp BY <1>8 DEF Acquire
  <2>2. cs'[w] \in AppendOp BY <1>8, <2>1 DEF Acquire, AppendOp, CommitOp
  <2> QED BY <1>8, <2>1, <2>2 DEF Acquire
<1>9. ASSUME NEW w \in Workers, WriteJournal(w) PROVE OpInv'
  BY <1>9 DEF WriteJournal, files
<1>10. ASSUME NEW w \in Workers, CheckVersion(w) PROVE OpInv'
  BY <1>10 DEF CheckVersion, files
<1>11. ASSUME NEW w \in Workers, Conflict(w) PROVE OpInv'
  BY <1>11 DEF Conflict, files
<1>12. ASSUME NEW w \in Workers, WriteLog(w) PROVE OpInv'
  BY <1>12 DEF WriteLog, files
<1>13. ASSUME NEW w \in Workers, WriteState(w) PROVE OpInv'
  BY <1>13 DEF WriteState, files
<1>14. ASSUME NEW w \in Workers, FinishAppend(w) PROVE OpInv'
  BY <1>14 DEF FinishAppend, Forget, files
<1>15. ASSUME NEW w \in Workers, StartVerify(w) PROVE OpInv'
  BY <1>15 DEF StartVerify, files
<1>16. ASSUME NEW w \in Workers, VerifyLog(w) PROVE OpInv'
  BY <1>16 DEF VerifyLog, Forget, files
<1>17. ASSUME NEW w \in Workers, Raise(w) PROVE OpInv'
  BY <1>17 DEF Raise, files
<1>18. ASSUME NEW w \in Workers, Crash(w) PROVE OpInv'
  BY <1>18 DEF Crash, Forget, files
<1>19. CASE UNCHANGED vars
  BY <1>19 DEF vars, files, locals
<1> QED
  BY <1>1, <1>2, <1>3, <1>4, <1>5, <1>6, <1>7, <1>8, <1>9, <1>10, <1>11, <1>12,
     <1>13, <1>14, <1>15, <1>16, <1>17, <1>18, <1>19 DEF Next, Step

\* Until state.json exists only the founder runs, so create replaces nothing.
LEMMA BirthStep == OneFounder /\ TypeOK /\ BirthInv /\ [Next]_vars => BirthInv'
<1> SUFFICES ASSUME OneFounder, TypeOK, BirthInv, [Next]_vars PROVE BirthInv'
  OBVIOUS
<1> USE WorkersAssumption DEF OneFounder, BirthInv, TypeOK, Goto
<1>1. ASSUME NEW w \in Workers, Open(w) PROVE BirthInv'
  BY <1>1 DEF Open, files
<1>2. ASSUME NEW w \in Workers, Load(w) PROVE BirthInv'
  BY <1>2 DEF Load, files
<1>3. ASSUME NEW w \in Workers, RecoverTransaction(w) PROVE BirthInv'
  BY <1>3 DEF RecoverTransaction, files
<1>4. ASSUME NEW w \in Workers, ReadState(w) PROVE BirthInv'
  BY <1>4 DEF ReadState, files
<1>5. ASSUME NEW w \in Workers, Create(w) PROVE BirthInv'
  <2>1. ~created /\ w \in Founders BY <1>5 DEF Create
  <2>2. \A v \in Workers : v # w => pc[v] # "create" BY <2>1
  <2> QED BY <1>5, <2>2 DEF Create
<1>6. ASSUME NEW w \in Workers, CreateLog(w) PROVE BirthInv'
  BY <1>6 DEF CreateLog, files
<1>7. ASSUME NEW w \in Workers, NEW kind \in {"append", "transaction"},
             NEW n \in 1..MaxBatch, StartCommit(w, kind, n)
      PROVE  BirthInv'
  BY <1>7 DEF StartCommit, files
<1>8. ASSUME NEW w \in Workers, Acquire(w) PROVE BirthInv'
  BY <1>8 DEF Acquire, files
<1>9. ASSUME NEW w \in Workers, WriteJournal(w) PROVE BirthInv'
  BY <1>9 DEF WriteJournal, files
<1>10. ASSUME NEW w \in Workers, CheckVersion(w) PROVE BirthInv'
  BY <1>10 DEF CheckVersion, files
<1>11. ASSUME NEW w \in Workers, Conflict(w) PROVE BirthInv'
  BY <1>11 DEF Conflict, files
<1>12. ASSUME NEW w \in Workers, WriteLog(w) PROVE BirthInv'
  BY <1>12 DEF WriteLog, files
<1>13. ASSUME NEW w \in Workers, WriteState(w) PROVE BirthInv'
  BY <1>13 DEF WriteState, files
<1>14. ASSUME NEW w \in Workers, FinishAppend(w) PROVE BirthInv'
  BY <1>14 DEF FinishAppend, files
<1>15. ASSUME NEW w \in Workers, StartVerify(w) PROVE BirthInv'
  BY <1>15 DEF StartVerify, files
<1>16. ASSUME NEW w \in Workers, VerifyLog(w) PROVE BirthInv'
  BY <1>16 DEF VerifyLog, files
<1>17. ASSUME NEW w \in Workers, Raise(w) PROVE BirthInv'
  BY <1>17 DEF Raise, files
<1>18. ASSUME NEW w \in Workers, Crash(w) PROVE BirthInv'
  BY <1>18 DEF Crash, files
<1>19. CASE UNCHANGED vars
  BY <1>19 DEF vars, files, locals
<1> QED
  BY <1>1, <1>2, <1>3, <1>4, <1>5, <1>6, <1>7, <1>8, <1>9, <1>10, <1>11, <1>12,
     <1>13, <1>14, <1>15, <1>16, <1>17, <1>18, <1>19 DEF Next, Step
-----------------------------------------------------------------------------
(* The document only grows. *)

\* Appending to a document keeps its past, and what was applied to it.
LEMMA PastOfAppend ==
  ASSUME NEW d \in Seq(Payload), NEW b \in Seq(Payload)
  PROVE  /\ IsPast(d, d)
         /\ IsPast(d, d \o b)
         /\ \A c \in Seq(Payload) : IsPast(c, d) => IsPast(c, d \o b)
         /\ \A i \in 1..Len(b) : (d \o b)[Len(d) + i] = b[i]
BY DEF IsPast

\* What was applied to a document is still applied to its later versions.
LEMMA AppliedInPast ==
  ASSUME NEW d \in Seq(Payload), NEW e \in Seq(Payload), IsPast(d, e),
         NEW v \in Nat, NEW b \in Batch, NEW a, a.expected = v, a.batch = b,
         AppliedAt(a, d)
  PROVE  AppliedAt(a, e)
<1>1. b \in Seq(Payload) BY BatchIsSeq
<1> QED BY <1>1 DEF AppliedAt, IsPast

\* Only WriteState changes state.json once it exists, and it appends the batch
\* of the commit to the document that was read under the lock.
LEMMA StateStep ==
  ASSUME TypeOK, OpInv, DocInv, BirthInv, [Next]_vars
  PROVE  \/ state' = state
         \/ \E w \in Workers : WriteState(w) /\ state' = state \o cs[w].batch
<1> DEFINE Goal == \/ state' = state
                   \/ \E w \in Workers : WriteState(w) /\ state' = state \o cs[w].batch
<1>1. ASSUME NEW w \in Workers, WriteState(w) PROVE Goal
  BY <1>1 DEF WriteState, DocInv
<1>2. ASSUME NEW w \in Workers, Create(w) PROVE Goal
  BY <1>2 DEF Create, BirthInv
<1>3. ASSUME NEW w \in Workers,
             \/ Open(w) \/ Load(w) \/ RecoverTransaction(w) \/ ReadState(w) \/ CreateLog(w)
             \/ \E kind \in {"append", "transaction"}, n \in 1..MaxBatch :
                    StartCommit(w, kind, n)
             \/ Acquire(w) \/ WriteJournal(w) \/ CheckVersion(w) \/ Conflict(w)
             \/ WriteLog(w) \/ FinishAppend(w) \/ StartVerify(w) \/ VerifyLog(w)
             \/ Raise(w) \/ Crash(w)
      PROVE  state' = state
  BY <1>3 DEF Open, Load, RecoverTransaction, ReadState, CreateLog, StartCommit, Acquire,
     WriteJournal, CheckVersion, Conflict, WriteLog, FinishAppend, StartVerify, VerifyLog,
     Raise, Crash, files
<1>4. CASE UNCHANGED vars BY <1>4 DEF vars, files
<1> QED BY <1>1, <1>2, <1>3, <1>4 DEF Next, Step

\* state.json only grows, so what a caller has seen of it stays.
LEMMA StateGrows ==
  ASSUME TypeOK, OpInv, DocInv, BirthInv, [Next]_vars
  PROVE  IsPast(state, state')
<1>1. CASE state' = state BY <1>1, PastOfAppend DEF TypeOK
<1>2. ASSUME NEW w \in Workers, WriteState(w), state' = state \o cs[w].batch
      PROVE  IsPast(state, state')
  <2>1. cs[w] \in AppendOp BY <1>2 DEF WriteState, OpInv, Holding
  <2>2. cs[w].batch \in Seq(Payload) BY <2>1, BatchIsSeq DEF AppendOp
  <2> QED BY <1>2, <2>2, PastOfAppend DEF TypeOK
<1> QED BY <1>1, <1>2, StateStep

\* Between the version check and the write nobody else changes the document.
LEMMA DocStep ==
  TypeOK /\ LockInv /\ OpInv /\ BirthInv /\ DocInv /\ [Next]_vars => DocInv'
<1> SUFFICES ASSUME TypeOK, LockInv, OpInv, BirthInv, DocInv, [Next]_vars PROVE DocInv'
  OBVIOUS
<1> USE WorkersAssumption DEF Goto
<1>1. ASSUME NEW w \in Workers, Open(w) PROVE DocInv'
  BY <1>1 DEF Open, DocInv, TypeOK, Forget, files
<1>2. ASSUME NEW w \in Workers, Load(w) PROVE DocInv'
  BY <1>2 DEF Load, DocInv, TypeOK, Forget, files
<1>3. ASSUME NEW w \in Workers, RecoverTransaction(w) PROVE DocInv'
  BY <1>3 DEF RecoverTransaction, DocInv, TypeOK, Forget, files
<1>4. ASSUME NEW w \in Workers, ReadState(w) PROVE DocInv'
  <2>1. IsPast(state, state) BY PastOfAppend DEF TypeOK
  <2>2. state' = state /\ cs' = cs BY <1>4 DEF ReadState, files
  <2>3. \A v \in Workers : v # w => pc'[v] = pc[v] /\ doc'[v] = doc[v]
    BY <1>4 DEF ReadState, TypeOK
  <2>4. /\ pc'[w] \in {"create", "idle", "acquire", "verify"}
        /\ pc'[w] = "verify" => doc'[w] = state
    BY <1>4 DEF ReadState, TypeOK
  <2> QED BY <2>1, <2>2, <2>3, <2>4 DEF DocInv
<1>5. ASSUME NEW w \in Workers, Create(w) PROVE DocInv'
  <2>1. state' = state BY <1>5 DEF Create, BirthInv
  <2> QED BY <1>5, <2>1 DEF Create, DocInv, TypeOK
<1>6. ASSUME NEW w \in Workers, CreateLog(w) PROVE DocInv'
  BY <1>6 DEF CreateLog, DocInv, TypeOK, Forget, files
<1>7. ASSUME NEW w \in Workers, NEW kind \in {"append", "transaction"},
             NEW n \in 1..MaxBatch, StartCommit(w, kind, n)
      PROVE  DocInv'
  BY <1>7 DEF StartCommit, DocInv, TypeOK, Forget, files
<1>8. ASSUME NEW w \in Workers, Acquire(w) PROVE DocInv'
  BY <1>8 DEF Acquire, DocInv, TypeOK, Forget, files
<1>9. ASSUME NEW w \in Workers, WriteJournal(w) PROVE DocInv'
  BY <1>9 DEF WriteJournal, DocInv, TypeOK, Forget, files
<1>10. ASSUME NEW w \in Workers, CheckVersion(w) PROVE DocInv'
  BY <1>10 DEF CheckVersion, DocInv, TypeOK, Forget, files
<1>11. ASSUME NEW w \in Workers, Conflict(w) PROVE DocInv'
  BY <1>11 DEF Conflict, DocInv, TypeOK, Forget, files
<1>12. ASSUME NEW w \in Workers, WriteLog(w) PROVE DocInv'
  BY <1>12 DEF WriteLog, DocInv, TypeOK, Forget, files
<1>13. ASSUME NEW w \in Workers, WriteState(w) PROVE DocInv'
  <2>1. cs[w] \in AppendOp BY <1>13 DEF WriteState, OpInv, Holding
  <2>2. cs[w].expected \in Nat /\ cs[w].batch \in Seq(Payload)
    BY <2>1, BatchIsSeq DEF AppendOp
  <2>3. /\ Len(state) = cs[w].expected
        /\ doc[w] = state \o cs[w].batch
        /\ state' = doc[w] /\ doc' = doc /\ cs' = cs
        /\ pc' = [pc EXCEPT ![w] = "finish"]
    BY <1>13 DEF WriteState, DocInv
  <2>4. AppliedAt(cs[w], state')
    <3>1. /\ Len(state') = Len(state) + Len(cs[w].batch)
          /\ \A i \in 1..Len(cs[w].batch) : state'[Len(state) + i] = cs[w].batch[i]
      <4>1. state \in Seq(Payload) BY DEF TypeOK
      <4>2. \A i \in 1..Len(cs[w].batch) :
                (state \o cs[w].batch)[Len(state) + i] = cs[w].batch[i]
        BY <2>2, <4>1, PastOfAppend
      <4>3. Len(state \o cs[w].batch) = Len(state) + Len(cs[w].batch) BY <2>2, <4>1
      <4>4. state' = state \o cs[w].batch BY <2>3
      <4> QED BY <4>2, <4>3, <4>4
    <3>2. Len(state) \in Nat /\ Len(cs[w].batch) \in Nat BY <2>2 DEF TypeOK
    <3> QED BY <2>3, <3>1, <3>2, SMTT(30) DEF AppliedAt
  <2>5. \A v \in Workers : v # w => pc[v] \notin Holding
    BY <1>13 DEF LockInv, WriteState, Holding
  <2>6. \A v \in Workers : IsPast(doc[v], state) => IsPast(doc[v], state')
    BY <2>2, <2>3, PastOfAppend DEF TypeOK
  <2>7. \A v \in Workers : v # w => pc'[v] = pc[v]
    BY <2>3 DEF TypeOK
  <2>8. pc'[w] = "finish" BY <2>3 DEF TypeOK
  <2> QED BY <2>3, <2>4, <2>5, <2>6, <2>7, <2>8 DEF DocInv, Holding
<1>14. ASSUME NEW w \in Workers, FinishAppend(w) PROVE DocInv'
  BY <1>14 DEF FinishAppend, DocInv, TypeOK, Forget, files
<1>15. ASSUME NEW w \in Workers, StartVerify(w) PROVE DocInv'
  BY <1>15 DEF StartVerify, DocInv, TypeOK, Forget, files
<1>16. ASSUME NEW w \in Workers, VerifyLog(w) PROVE DocInv'
  BY <1>16 DEF VerifyLog, DocInv, TypeOK, Forget, files
<1>17. ASSUME NEW w \in Workers, Raise(w) PROVE DocInv'
  BY <1>17 DEF Raise, DocInv, TypeOK, Forget, files
<1>18. ASSUME NEW w \in Workers, Crash(w) PROVE DocInv'
  BY <1>18 DEF Crash, DocInv, TypeOK, Forget, files
<1>19. CASE UNCHANGED vars
  BY <1>19 DEF DocInv, vars, files, locals
<1> QED
  BY <1>1, <1>2, <1>3, <1>4, <1>5, <1>6, <1>7, <1>8, <1>9, <1>10, <1>11, <1>12,
     <1>13, <1>14, <1>15, <1>16, <1>17, <1>18, <1>19 DEF Next, Step

-----------------------------------------------------------------------------
(* The properties. *)

\* What a returned append committed is still there after any step.
LEMMA AckedStep == IInv /\ [Next]_vars => AckedDurable'
<1> SUFFICES ASSUME IInv, [Next]_vars PROVE AckedDurable'
  OBVIOUS
<1>1. state' \in Seq(Payload) /\ IsPast(state, state')
  BY TypeStep, StateGrows DEF IInv, TypeOK
<1>2. ASSUME NEW a \in acked PROVE AppliedAt(a, state')
  BY <1>1, AppliedInPast DEF IInv, TypeOK, AckedDurable
<1>3. ASSUME NEW a \in acked', a \notin acked PROVE AppliedAt(a, state')
  <2>1. PICK w \in Workers :
            /\ pc[w] = "finish"
            /\ a = [expected |-> cs[w].expected, batch |-> cs[w].batch]
    BY <1>3 DEF Next, Step, Open, Load, RecoverTransaction, ReadState, Create, CreateLog,
       StartCommit, Acquire, WriteJournal, CheckVersion, Conflict, WriteLog, WriteState,
       FinishAppend, StartVerify, VerifyLog, Raise, Crash, vars
  <2>2. AppliedAt(cs[w], state) /\ cs[w] \in AppendOp
    BY <2>1 DEF IInv, DocInv, OpInv, Holding
  <2>3. AppliedAt(a, state) BY <2>1, <2>2 DEF AppliedAt
  <2>4. /\ cs[w].expected \in Nat /\ cs[w].batch \in Batch
        /\ a.expected = cs[w].expected /\ a.batch = cs[w].batch
    BY <2>1, <2>2 DEF AppendOp
  <2>5. state \in Seq(Payload) BY DEF IInv, TypeOK
  <2> QED BY <1>1, <2>3, <2>4, <2>5, AppliedInPast
<1> QED BY <1>2, <1>3 DEF AckedDurable

\* Every runtime's document stays a past version of state.json.
LEMMA SnapshotStep == IInv /\ [Next]_vars => SnapshotIsPast'
<1> SUFFICES ASSUME IInv, [Next]_vars, NEW v \in Workers PROVE IsPast(snapshot[v], state)'
  BY DEF SnapshotIsPast
<1>1. state \in Seq(Payload) /\ state' \in Seq(Payload) /\ IsPast(state, state')
  BY TypeStep, StateGrows DEF IInv, TypeOK
<1>2. IsPast(<<>>, state) /\ IsPast(state, state) BY <1>1 DEF IsPast
<1>3. \/ snapshot'[v] = snapshot[v]
      \/ snapshot'[v] = <<>>
      \/ snapshot'[v] = state
      \/ snapshot'[v] = doc[v] /\ pc[v] \in {"finish", "verify"}
  <2>1. snapshot \in [Workers -> Seq(Payload)] BY DEF IInv, TypeOK
  <2> QED BY <2>1 DEF Next, Step, Open, Load, RecoverTransaction, ReadState, Create,
       CreateLog, StartCommit, Acquire, WriteJournal, CheckVersion, Conflict, WriteLog,
       WriteState, FinishAppend, StartVerify, VerifyLog, Raise, Crash, vars, locals
<1>4. snapshot'[v] \in Seq(Payload) /\ IsPast(snapshot'[v], state)
  <2>1. doc[v] \in Seq(Payload) /\ snapshot[v] \in Seq(Payload) BY DEF IInv, TypeOK
  <2>2. IsPast(snapshot[v], state) BY DEF IInv, SnapshotIsPast
  <2>3. pc[v] \in {"finish", "verify"} => IsPast(doc[v], state)
    BY <1>2 DEF IInv, DocInv
  <2>4. <<>> \in Seq(Payload) OBVIOUS
  <2> QED BY <1>1, <1>2, <1>3, <2>1, <2>2, <2>3, <2>4
<1> QED BY <1>1, <1>4 DEF IsPast

\* IInv holds initially and is kept by every step.
THEOREM Inductive == OneFounder /\ Spec => []IInv
<1> SUFFICES ASSUME OneFounder PROVE Spec => []IInv
  OBVIOUS
<1>1. Init => IInv
  <2> SUFFICES ASSUME Init PROVE IInv
    OBVIOUS
  <2>1. TypeOK BY TypeInit
  <2>2. \A w \in Workers : pc[w] = "down" /\ lock # w BY WorkersAssumption DEF Init
  <2>5. LockInv /\ OpInv /\ DocInv BY <2>2 DEF LockInv, OpInv, DocInv, Holding
  <2>3. BirthInv /\ AckedDurable BY DEF Init, BirthInv, AckedDurable
  <2>4. SnapshotIsPast
    <3>1. state = <<>> /\ \A w \in Workers : snapshot[w] = <<>> BY DEF Init
    <3>2. IsPast(<<>>, <<>>) BY DEF IsPast
    <3> QED BY <3>1, <3>2 DEF SnapshotIsPast
  <2> QED BY <2>1, <2>3, <2>4, <2>5 DEF IInv
<1>2. IInv /\ [Next]_vars => IInv'
  BY TypeStep, LockStep, OpStep, BirthStep, DocStep, AckedStep, SnapshotStep DEF IInv
<1> QED BY <1>1, <1>2, PTL DEF Spec

\* Files and local variables are well-typed in every reachable state.
THEOREM TypeCorrect == OneFounder /\ Spec => []TypeOK
<1>1. IInv => TypeOK BY DEF IInv
<1> QED BY <1>1, Inductive, PTL

\* No acknowledged commit is ever lost or moved, whatever crashes and
\* recoveries follow (append, append_transaction, _recover_transaction).
THEOREM AckedCommitsAreDurable == OneFounder /\ Spec => []AckedDurable
<1>1. IInv => AckedDurable BY DEF IInv
<1> QED BY <1>1, Inductive, PTL

\* A runtime never holds a document of another history, so the version check
\* of _append_locked refuses every stale caller.
THEOREM SnapshotsArePast == OneFounder /\ Spec => []SnapshotIsPast
<1>1. IInv => SnapshotIsPast BY DEF IInv
<1> QED BY <1>1, Inductive, PTL

-----------------------------------------------------------------------------
(* The event log. *)

\* While an append is between the log and the document the log is already that
\* of the document to come.
LogInv ==
    crashes = 0 /\ wiped = FALSE =>
        /\ (\A w \in Workers : pc[w] # "writeState") => Rebuilds(log, state)
        /\ \A w \in Workers : pc[w] = "writeState" => Rebuilds(log, doc[w])

\* Stamping a batch after a document stamps the longer document.
LEMMA StampAppend ==
  ASSUME NEW d \in Seq(Payload), NEW b \in Seq(Payload)
  PROVE  Stamp(0, d) \o Stamp(Len(d), b) = Stamp(0, d \o b)
<1> DEFINE Rec(v, e) == [sequence |-> v, payload |-> e]
           l == Stamp(0, d) \o Stamp(Len(d), b)
           r == Stamp(0, d \o b)
<1>1. Len(d) \in Nat /\ Len(b) \in Nat /\ Len(d \o b) = Len(d) + Len(b) OBVIOUS
<1>2. /\ Stamp(0, d) \in Seq(Event) /\ Len(Stamp(0, d)) = Len(d)
      /\ \A i \in 1..Len(d) : Stamp(0, d)[i] = Rec(i, d[i])
  BY <1>1 DEF Stamp, Event
<1>3. /\ Stamp(Len(d), b) \in Seq(Event) /\ Len(Stamp(Len(d), b)) = Len(b)
      /\ \A i \in 1..Len(b) : Stamp(Len(d), b)[i] = Rec(Len(d) + i, b[i])
  BY <1>1 DEF Stamp, Event
<1>4. d \o b \in Seq(Payload) OBVIOUS
<1>5. /\ r \in Seq(Event) /\ Len(r) = Len(d) + Len(b)
      /\ \A i \in 1..(Len(d) + Len(b)) : r[i] = Rec(i, (d \o b)[i])
  BY <1>1, <1>4 DEF Stamp, Event
<1>6. /\ l \in Seq(Event) /\ Len(l) = Len(d) + Len(b)
      /\ \A i \in 1..(Len(d) + Len(b)) :
            l[i] = IF i <= Len(d) THEN Stamp(0, d)[i] ELSE Stamp(Len(d), b)[i - Len(d)]
  <2> HIDE DEF Rec
  <2>1. \A i \in 1..(Len(Stamp(0, d)) + Len(Stamp(Len(d), b))) :
            l[i] = IF i <= Len(Stamp(0, d)) THEN Stamp(0, d)[i]
                   ELSE Stamp(Len(d), b)[i - Len(Stamp(0, d))]
    BY <1>2, <1>3
  <2>2. l \in Seq(Event) /\ Len(l) = Len(Stamp(0, d)) + Len(Stamp(Len(d), b))
    BY <1>2, <1>3, ConcatProperties, Zenon
  <2> QED BY <1>2, <1>3, <2>1, <2>2
<1>7. ASSUME NEW i \in 1..(Len(d) + Len(b)) PROVE l[i] = r[i]
  <2>1. CASE i <= Len(d)
    <3>1. i \in 1..Len(d) /\ (d \o b)[i] = d[i] BY <1>1, <2>1
    <3>2. l[i] = Stamp(0, d)[i] BY <1>1, <1>6, <2>1
    <3> QED BY <1>2, <1>5, <3>1, <3>2
  <2>2. CASE i > Len(d)
    <3> DEFINE k == i - Len(d)
    <3>1. k \in 1..Len(b) /\ i = Len(d) + k BY <1>1, <2>2
    <3>2. (d \o b)[i] = b[k] BY <1>1, <3>1
    <3>3. l[i] = Stamp(Len(d), b)[k] BY <1>1, <1>6, <2>2
    <3>4. Stamp(Len(d), b)[k] = Rec(i, b[k]) BY <1>3, <3>1
    <3> QED BY <1>5, <3>2, <3>3, <3>4
  <2>3. i <= Len(d) \/ i > Len(d) BY <1>1
  <2> QED BY <2>1, <2>2, <2>3, Zenon
<1> HIDE DEF l, r
<1>8. l = r BY <1>5, <1>6, <1>7, SeqEqual, Zenon
<1> QED BY <1>8 DEF l, r

\* Every step keeps the log that of the document, unless it kills a process or
\* empties a log with events.
LEMMA LogStep == IInv /\ LogInv /\ [Next]_vars => LogInv'
<1> SUFFICES ASSUME IInv, LogInv, [Next]_vars, crashes' = 0, wiped' = FALSE
             PROVE  /\ (\A w \in Workers : pc'[w] # "writeState") => Rebuilds(log', state')
                    /\ \A w \in Workers : pc'[w] = "writeState" => Rebuilds(log', doc'[w])
  BY DEF LogInv, Rebuilds
<1> USE WorkersAssumption DEF Goto
<1>0. TypeOK /\ LockInv /\ OpInv /\ DocInv /\ BirthInv BY DEF IInv
<1>1. ASSUME NEW w \in Workers, WriteLog(w)
      PROVE  /\ Rebuilds(log', doc'[w]) /\ pc'[w] = "writeState"
             /\ \A v \in Workers : v # w => pc'[v] # "writeState"
  <2>1. \A v \in Workers : v # w => pc[v] \notin Holding
    BY <1>0, <1>1 DEF LockInv, WriteLog, Holding
  <2>2. Rebuilds(log, state)
    BY <1>1, <2>1 DEF LogInv, WriteLog, Holding
  <2>3. /\ Len(state) = cs[w].expected /\ doc[w] = state \o cs[w].batch /\ doc' = doc
        /\ log' = log \o Stamp(cs[w].expected, cs[w].batch)
        /\ pc' = [pc EXCEPT ![w] = "writeState"]
    BY <1>0, <1>1 DEF WriteLog, DocInv
  <2>4. cs[w].batch \in Seq(Payload)
    BY <1>0, <1>1, BatchIsSeq DEF WriteLog, OpInv, Holding, AppendOp
  <2>5. state \in Seq(Payload) BY <1>0 DEF TypeOK
  <2>6. Stamp(0, state) \o Stamp(Len(state), cs[w].batch) = Stamp(0, state \o cs[w].batch)
    BY <2>4, <2>5, StampAppend
  <2>7. Rebuilds(log', doc'[w]) BY <2>2, <2>3, <2>6 DEF Rebuilds
  <2>8. pc'[w] = "writeState" /\ \A v \in Workers : v # w => pc'[v] # "writeState"
    BY <1>0, <2>1, <2>3 DEF TypeOK, Holding
  <2> QED BY <2>7, <2>8
<1>2. ASSUME NEW w \in Workers, WriteState(w)
      PROVE  Rebuilds(log', state') /\ \A v \in Workers : pc'[v] # "writeState"
  <2>1. \A v \in Workers : v # w => pc[v] \notin Holding
    BY <1>0, <1>2 DEF LockInv, WriteState, Holding
  <2>2. Rebuilds(log, doc[w]) /\ log' = log /\ state' = doc[w]
    BY <1>2 DEF LogInv, WriteState
  <2>3. \A v \in Workers : pc'[v] # "writeState"
    BY <1>0, <1>2, <2>1 DEF TypeOK, WriteState, Holding
  <2> QED BY <2>2, <2>3 DEF Rebuilds
<1>3. ASSUME NEW w \in Workers, Crash(w) PROVE FALSE
  BY <1>0, <1>3 DEF Crash, TypeOK
<1>4. ASSUME log' = log, state' = state, crashes' = crashes, wiped = FALSE,
             \A v \in Workers : /\ pc'[v] = "writeState" <=> pc[v] = "writeState"
                                /\ pc[v] = "writeState" => doc'[v] = doc[v]
      PROVE  /\ (\A v \in Workers : pc'[v] # "writeState") => Rebuilds(log', state')
             /\ \A v \in Workers : pc'[v] = "writeState" => Rebuilds(log', doc'[v])
  <2>1. crashes = 0 /\ wiped = FALSE BY <1>4
  <2>2. /\ (\A v \in Workers : pc[v] # "writeState") => Rebuilds(log, state)
        /\ \A v \in Workers : pc[v] = "writeState" => Rebuilds(log, doc[v])
    BY <2>1, Zenon DEF LogInv
  <2> QED BY <1>4, <2>2 DEF Rebuilds
<1>5. ASSUME NEW w \in Workers, Create(w) \/ CreateLog(w)
      PROVE  /\ log' = log /\ state' = state /\ crashes' = crashes /\ wiped = FALSE
             /\ \A v \in Workers : /\ pc'[v] = "writeState" <=> pc[v] = "writeState"
                                   /\ pc[v] = "writeState" => doc'[v] = doc[v]
  <2>1. CASE Create(w) BY <1>0, <2>1 DEF Create, BirthInv, TypeOK
  <2>2. CASE CreateLog(w)
    <3>1. log = <<>> /\ log' = <<>> /\ wiped = FALSE BY <2>2 DEF CreateLog
    <3> QED BY <1>0, <2>2, <3>1 DEF CreateLog, TypeOK
  <2> QED BY <1>5, <2>1, <2>2
<1> DEFINE Keeps == /\ log' = log /\ state' = state /\ crashes' = crashes /\ wiped = FALSE
                    /\ \A v \in Workers : /\ pc'[v] = "writeState" <=> pc[v] = "writeState"
                                          /\ pc[v] = "writeState" => doc'[v] = doc[v]
<1>6. ASSUME NEW w \in Workers, Open(w) \/ Load(w) \/ RecoverTransaction(w) PROVE Keeps
  BY <1>0, <1>6 DEF Open, Load, RecoverTransaction, files, TypeOK
<1>7. ASSUME NEW w \in Workers, ReadState(w) PROVE Keeps
  BY <1>0, <1>7 DEF ReadState, files, TypeOK
<1>8. ASSUME NEW w \in Workers, Acquire(w) \/ WriteJournal(w) \/ CheckVersion(w) PROVE Keeps
  BY <1>0, <1>8 DEF Acquire, WriteJournal, CheckVersion, files, TypeOK
<1>9. ASSUME NEW w \in Workers, Conflict(w) PROVE Keeps
  BY <1>0, <1>9 DEF Conflict, TypeOK
<1>10. ASSUME NEW w \in Workers, FinishAppend(w) \/ VerifyLog(w) PROVE Keeps
  BY <1>0, <1>10 DEF FinishAppend, VerifyLog, Forget, files, TypeOK
<1>11. ASSUME NEW w \in Workers, StartVerify(w) \/ Raise(w) PROVE Keeps
  BY <1>0, <1>11 DEF StartVerify, Raise, files, TypeOK
<1>12. ASSUME NEW w \in Workers, NEW kind \in {"append", "transaction"},
              NEW n \in 1..MaxBatch, StartCommit(w, kind, n)
       PROVE  Keeps
  BY <1>0, <1>12 DEF StartCommit, files, TypeOK
<1>13. CASE UNCHANGED vars BY <1>4, <1>13 DEF vars, files, locals
<1>14. CASE Keeps BY <1>4, <1>14
<1>15. CASE Next
  <2>1. PICK w \in Workers :
           \/ Open(w) \/ Step(w) \/ StartVerify(w) \/ Crash(w)
           \/ \E kind \in {"append", "transaction"}, n \in 1..MaxBatch : StartCommit(w, kind, n)
    BY <1>15, Zenon DEF Next
  <2>2. CASE WriteLog(w)
    <3> HIDE DEF Keeps
    <3> QED BY <1>1, <2>2 DEF Rebuilds
  <2>3. CASE WriteState(w) BY <1>2, <2>3
  <2>4. CASE Crash(w) BY <1>3, <2>4
  <2>5. CASE ~(WriteLog(w) \/ WriteState(w) \/ Crash(w))
    <3> HIDE DEF Keeps
    <3>1. Keeps
      <4> USE DEF Keeps
      <4>1. CASE Create(w) \/ CreateLog(w) BY <1>5, <4>1
      <4> HIDE DEF Keeps
      <4> QED BY <2>1, <2>5, <4>1, <1>6, <1>7, <1>8, <1>9, <1>10, <1>11, <1>12, Zenon DEF Step
    <3> QED BY <1>14, <3>1
  <2> QED BY <2>2, <2>3, <2>4, <2>5
<1> QED BY <1>13, <1>15

\* Without a kill and without a creation that empties the log, the event log
\* rebuilds state.json whenever the lock is free (_append_locked, create).
THEOREM LogIsHistory == OneFounder /\ Spec => []LogRebuildsState
<1>1. Init => LogInv
  <2> SUFFICES ASSUME Init PROVE LogInv OBVIOUS
  <2>1. log = <<>> /\ state = <<>> /\ \A w \in Workers : pc[w] = "down" BY DEF Init
  <2>2. Stamp(0, <<>>) = <<>> BY DEF Stamp
  <2> QED BY <2>1, <2>2 DEF LogInv, Rebuilds
<1>2. IInv /\ LogInv => LogRebuildsState
  <2> SUFFICES ASSUME IInv, LogInv, crashes = 0, ~wiped, lock = NoWorker
               PROVE  Rebuilds(log, state)
    BY Zenon DEF LogRebuildsState
  <2>1. wiped = FALSE BY Zenon DEF IInv, TypeOK
  <2>2. \A w \in Workers : pc[w] # "writeState"
    BY WorkersAssumption DEF IInv, LockInv, Holding
  <2> QED BY <2>1, <2>2 DEF LogInv
<1> QED BY <1>1, <1>2, Inductive, LogStep, PTL DEF Spec

-----------------------------------------------------------------------------
(* Refinement of EventStream: no batch enters the document twice. *)

Committing(w) == op[w].kind \in {"append", "transaction"}
Appending(w) == pc[w] \in Holding /\ ~cs[w].recovering
Recovering(w) == pc[w] \in Holding /\ cs[w].recovering

\* The payloads of d were issued, b is made of payloads of w, and the first
\* payload of b is not in d.
Numbered(d) == \A i \in 1..Len(d) : d[i][2] <= issued[d[i][1]]
OwnedBy(w, b) == \A i \in 1..Len(b) : b[i][1] = w
Fresh(b, d) == \A i \in 1..Len(d) : d[i] # b[1]

\* Whatever is on disk or on its way there was issued.
IssuedInv ==
    /\ Numbered(state)
    /\ \A j \in journal : Numbered(j.batch)
    /\ \A w \in Workers :
          /\ Committing(w) => Numbered(op[w].batch) /\ OwnedBy(w, op[w].batch)
          /\ pc[w] \in Holding => Numbered(cs[w].batch)

\* A commit that has not reached state.json is nowhere else: not in another
\* process's append, and not in a journal but the one its own append wrote.
PendingInv ==
    \A w \in Workers :
        /\ Appending(w) => cs[w].batch = op[w].batch
        /\ Committing(w) =>
              /\ ~(Appending(w) /\ pc[w] = "finish") => Fresh(op[w].batch, state)
              /\ ~Appending(w) => \A j \in journal : Fresh(op[w].batch, j.batch)
              /\ \A v \in Workers : Recovering(v) => Fresh(op[w].batch, cs[v].batch)

\* An append, or a journal, that matches the version on disk is not there yet.
VersionInv ==
    /\ \A j \in journal :
          /\ j.expected <= Len(state)
          /\ j.expected = Len(state) => Fresh(j.batch, state)
    /\ \A w \in Workers :
          /\ pc[w] \in Holding => cs[w].expected <= Len(state)
          /\ pc[w] \in Holding \ {"finish"}
                => (cs[w].expected = Len(state) => Fresh(cs[w].batch, state))

FreshInv == IssuedInv /\ PendingInv /\ VersionInv

\* A batch is not empty, and freshness, ownership and numbers extend to
\* documents that a batch is appended to.
LEMMA FreshFacts ==
  ASSUME NEW b \in Batch, NEW c \in Batch, NEW d \in Seq(Payload)
  PROVE  /\ Fresh(b, d) /\ Fresh(b, c) => Fresh(b, d \o c)
         /\ Numbered(d) /\ Numbered(c) => Numbered(d \o c)
         /\ \A v, w : v # w /\ OwnedBy(v, b) /\ OwnedBy(w, c) => Fresh(b, c)
         /\ Len(d \o c) > Len(d)
<1>1. /\ b \in Seq(Payload) /\ Len(b) \in Nat \ {0} /\ c \in Seq(Payload)
      /\ Len(c) \in Nat \ {0} /\ Len(d) \in Nat
  BY BatchIsSeq
<1>2. PICK e : e = d \o c OBVIOUS
<1>3. /\ Len(e) = Len(d) + Len(c)
      /\ \A i \in 1..Len(e) : \/ i \in 1..Len(d) /\ e[i] = d[i]
                              \/ \E k \in 1..Len(c) : e[i] = c[k]
  <2>1. ASSUME NEW i \in 1..(Len(d) + Len(c)), i \notin 1..Len(d)
        PROVE  i - Len(d) \in 1..Len(c) /\ e[i] = c[i - Len(d)]
    BY <1>1, <1>2, <2>1
  <2> QED BY <1>1, <1>2, <2>1
<1>4. Fresh(b, d) /\ Fresh(b, c) => Fresh(b, e) BY <1>3 DEF Fresh
<1>5. Numbered(d) /\ Numbered(c) => Numbered(e) BY <1>3 DEF Numbered
<1>6. ASSUME NEW v, NEW w, v # w, OwnedBy(v, b), OwnedBy(w, c) PROVE Fresh(b, c)
  BY <1>1, <1>6 DEF OwnedBy, Fresh
<1>7. Len(e) > Len(d) BY <1>1, <1>3
<1> QED BY <1>2, <1>4, <1>5, <1>6, <1>7

\* A new batch is numbered beyond everything that was issued.
LEMMA NewBatchFacts ==
  ASSUME TypeOK, NEW w \in Workers, NEW n \in 1..MaxBatch, issued[w] + n <= MaxEvents,
         issued' = [issued EXCEPT ![w] = @ + n], NEW b, b = NewBatch(w, issued[w], n)
  PROVE  /\ b \in Batch /\ OwnedBy(w, b) /\ Numbered(b)'
         /\ \A d \in Seq(Payload) : Numbered(d) => Numbered(d)' /\ Fresh(b, d)
<1>1. n \in Nat \ {0} /\ issued[w] \in 0..MaxEvents /\ issued[w] \in Nat
  BY WorkersAssumption DEF TypeOK
<1>2. b \in Batch BY <1>1 DEF Batch
<1>3. Len(b) = n /\ \A i \in 1..n : b[i] = <<w, issued[w] + i>> BY <1>1 DEF NewBatch
<1>4. issued'[w] = issued[w] + n /\ \A v \in Workers : v # w => issued'[v] = issued[v]
  BY DEF TypeOK
<1>5. OwnedBy(w, b) BY <1>3 DEF OwnedBy
<1>6. Numbered(b)'
  <2>1. \A i \in 1..n : b[i][2] = issued[w] + i /\ b[i][1] = w BY <1>3
  <2>2. \A i \in 1..n : issued[w] + i <= issued[w] + n BY <1>1
  <2> QED BY <1>3, <1>4, <2>1, <2>2 DEF Numbered
<1>7. ASSUME NEW d \in Seq(Payload), Numbered(d) PROVE Numbered(d)' /\ Fresh(b, d)
  <2>1. \A i \in 1..Len(d) : d[i][1] \in Workers /\ d[i][2] \in Nat BY DEF Payload
  <2>2. \A v \in Workers : issued[v] \in Nat /\ issued'[v] \in Nat /\ issued[v] <= issued'[v]
    BY <1>1, <1>4, WorkersAssumption DEF TypeOK
  <2>3. Numbered(d)' BY <1>7, <2>1, <2>2 DEF Numbered
  <2>4. b[1] = <<w, issued[w] + 1>> BY <1>1, <1>3
  <2>5. ASSUME NEW i \in 1..Len(d), d[i] = b[1] PROVE FALSE
    <3>1. d[i][1] = w /\ d[i][2] = issued[w] + 1 BY <2>4, <2>5
    <3> QED BY <1>1, <1>7, <2>1, <3>1 DEF Numbered
  <2>6. Fresh(b, d) BY <2>5 DEF Fresh
  <2> QED BY <2>3, <2>6
<1> QED BY <1>2, <1>5, <1>6, <1>7

\* The types that the invariant is about.
LEMMA FreshTypes ==
  ASSUME TypeOK, OpInv
  PROVE  /\ state \in Seq(Payload) /\ Len(state) \in Nat
         /\ \A j \in journal : j.batch \in Batch /\ j.expected \in Nat
         /\ \A w \in Workers :
               /\ Committing(w) => op[w].batch \in Batch
               /\ pc[w] \in Holding => /\ cs[w].batch \in Batch /\ cs[w].expected \in Nat
                                       /\ cs[w].recovering \in BOOLEAN
               /\ Appending(w) => Committing(w)
<1>1. ASSUME NEW w \in Workers, Committing(w) PROVE op[w].batch \in Batch
  <2>1. op[w] \in {NoOp, OpenOp, VerifyOp} \cup CommitOp BY DEF TypeOK
  <2>2. op[w] \in CommitOp BY <1>1, <2>1 DEF Committing, NoOp, OpenOp, VerifyOp
  <2> QED BY <2>2 DEF CommitOp
<1>2. ASSUME NEW w \in Workers, pc[w] \in Holding
      PROVE  /\ cs[w].batch \in Batch /\ cs[w].expected \in Nat /\ cs[w].recovering \in BOOLEAN
  BY <1>2 DEF OpInv, AppendOp
<1>3. ASSUME NEW w \in Workers, Appending(w) PROVE Committing(w)
  BY <1>3 DEF OpInv, Appending, Committing, CommitOp
<1>4. \A j \in journal : j.batch \in Batch /\ j.expected \in Nat BY DEF TypeOK
<1>5. state \in Seq(Payload) /\ Len(state) \in Nat BY DEF TypeOK
<1> QED BY <1>1, <1>2, <1>3, <1>4, <1>5

\* A step that issues, writes and takes up nothing: commits go on or end, and
\* a commit that gives up its append leaves no journal behind.
RestingAt(w) ==
    /\ pc'[w] \in Holding =>
          /\ pc[w] \in Holding /\ cs'[w] = cs[w]
          /\ pc'[w] # "finish" => pc[w] # "finish"
    /\ Committing(w)' =>
          /\ Committing(w) /\ op'[w].batch = op[w].batch
          /\ Appending(w) => \/ pc'[w] \in Holding /\ (pc[w] = "finish" => pc'[w] = "finish")
                             \/ pc[w] # "finish" /\ journal' = {}

Resting ==
    /\ state' = state /\ issued' = issued /\ journal' \subseteq journal
    /\ \A w \in Workers : RestingAt(w)

\* Such a step keeps the invariant.
LEMMA RestingKeeps == ASSUME FreshInv, OpInv', Resting PROVE FreshInv'
<1>1. IssuedInv'
  <2>1. \A d : Numbered(d) => Numbered(d)' BY DEF Resting, Numbered
  <2>2. Numbered(state)' /\ \A j \in journal' : Numbered(j.batch)'
    BY <2>1 DEF FreshInv, IssuedInv, Resting, Numbered
  <2>3. ASSUME NEW w \in Workers
        PROVE  /\ Committing(w)' => Numbered(op[w].batch)' /\ OwnedBy(w, op'[w].batch)
               /\ pc'[w] \in Holding => Numbered(cs[w].batch)'
    BY DEF FreshInv, IssuedInv, Resting, RestingAt, Numbered
  <2> QED BY <2>2, <2>3 DEF IssuedInv
<1>2. VersionInv'
  <2>1. \A j \in journal' : /\ j.expected <= Len(state')
                            /\ j.expected = Len(state') => Fresh(j.batch, state')
    BY DEF FreshInv, VersionInv, Resting
  <2>2. ASSUME NEW w \in Workers, pc'[w] \in Holding
        PROVE  /\ cs'[w].expected <= Len(state')
               /\ pc'[w] # "finish" /\ cs'[w].expected = Len(state') => Fresh(cs'[w].batch, state')
    BY <2>2 DEF FreshInv, VersionInv, Resting, RestingAt
  <2> QED BY <2>1, <2>2 DEF VersionInv
<1>3. PendingInv'
  <2> SUFFICES ASSUME NEW w \in Workers
               PROVE  /\ Appending(w)' => cs'[w].batch = op'[w].batch
                      /\ Committing(w)' =>
                           /\ ~(Appending(w)' /\ pc'[w] = "finish") => Fresh(op'[w].batch, state')
                           /\ ~Appending(w)' => \A j \in journal' : Fresh(op'[w].batch, j.batch)
                           /\ \A v \in Workers : Recovering(v)' => Fresh(op'[w].batch, cs'[v].batch)
    BY DEF PendingInv
  <2>1. Appending(w)' => Committing(w)' BY DEF OpInv, Appending, Committing, CommitOp
  <2>2. Appending(w)' => Appending(w) BY DEF Resting, RestingAt, Appending
  <2>3. Appending(w)' => cs'[w].batch = op'[w].batch
    BY <2>1, <2>2 DEF FreshInv, PendingInv, Resting, RestingAt, Appending
  <2>4. ASSUME Committing(w)'
        PROVE  /\ ~(Appending(w)' /\ pc'[w] = "finish") => Fresh(op'[w].batch, state')
               /\ ~Appending(w)' => \A j \in journal' : Fresh(op'[w].batch, j.batch)
    BY <2>4 DEF FreshInv, PendingInv, Resting, RestingAt, Appending
  <2>5. ASSUME Committing(w)', NEW v \in Workers, Recovering(v)'
        PROVE  Fresh(op'[w].batch, cs'[v].batch)
    BY <2>5 DEF FreshInv, PendingInv, Resting, RestingAt, Recovering
  <2> QED BY <2>3, <2>4, <2>5
<1> QED BY <1>1, <1>2, <1>3 DEF FreshInv

\* The steps that rest.
LEMMA RestingSteps ==
  ASSUME TypeOK, LockInv, BirthInv, NEW w \in Workers,
         \/ Open(w) \/ Load(w) \/ ReadState(w) \/ Create(w) \/ CreateLog(w)
         \/ CheckVersion(w) \/ Conflict(w) \/ WriteLog(w) \/ FinishAppend(w)
         \/ StartVerify(w) \/ VerifyLog(w) \/ Raise(w) \/ Crash(w)
  PROVE  Resting
<1>1. ASSUME NEW v \in Workers, pc'[v] = pc[v], op'[v] = op[v], cs'[v] = cs[v] PROVE RestingAt(v)
  BY <1>1 DEF RestingAt, Committing, Appending
<1>2. ASSUME NEW v \in Workers, pc[v] \notin Holding, pc'[v] \notin Holding,
             op'[v] = op[v] \/ op'[v] \in {NoOp, OpenOp, VerifyOp}
      PROVE  RestingAt(v)
  BY <1>2 DEF RestingAt, Committing, Appending, NoOp, OpenOp, VerifyOp
<1>3. ASSUME state' = state, issued' = issued, journal' \subseteq journal,
             \A v \in Workers : v # w => pc'[v] = pc[v] /\ op'[v] = op[v] /\ cs'[v] = cs[v],
             RestingAt(w)
      PROVE  Resting
  BY <1>1, <1>3 DEF Resting
<1>4. CASE Open(w) \/ Load(w) \/ StartVerify(w)
  <2>1. /\ pc[w] \notin Holding /\ pc'[w] \notin Holding
        /\ op'[w] = op[w] \/ op'[w] \in {NoOp, OpenOp, VerifyOp}
    BY <1>4 DEF Open, Load, StartVerify, Goto, Holding, TypeOK
  <2> QED BY <1>2, <1>3, <1>4, <2>1 DEF Open, Load, StartVerify, Goto, files, TypeOK
<1>5. CASE ReadState(w)
  <2>1. /\ pc[w] \notin Holding /\ pc'[w] \notin Holding
        /\ op'[w] = op[w] \/ op'[w] \in {NoOp, OpenOp, VerifyOp}
    BY <1>5 DEF ReadState, Goto, Holding, TypeOK
  <2> QED BY <1>2, <1>3, <1>5, <2>1 DEF ReadState, Goto, files, TypeOK
<1>6. CASE Create(w) \/ CreateLog(w)
  <2>1. /\ pc[w] \notin Holding /\ pc'[w] \notin Holding
        /\ op'[w] = op[w] \/ op'[w] \in {NoOp, OpenOp, VerifyOp}
    BY <1>6 DEF Create, CreateLog, Goto, Holding, TypeOK
  <2> QED BY <1>2, <1>3, <1>6, <2>1 DEF Create, CreateLog, Goto, TypeOK, BirthInv
<1>7. CASE VerifyLog(w) \/ Raise(w)
  <2>1. /\ pc[w] \notin Holding /\ pc'[w] \notin Holding
        /\ op'[w] = op[w] \/ op'[w] \in {NoOp, OpenOp, VerifyOp}
    BY <1>7 DEF VerifyLog, Raise, Goto, Holding, TypeOK
  <2> QED BY <1>2, <1>3, <1>7, <2>1 DEF VerifyLog, Raise, Goto, Forget, files, TypeOK
<1>8. CASE CheckVersion(w) \/ WriteLog(w)
  <2>1. RestingAt(w)
    BY <1>8 DEF CheckVersion, WriteLog, Goto, files, TypeOK, RestingAt, Committing, Appending, Holding
  <2> QED BY <1>3, <1>8, <2>1 DEF CheckVersion, WriteLog, Goto, files, TypeOK
<1>9. CASE Conflict(w)
  <2>1. pc[w] = "check" /\ pc'[w] \notin Holding BY <1>9 DEF Conflict, Goto, Holding, TypeOK
  <2>2. \/ cs[w].recovering /\ op'[w] = op[w]
        \/ op'[w] = NoOp
        \/ op[w].kind = "transaction" /\ op'[w] = [op[w] EXCEPT !.attempt = @ + 1] /\ journal' = {}
    BY <1>9 DEF Conflict, TypeOK
  <2>3. op[w].kind = "transaction" => op[w] \in CommitOp
    <3>1. op[w] \in {NoOp, OpenOp, VerifyOp} \/ op[w] \in CommitOp BY DEF TypeOK
    <3>2. \A o \in {NoOp, OpenOp, VerifyOp} : o.kind # "transaction"
      BY DEF NoOp, OpenOp, VerifyOp
    <3> QED BY <3>1, <3>2
  <2>4. RestingAt(w)
    BY <2>1, <2>2, <2>3 DEF RestingAt, Committing, Appending, NoOp, CommitOp
  <2>5. state' = state /\ issued' = issued /\ journal' \subseteq journal BY <1>9 DEF Conflict
  <2>6. \A v \in Workers : v # w => pc'[v] = pc[v] /\ op'[v] = op[v] /\ cs'[v] = cs[v]
    BY <1>9 DEF Conflict, Goto, TypeOK
  <2> QED BY <1>3, <2>4, <2>5, <2>6
<1>10. CASE FinishAppend(w)
  <2>1. pc[w] = "finish" /\ pc'[w] \notin Holding BY <1>10 DEF FinishAppend, Goto, Holding, TypeOK
  <2>2. (cs[w].recovering /\ op'[w] = op[w]) \/ op'[w] = NoOp
    BY <1>10 DEF FinishAppend, TypeOK
  <2>3. RestingAt(w) BY <2>1, <2>2 DEF RestingAt, Committing, Appending, NoOp
  <2>4. state' = state /\ issued' = issued /\ journal' \subseteq journal
    BY <1>10 DEF FinishAppend
  <2>5. \A v \in Workers : v # w => pc'[v] = pc[v] /\ op'[v] = op[v] /\ cs'[v] = cs[v]
    BY <1>10 DEF FinishAppend, Forget, Goto, TypeOK
  <2> QED BY <1>3, <2>3, <2>4, <2>5
<1>11. CASE Crash(w)
  <2>1. pc'[w] \notin Holding /\ op'[w] = NoOp BY <1>11 DEF Crash, Goto, Holding, TypeOK
  <2>2. RestingAt(w) BY <2>1 DEF RestingAt, Committing, NoOp
  <2> QED BY <1>3, <1>11, <2>2 DEF Crash, Forget, Goto, TypeOK
<1> QED BY <1>4, <1>5, <1>6, <1>7, <1>8, <1>9, <1>10, <1>11

\* A commit that starts is made of events that exist nowhere yet.
LEMMA StartCommitKeeps ==
  ASSUME TypeOK, OpInv, FreshInv, NEW w \in Workers, NEW kind \in {"append", "transaction"},
         NEW n \in 1..MaxBatch, StartCommit(w, kind, n)
  PROVE  FreshInv'
<1>1. PICK b : b = NewBatch(w, issued[w], n) OBVIOUS
<1>2. /\ b \in Batch /\ OwnedBy(w, b) /\ Numbered(b)'
      /\ \A d \in Seq(Payload) : Numbered(d) => Numbered(d)' /\ Fresh(b, d)
  BY <1>1, NewBatchFacts DEF StartCommit
<1>3. /\ state' = state /\ journal' = journal /\ cs' = cs
      /\ pc[w] \notin Holding /\ pc'[w] \notin Holding
      /\ op'[w].batch = b
      /\ \A v \in Workers : v # w => pc'[v] = pc[v] /\ op'[v] = op[v]
  BY <1>1 DEF StartCommit, Goto, files, Holding, TypeOK
<1>4. /\ state \in Seq(Payload) /\ \A j \in journal : j.batch \in Seq(Payload)
      /\ \A v \in Workers : /\ Committing(v) => op[v].batch \in Seq(Payload)
                            /\ pc[v] \in Holding => cs[v].batch \in Seq(Payload)
  BY FreshTypes, BatchIsSeq
<1>5. IssuedInv'
  <2>1. Numbered(state)' /\ \A j \in journal' : Numbered(j.batch)'
    <3>1. Numbered(state) /\ \A j \in journal : Numbered(j.batch) BY DEF FreshInv, IssuedInv
    <3> QED BY <1>2, <1>3, <1>4, <3>1 DEF Numbered
  <2>2. ASSUME NEW v \in Workers
        PROVE  /\ Committing(v)' => Numbered(op[v].batch)' /\ OwnedBy(v, op'[v].batch)
               /\ pc'[v] \in Holding => Numbered(cs[v].batch)'
    <3>1. CASE v = w BY <1>2, <1>3, <3>1 DEF Numbered
    <3>2. CASE v # w
      <4>1. /\ Committing(v) => Numbered(op[v].batch) /\ OwnedBy(v, op[v].batch)
            /\ pc[v] \in Holding => Numbered(cs[v].batch)
        BY DEF FreshInv, IssuedInv
      <4>2. Committing(v)' => Committing(v) BY <1>3, <3>2 DEF Committing
      <4> QED BY <1>2, <1>3, <1>4, <3>2, <4>1, <4>2 DEF Numbered
    <3> QED BY <3>1, <3>2
  <2> QED BY <2>1, <2>2 DEF IssuedInv
<1>6. PendingInv'
  <2> SUFFICES ASSUME NEW v \in Workers
               PROVE  /\ Appending(v)' => cs'[v].batch = op'[v].batch
                      /\ Committing(v)' =>
                           /\ ~(Appending(v)' /\ pc'[v] = "finish") => Fresh(op'[v].batch, state')
                           /\ ~Appending(v)' => \A j \in journal' : Fresh(op'[v].batch, j.batch)
                           /\ \A u \in Workers : Recovering(u)' => Fresh(op'[v].batch, cs'[u].batch)
    BY DEF PendingInv
  <2>1. CASE v = w
    <3>1. Fresh(b, state) /\ \A j \in journal : Fresh(b, j.batch)
      BY <1>2, <1>4 DEF FreshInv, IssuedInv
    <3>2. \A u \in Workers : pc[u] \in Holding => Fresh(b, cs[u].batch)
      BY <1>2, <1>4 DEF FreshInv, IssuedInv
    <3>3. \A u \in Workers : Recovering(u)' => pc[u] \in Holding /\ cs'[u] = cs[u]
      BY <1>3 DEF Recovering
    <3> QED BY <1>3, <2>1, <3>1, <3>2, <3>3 DEF Appending
  <2>2. CASE v # w
    <3>1. /\ Appending(v)' <=> Appending(v)
          /\ Committing(v)' <=> Committing(v)
          /\ \A u \in Workers : Recovering(u)' => Recovering(u)
      BY <1>3, <2>2 DEF Appending, Committing, Recovering
    <3> QED BY <1>3, <2>2, <3>1 DEF FreshInv, PendingInv
  <2> QED BY <2>1, <2>2
<1>7. VersionInv' BY <1>3 DEF FreshInv, VersionInv
<1> QED BY <1>5, <1>6, <1>7 DEF FreshInv

\* While the lock is free nobody is inside an append.
LEMMA NobodyHolds ==
  ASSUME LockInv, LockFree PROVE \A v \in Workers : pc[v] \notin Holding
BY WorkersAssumption DEF LockInv

\* An append that takes the lock brings its own commit, on a version that
\* state.json has had.
LEMMA AcquireKeeps ==
  ASSUME IInv, FreshInv, NEW w \in Workers, Acquire(w) PROVE FreshInv'
<1>0. TypeOK /\ LockInv /\ OpInv /\ SnapshotIsPast BY DEF IInv
<1>1. /\ state' = state /\ journal' = journal /\ op' = op /\ issued' = issued
      /\ cs'[w] = [expected |-> Len(snapshot[w]), batch |-> op[w].batch, recovering |-> FALSE]
      /\ pc'[w] \in Holding \ {"finish"}
      /\ \A v \in Workers : v # w => pc'[v] \notin Holding
  <2>1. \A v \in Workers : pc[v] \notin Holding BY <1>0, NobodyHolds DEF Acquire
  <2> QED BY <1>0, <2>1 DEF Acquire, Goto, Holding, TypeOK
<1>2. Committing(w) BY <1>0 DEF Acquire, OpInv, Committing, CommitOp
<1>3. ~Appending(w) /\ Fresh(op[w].batch, state)
  <2>1. ~Appending(w) BY <1>0, NobodyHolds DEF Acquire, Appending
  <2> QED BY <1>2, <2>1 DEF FreshInv, PendingInv
<1>4. Len(snapshot[w]) <= Len(state) BY <1>0 DEF SnapshotIsPast, IsPast
<1>5. \A v \in Workers : Committing(v)' <=> Committing(v) BY <1>1 DEF Committing
<1>6. IssuedInv'
  <2>1. Numbered(state)' /\ \A j \in journal' : Numbered(j.batch)'
    BY <1>1 DEF FreshInv, IssuedInv, Numbered
  <2>2. ASSUME NEW v \in Workers
        PROVE  /\ Committing(v)' => Numbered(op[v].batch)' /\ OwnedBy(v, op'[v].batch)
               /\ pc'[v] \in Holding => Numbered(cs[v].batch)'
    <3>1. Committing(v)' => Numbered(op[v].batch)' /\ OwnedBy(v, op'[v].batch)
      BY <1>1, <1>5 DEF FreshInv, IssuedInv, Numbered
    <3>2. Numbered(op[w].batch) /\ cs'[w].batch = op[w].batch
      BY <1>1, <1>2 DEF FreshInv, IssuedInv
    <3>3. Numbered(cs[w].batch)' BY <1>1, <3>2 DEF Numbered
    <3>4. pc'[v] \in Holding => v = w BY <1>1
    <3> QED BY <3>1, <3>3, <3>4
  <2> QED BY <2>1, <2>2 DEF IssuedInv
<1>7. PendingInv'
  <2> SUFFICES ASSUME NEW v \in Workers
               PROVE  /\ Appending(v)' => cs'[v].batch = op'[v].batch
                      /\ Committing(v)' =>
                           /\ ~(Appending(v)' /\ pc'[v] = "finish") => Fresh(op'[v].batch, state')
                           /\ ~Appending(v)' => \A j \in journal' : Fresh(op'[v].batch, j.batch)
                           /\ \A u \in Workers : Recovering(u)' => Fresh(op'[v].batch, cs'[u].batch)
    BY DEF PendingInv
  <2>1. \A u \in Workers : ~Recovering(u)' BY <1>1 DEF Recovering
  <2>2. Appending(v)' => v = w BY <1>1 DEF Appending
  <2>3. ~Appending(v) BY <1>0, NobodyHolds DEF Acquire, Appending
  <2>4. Committing(v) => Fresh(op[v].batch, state) /\ \A j \in journal : Fresh(op[v].batch, j.batch)
    BY <2>3 DEF FreshInv, PendingInv
  <2> QED BY <1>1, <1>5, <2>1, <2>2, <2>4
<1>8. VersionInv'
  <2>1. \A v \in Workers : pc'[v] \in Holding =>
              cs'[v].expected <= Len(state') /\ Fresh(cs'[v].batch, state')
    BY <1>1, <1>3, <1>4
  <2>2. \A j \in journal' : /\ j.expected <= Len(state')
                            /\ j.expected = Len(state') => Fresh(j.batch, state')
    BY <1>1 DEF FreshInv, VersionInv
  <2> QED BY <2>1, <2>2 DEF VersionInv
<1> QED BY <1>6, <1>7, <1>8 DEF FreshInv

\* A recovery takes up what the journal says.
LEMMA RecoverKeeps ==
  ASSUME IInv, FreshInv, NEW w \in Workers, RecoverTransaction(w) PROVE FreshInv'
<1>0. TypeOK /\ LockInv /\ OpInv /\ OpInv'
  <2>1. TypeOK /\ LockInv /\ OpInv BY DEF IInv
  <2>2. [Next]_vars BY DEF Next, Step
  <2> QED BY <2>1, <2>2, OpStep
<1>1. CASE journal = {}
  <2>1. \A v \in Workers : pc'[v] \notin Holding
    <3>1. \A v \in Workers : pc[v] \notin Holding BY <1>0, NobodyHolds DEF RecoverTransaction
    <3> QED BY <1>0, <1>1, <3>1 DEF RecoverTransaction, Goto, Holding, TypeOK
  <2>2. state' = state /\ issued' = issued /\ journal' = journal /\ op' = op
    BY DEF RecoverTransaction
  <2>3. \A v \in Workers : RestingAt(v)
    <3>1. \A v \in Workers : pc[v] \notin Holding BY <1>0, NobodyHolds DEF RecoverTransaction
    <3> QED BY <2>1, <2>2, <3>1 DEF RestingAt, Committing, Appending
  <2> QED BY <1>0, <2>2, <2>3, RestingKeeps DEF Resting
<1>2. ASSUME NEW j \in journal,
             cs' = [cs EXCEPT ![w] = [expected |-> j.expected, batch |-> j.batch,
                                      recovering |-> TRUE]],
             Goto(w, "check")
      PROVE  FreshInv'
  <2>1. /\ state' = state /\ journal' = journal /\ op' = op /\ issued' = issued
        /\ cs'[w] = [expected |-> j.expected, batch |-> j.batch, recovering |-> TRUE]
        /\ pc'[w] \in Holding
        /\ \A v \in Workers : v # w => pc'[v] \notin Holding
    <3>1. \A v \in Workers : pc[v] \notin Holding BY <1>0, NobodyHolds DEF RecoverTransaction
    <3> QED BY <1>0, <1>2, <3>1 DEF RecoverTransaction, Goto, Holding, TypeOK
  <2>2. \A v \in Workers : Committing(v)' <=> Committing(v) BY <2>1 DEF Committing
  <2>3. IssuedInv'
    <3>1. Numbered(state)' /\ \A k \in journal' : Numbered(k.batch)'
      BY <2>1 DEF FreshInv, IssuedInv, Numbered
    <3>2. \A v \in Workers : Committing(v)' => Numbered(op[v].batch)' /\ OwnedBy(v, op'[v].batch)
      BY <2>1, <2>2 DEF FreshInv, IssuedInv, Numbered
    <3>3. Numbered(cs[w].batch)'
      <4>1. Numbered(j.batch) /\ cs'[w].batch = j.batch BY <2>1 DEF FreshInv, IssuedInv
      <4> QED BY <2>1, <4>1 DEF Numbered
    <3>4. \A v \in Workers : pc'[v] \in Holding => v = w BY <2>1
    <3>5. \A v \in Workers : pc'[v] \in Holding => Numbered(cs[v].batch)' BY <3>3, <3>4
    <3> QED BY <3>1, <3>2, <3>5 DEF IssuedInv
  <2>4. PendingInv'
    <3> SUFFICES ASSUME NEW v \in Workers
                 PROVE  /\ Appending(v)' => cs'[v].batch = op'[v].batch
                        /\ Committing(v)' =>
                             /\ ~(Appending(v)' /\ pc'[v] = "finish") => Fresh(op'[v].batch, state')
                             /\ ~Appending(v)' => \A k \in journal' : Fresh(op'[v].batch, k.batch)
                             /\ \A u \in Workers : Recovering(u)' => Fresh(op'[v].batch, cs'[u].batch)
      BY DEF PendingInv
    <3>1. \A u \in Workers : Recovering(u)' => u = w BY <2>1 DEF Recovering
    <3>2. ~Appending(v)' BY <2>1 DEF Appending
    <3>3. ~Appending(v) BY <1>0, NobodyHolds DEF RecoverTransaction, Appending
    <3>4. Committing(v) => Fresh(op[v].batch, state) /\ \A k \in journal : Fresh(op[v].batch, k.batch)
      BY <3>3 DEF FreshInv, PendingInv
    <3> QED BY <2>1, <2>2, <3>1, <3>2, <3>4
  <2>5. VersionInv'
    <3>1. \A v \in Workers : pc'[v] \in Holding => v = w BY <2>1
    <3>2. \A k \in journal : /\ k.expected <= Len(state)
                             /\ k.expected = Len(state) => Fresh(k.batch, state)
      BY DEF FreshInv, VersionInv
    <3>3. \A v \in Workers : pc'[v] \in Holding =>
              /\ cs'[v].expected <= Len(state')
              /\ cs'[v].expected = Len(state') => Fresh(cs'[v].batch, state')
      BY <2>1, <3>1, <3>2
    <3> QED BY <2>1, <3>2, <3>3 DEF VersionInv
  <2> QED BY <2>3, <2>4, <2>5 DEF FreshInv
<1> QED BY <1>1, <1>2 DEF RecoverTransaction

\* The append under way is not the commit of another process, nor, when a
\* journal is recovered, of the process that recovers it.
LEMMA OthersAreFresh ==
  ASSUME TypeOK, LockInv, OpInv, FreshInv, NEW w \in Workers, pc[w] \in Holding
  PROVE  /\ \A v \in Workers : v # w => pc[v] \notin Holding
         /\ \A v \in Workers : Committing(v) /\ ~Appending(v) => Fresh(op[v].batch, cs[w].batch)
<1>1. \A v \in Workers : v # w => pc[v] \notin Holding BY DEF LockInv
<1>2. ASSUME NEW v \in Workers, Committing(v), ~Appending(v)
      PROVE  Fresh(op[v].batch, cs[w].batch)
  <2>1. CASE Recovering(w) BY <1>2, <2>1 DEF FreshInv, PendingInv
  <2>2. CASE Appending(w)
    <3>1. v # w BY <1>2, <2>2
    <3>2. /\ Committing(w) /\ op[v].batch \in Batch /\ op[w].batch \in Batch
          /\ state \in Seq(Payload)
      BY <1>2, <2>2, FreshTypes
    <3>3. OwnedBy(v, op[v].batch) /\ OwnedBy(w, op[w].batch)
      BY <1>2, <3>2 DEF FreshInv, IssuedInv
    <3>4. Fresh(op[v].batch, op[w].batch) BY <3>1, <3>2, <3>3, FreshFacts
    <3>5. cs[w].batch = op[w].batch BY <2>2 DEF FreshInv, PendingInv
    <3> QED BY <3>4, <3>5
  <2> QED BY <2>1, <2>2 DEF Appending, Recovering
<1> QED BY <1>1, <1>2

\* A journal is the append of the process that writes it.
LEMMA WriteJournalKeeps ==
  ASSUME IInv, FreshInv, NEW w \in Workers, WriteJournal(w) PROVE FreshInv'
<1>0. TypeOK /\ LockInv /\ OpInv /\ pc[w] \in Holding BY DEF IInv, WriteJournal, Holding
<1>1. /\ state' = state /\ op' = op /\ issued' = issued /\ cs' = cs
      /\ journal' = {[expected |-> cs[w].expected, batch |-> cs[w].batch]}
      /\ pc[w] = "journal" /\ pc'[w] = "check"
      /\ \A v \in Workers : v # w => pc'[v] = pc[v]
  BY <1>0 DEF WriteJournal, Goto, TypeOK
<1>2. ASSUME NEW v \in Workers
      PROVE  /\ Committing(v)' <=> Committing(v)
             /\ Appending(v)' <=> Appending(v)
             /\ Recovering(v)' <=> Recovering(v)
             /\ pc'[v] \in Holding <=> pc[v] \in Holding
             /\ pc'[v] = "finish" <=> pc[v] = "finish"
  BY <1>1 DEF Committing, Appending, Recovering, Holding
<1>3. IssuedInv'
  <2>1. Numbered(cs[w].batch) BY <1>0 DEF FreshInv, IssuedInv
  <2>2. Numbered(state)' /\ \A j \in journal' : Numbered(j.batch)'
    BY <1>1, <2>1 DEF FreshInv, IssuedInv, Numbered
  <2>3. \A v \in Workers : /\ Committing(v)' => Numbered(op[v].batch)' /\ OwnedBy(v, op'[v].batch)
                           /\ pc'[v] \in Holding => Numbered(cs[v].batch)'
    BY <1>1, <1>2 DEF FreshInv, IssuedInv, Numbered
  <2> QED BY <2>2, <2>3 DEF IssuedInv
<1>4. PendingInv'
  <2> SUFFICES ASSUME NEW v \in Workers
               PROVE  /\ Appending(v)' => cs'[v].batch = op'[v].batch
                      /\ Committing(v)' =>
                           /\ ~(Appending(v)' /\ pc'[v] = "finish") => Fresh(op'[v].batch, state')
                           /\ ~Appending(v)' => \A j \in journal' : Fresh(op'[v].batch, j.batch)
                           /\ \A u \in Workers : Recovering(u)' => Fresh(op'[v].batch, cs'[u].batch)
    BY DEF PendingInv
  <2>1. Committing(v) /\ ~Appending(v) => Fresh(op[v].batch, cs[w].batch)
    BY <1>0, OthersAreFresh
  <2>2. \A j \in journal' : j.batch = cs[w].batch BY <1>1
  <2> QED BY <1>1, <1>2, <2>1, <2>2 DEF FreshInv, PendingInv
<1>5. VersionInv'
  <2>1. /\ cs[w].expected <= Len(state)
        /\ cs[w].expected = Len(state) => Fresh(cs[w].batch, state)
    BY <1>0, <1>1 DEF FreshInv, VersionInv
  <2>2. \A j \in journal' : /\ j.expected <= Len(state')
                            /\ j.expected = Len(state') => Fresh(j.batch, state')
    BY <1>1, <2>1
  <2>3. \A v \in Workers :
          /\ pc'[v] \in Holding => cs'[v].expected <= Len(state')
          /\ pc'[v] \in Holding \ {"finish"}
                => (cs'[v].expected = Len(state') => Fresh(cs'[v].batch, state'))
    BY <1>1, <1>2 DEF FreshInv, VersionInv
  <2> QED BY <2>2, <2>3 DEF VersionInv
<1> QED BY <1>3, <1>4, <1>5 DEF FreshInv

\* Writing state.json adds the append under way, and no other.
LEMMA WriteStateKeeps ==
  ASSUME IInv, FreshInv, NEW w \in Workers, WriteState(w) PROVE FreshInv'
<1>0. TypeOK /\ LockInv /\ OpInv /\ DocInv /\ pc[w] \in Holding
  BY DEF IInv, WriteState, Holding
<1>1. /\ state' = state \o cs[w].batch
      /\ journal' = journal /\ op' = op /\ issued' = issued /\ cs' = cs
      /\ pc[w] = "writeState" /\ pc'[w] = "finish"
      /\ \A v \in Workers : v # w => pc'[v] = pc[v]
  BY <1>0 DEF WriteState, DocInv, Goto, TypeOK
<1>2. ASSUME NEW v \in Workers
      PROVE  /\ Committing(v)' <=> Committing(v)
             /\ Appending(v)' <=> Appending(v)
             /\ Recovering(v)' <=> Recovering(v)
             /\ pc'[v] \in Holding => v = w
  BY <1>0, <1>1, OthersAreFresh DEF Committing, Appending, Recovering, Holding
<1>3. /\ state \in Seq(Payload) /\ Len(state) \in Nat /\ cs[w].batch \in Batch
      /\ \A v \in Workers : Committing(v) => op[v].batch \in Batch
      /\ \A j \in journal : j.expected \in Nat
      /\ cs[w].expected \in Nat
  BY <1>0, FreshTypes
<1>4. Len(state') \in Nat /\ Len(state') > Len(state)
  <2>1. Len(state \o cs[w].batch) > Len(state) BY <1>3, FreshFacts
  <2>2. cs[w].batch \in Seq(Payload) BY <1>3, BatchIsSeq
  <2>3. Len(state \o cs[w].batch) \in Nat BY <1>3, <2>2
  <2> QED BY <1>1, <2>1, <2>3
<1>5. IssuedInv'
  <2>1. Numbered(cs[w].batch) /\ Numbered(state) BY <1>0 DEF FreshInv, IssuedInv
  <2>2. Numbered(state \o cs[w].batch) BY <1>3, <2>1, FreshFacts
  <2>3. Numbered(state)' BY <1>1, <2>2 DEF Numbered
  <2>4. \A j \in journal' : Numbered(j.batch)' BY <1>1 DEF FreshInv, IssuedInv, Numbered
  <2>5. \A v \in Workers : /\ Committing(v)' => Numbered(op[v].batch)' /\ OwnedBy(v, op'[v].batch)
                           /\ pc'[v] \in Holding => Numbered(cs[v].batch)'
    BY <1>0, <1>1, <1>2 DEF FreshInv, IssuedInv, Numbered
  <2> QED BY <2>3, <2>4, <2>5 DEF IssuedInv
<1>6. PendingInv'
  <2> SUFFICES ASSUME NEW v \in Workers
               PROVE  /\ Appending(v)' => cs'[v].batch = op'[v].batch
                      /\ Committing(v)' =>
                           /\ ~(Appending(v)' /\ pc'[v] = "finish") => Fresh(op'[v].batch, state')
                           /\ ~Appending(v)' => \A j \in journal' : Fresh(op'[v].batch, j.batch)
                           /\ \A u \in Workers : Recovering(u)' => Fresh(op'[v].batch, cs'[u].batch)
    BY DEF PendingInv
  <2>1. Appending(v) => v = w BY <1>0, OthersAreFresh DEF Appending
  <2>2. ASSUME Committing(v)', ~(Appending(v)' /\ pc'[v] = "finish")
        PROVE  Fresh(op'[v].batch, state')
    <3>1. Committing(v) /\ ~Appending(v) BY <1>1, <1>2, <2>1, <2>2
    <3>2. Fresh(op[v].batch, cs[w].batch) BY <1>0, <3>1, OthersAreFresh
    <3>3. Fresh(op[v].batch, state) BY <3>1 DEF FreshInv, PendingInv
    <3>4. Fresh(op[v].batch, state \o cs[w].batch) BY <1>3, <3>1, <3>2, <3>3, FreshFacts
    <3> QED BY <1>1, <3>4
  <2>3. Appending(v)' => cs'[v].batch = op'[v].batch
    BY <1>1, <1>2 DEF FreshInv, PendingInv
  <2>4. Committing(v)' =>
           /\ ~Appending(v)' => \A j \in journal' : Fresh(op'[v].batch, j.batch)
           /\ \A u \in Workers : Recovering(u)' => Fresh(op'[v].batch, cs'[u].batch)
    BY <1>1, <1>2 DEF FreshInv, PendingInv
  <2> QED BY <2>2, <2>3, <2>4
<1>7. VersionInv'
  <2>1. \A j \in journal' : j.expected \in Nat /\ j.expected <= Len(state)
    BY <1>1, <1>3 DEF FreshInv, VersionInv
  <2>2. \A j \in journal' : j.expected <= Len(state') /\ j.expected # Len(state')
    BY <1>3, <1>4, <2>1
  <2>3. cs[w].expected <= Len(state) BY <1>0 DEF FreshInv, VersionInv
  <2>4. \A v \in Workers : pc'[v] \in Holding => cs'[v].expected <= Len(state') /\ pc'[v] = "finish"
    BY <1>1, <1>2, <1>3, <1>4, <2>3
  <2> QED BY <2>2, <2>4 DEF VersionInv
<1> QED BY <1>5, <1>6, <1>7 DEF FreshInv

\* Every step keeps commits that have not reached state.json out of it.
LEMMA FreshStep == IInv /\ FreshInv /\ [Next]_vars => FreshInv'
<1> SUFFICES ASSUME IInv, FreshInv, [Next]_vars PROVE FreshInv'
  OBVIOUS
<1>1. TypeOK /\ LockInv /\ OpInv /\ BirthInv /\ OpInv' BY OpStep DEF IInv
<1>2. CASE UNCHANGED vars
  <2>1. /\ state' = state /\ issued' = issued /\ journal' = journal /\ pc' = pc /\ op' = op
        /\ cs' = cs
    BY <1>2 DEF vars, files, locals
  <2>2. Resting BY <2>1 DEF Resting, RestingAt, Committing, Appending
  <2> QED BY <1>1, <2>2, RestingKeeps
<1>3. ASSUME NEW w \in Workers,
             \/ Open(w) \/ Step(w) \/ StartVerify(w) \/ Crash(w)
             \/ \E kind \in {"append", "transaction"}, n \in 1..MaxBatch : StartCommit(w, kind, n)
      PROVE  FreshInv'
  <2>1. CASE \/ Open(w) \/ Load(w) \/ ReadState(w) \/ Create(w) \/ CreateLog(w)
             \/ CheckVersion(w) \/ Conflict(w) \/ WriteLog(w) \/ FinishAppend(w)
             \/ StartVerify(w) \/ VerifyLog(w) \/ Raise(w) \/ Crash(w)
    <3>1. Resting BY <1>1, <2>1, RestingSteps
    <3> QED BY <1>1, <3>1, RestingKeeps
  <2>2. CASE RecoverTransaction(w) BY <2>2, RecoverKeeps
  <2>3. CASE Acquire(w) BY <2>3, AcquireKeeps
  <2>4. CASE WriteJournal(w) BY <2>4, WriteJournalKeeps
  <2>5. CASE WriteState(w) BY <2>5, WriteStateKeeps
  <2>6. CASE \E kind \in {"append", "transaction"}, n \in 1..MaxBatch : StartCommit(w, kind, n)
    BY <1>1, <2>6, StartCommitKeeps
  <2> QED BY <1>3, <2>1, <2>2, <2>3, <2>4, <2>5, <2>6, Zenon DEF Step
<1> QED BY <1>2, <1>3, Zenon DEF Next

\* The execution store implements EventStream: state.json changes only by whole
\* batches, and a commit that was interrupted, retried or finished by another
\* process's recovery (_recover_transaction) is never added a second time.
THEOREM StoreIsStream == OneFounder /\ Spec => StreamRefinement
<1>1. Init => FreshInv
  <2> SUFFICES ASSUME Init PROVE FreshInv OBVIOUS
  <2>1. /\ state = <<>> /\ journal = {}
        /\ \A w \in Workers : pc[w] = "down" /\ op[w] = NoOp
    BY DEF Init
  <2>2. \A w \in Workers : pc[w] \notin Holding /\ ~Committing(w)
    <3>1. NoOp.kind = "none" BY DEF NoOp
    <3> QED BY <2>1, <3>1 DEF Holding, Committing
  <2>3. Numbered(<<>>) BY DEF Numbered
  <2> QED BY <2>1, <2>2, <2>3 DEF FreshInv, IssuedInv, PendingInv, VersionInv, Appending, Recovering
<1>2. Init => Stream!StreamInit BY DEF Init, Stream!StreamInit
<1>3. IInv /\ FreshInv /\ [Next]_vars => [Stream!StreamNext]_state
  <2> SUFFICES ASSUME IInv, FreshInv, [Next]_vars, state' # state PROVE Stream!StreamNext
    OBVIOUS
  <2>1. PICK w \in Workers : WriteState(w) /\ state' = state \o cs[w].batch
    BY StateStep DEF IInv
  <2>2. pc[w] \in Holding \ {"finish"} /\ cs[w].expected = Len(state)
    BY <2>1 DEF IInv, DocInv, WriteState, Holding
  <2>3. Fresh(cs[w].batch, state) BY <2>2 DEF FreshInv, VersionInv
  <2>4. cs[w].batch \in Batch BY <2>2, FreshTypes DEF IInv
  <2>5. Stream!Commit(cs[w].batch)
    BY <2>1, <2>3 DEF Stream!Commit, Stream!InStream, Fresh
  <2> QED BY <2>4, <2>5 DEF Stream!StreamNext
<1> QED
  BY <1>1, <1>2, <1>3, Inductive, FreshStep, PTL DEF Spec, StreamRefinement, Stream!StreamSpec
=============================================================================
