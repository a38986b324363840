------------------------ MODULE ExecutionRuntimeProofs ------------------------
(* Proofs about the action ledger.  The types hold however many runtimes     *)
(* are open; the other theorems are about one runtime at a time, the         *)
(* hypothesis ~Concurrent.  They rest on RuntimeInv, whose heart is that     *)
(* the event list of a kernel accounts for its obligations: an open runtime  *)
(* knows exactly the obligations of the document, except those that an       *)
(* event it has not saved yet is about, and the unsaved events are the end   *)
(* of the list, so that saving them, or the whole list again after a         *)
(* conflict, brings both into agreement.                                     *)
EXTENDS ExecutionRuntime, SequenceTheorems, FiniteSetTheorems, TLAPS

\* The lifecycle events of p that are not in the document yet.
Transacting(p) == pc[p] \in {"invoke", "commit"}
Unsaved(p) == IF Transacting(p) THEN queue[p].events ELSE Pending(kernel[p])

\* es is the end of the event list of k.
EndOf(es, k) == \E past \in Seq(LifecycleEvent) : k.events = past \o es

\* The events of kernel k account for the obligations they mention, es ends
\* them, and a faithful kernel has the obligations of the document in open as
\* far as es is not about them.
Accounted(k, es, open, faithful) ==
    /\ es \in Seq(LifecycleEvent)
    /\ EndOf(es, k)
    /\ k.open \cap Mentioned(k.events) = Left(k.events, "opened")
    /\ faithful => k.open \ Mentioned(es) = open \ Mentioned(es)

\* One runtime is open at a time.
Alone == \A p, q \in Runtimes : pc[p] # "down" /\ pc[q] # "down" => p = q

\* A transaction has taken all events of the kernel.
TakenInv(p) == Transacting(p) => kernel[p].projected = Len(kernel[p].events)

\* The snapshot has the obligations and keys of the document.
SnapInv(p) == snap[p].open = doc.open /\ snap[p].keys = doc.keys

\* What the current action requires is open, and saved before the action runs.
ActInv(p) ==
    /\ pc[p] \in {"proposed", "invoke", "commit"}
          => act[p].ids \subseteq kernel[p].open \cap Mentioned(Unsaved(p))
    /\ pc[p] \in {"started", "execute"} => act[p].ids \subseteq kernel[p].open \cap doc.open

\* What invoke has checked on its snapshot still holds when the adapter runs.
InvokeInv(p) ==
    pc[p] = "invoke" =>
        /\ act[p].action \in Publishing => doc.open = {}
        /\ act[p].action \in Writes => act[p].action \notin doc.keys

OpenAt(p) ==
    /\ Accounted(kernel[p], Unsaved(p), doc.open, p \notin dropped)
    /\ TakenInv(p) /\ SnapInv(p) /\ ActInv(p) /\ InvokeInv(p)
    /\ owed \subseteq kernel[p].open

OpenInv == \A p \in Runtimes : pc[p] # "down" => OpenAt(p)

RuntimeInv ==
    /\ TypeOK /\ Alone /\ OpenInv
    /\ owed \subseteq doc.open
    /\ acked \subseteq doc.keys

-----------------------------------------------------------------------------
(* What a batch of lifecycle events is about. *)

\* An action event names no obligation.
LEMMA NoIdIsNone == NoId \notin Ids
BY DEF NoId, Ids

\* The events there are.
LEMMA EventTypes ==
  /\ ActionEvent \in LifecycleEvent /\ ActionEvent.id = NoId
  /\ \A i \in Ids : /\ Opened(i) \in LifecycleEvent /\ Opened(i).id = i
                    /\ Satisfied(i) \in LifecycleEvent /\ Satisfied(i).id = i
                    /\ Opened(i) # Satisfied(i)
  /\ \A e \in LifecycleEvent : e.id \in Ids \cup {NoId}
BY DEF ActionEvent, Opened, Satisfied, LifecycleEvent

\* Obligations mentioned are obligations.
LEMMA MentionedType ==
  ASSUME NEW es \in Seq(LifecycleEvent), NEW kind
  PROVE  Mentioned(es) \subseteq Ids /\ Left(es, kind) \subseteq Mentioned(es)
<1>1. \A k \in DOMAIN es : es[k] \in LifecycleEvent OBVIOUS
<1> QED BY <1>1, EventTypes DEF Mentioned, Left

\* No events, no obligations.
LEMMA EmptyLedger == Mentioned(<<>>) = {} /\ Left(<<>>, "opened") = {}
BY DEF Mentioned, Left

\* Of two batches the later one decides about what it mentions.
LEMMA ConcatLedger ==
  ASSUME NEW es \in Seq(LifecycleEvent), NEW fs \in Seq(LifecycleEvent), NEW kind
  PROVE  /\ es \o fs \in Seq(LifecycleEvent)
         /\ Mentioned(es \o fs) = Mentioned(es) \cup Mentioned(fs)
         /\ Left(es \o fs, kind) = (Left(es, kind) \ Mentioned(fs)) \cup Left(fs, kind)
<1>1. PICK gs : gs = es \o fs OBVIOUS
<1>2. PICK m, n \in Nat : m = Len(es) /\ n = Len(fs) OBVIOUS
<1>3. /\ gs \in Seq(LifecycleEvent) /\ Len(gs) = m + n
      /\ DOMAIN es = 1..m /\ DOMAIN fs = 1..n /\ DOMAIN gs = 1..(m + n)
      /\ \A k \in 1..m : gs[k] = es[k]
      /\ \A k \in 1..n : gs[m + k] = fs[k]
      /\ \A k \in 1..(m + n) : k \in 1..m \/ \E l \in 1..n : k = m + l
  <2>1. gs \in Seq(LifecycleEvent) /\ Len(gs) = m + n BY <1>1, <1>2
  <2>2. \A k \in 1..(m + n) : k \notin 1..m => k - m \in 1..n /\ k = m + (k - m) OBVIOUS
  <2> QED BY <1>1, <1>2, <2>1, <2>2
<1>4. ASSUME NEW i PROVE i \in Mentioned(gs) <=> i \in Mentioned(es) \cup Mentioned(fs)
  <2>1. ASSUME NEW k \in 1..m, es[k].id = i PROVE \E l \in 1..(m + n) : gs[l].id = i
    BY <1>3, <2>1
  <2>2. ASSUME NEW k \in 1..n, fs[k].id = i PROVE \E l \in 1..(m + n) : gs[l].id = i
    <3>1. m + k \in 1..(m + n) OBVIOUS
    <3> QED BY <1>3, <2>2, <3>1
  <2>3. ASSUME NEW k \in 1..(m + n), gs[k].id = i
        PROVE  (\E l \in 1..m : es[l].id = i) \/ (\E l \in 1..n : fs[l].id = i)
    BY <1>3, <2>3
  <2> QED BY <1>3, <2>1, <2>2, <2>3 DEF Mentioned
<1>5. ASSUME NEW i, i \notin Mentioned(fs), i # NoId
      PROVE  i \in Left(gs, kind) <=> i \in Left(es, kind)
  <2>1. \A k \in 1..n : fs[k].id # i BY <1>3, <1>5 DEF Mentioned
  <2>2. \A k \in 1..(m + n) : gs[k].id = i => k \in 1..m BY <1>3, <2>1
  <2>3. ASSUME i \in Left(gs, kind) PROVE i \in Left(es, kind)
    <3>1. PICK k \in 1..(m + n) : /\ gs[k] = [kind |-> kind, id |-> i]
                                  /\ \A l \in 1..(m + n) : l > k => gs[l].id # i
      BY <1>3, <2>3 DEF Left
    <3>2. k \in 1..m BY <2>2, <3>1
    <3>3. es[k] = [kind |-> kind, id |-> i] /\ \A l \in 1..m : l > k => es[l].id # i
      BY <1>3, <3>1, <3>2
    <3>4. i \in Mentioned(es) BY <1>3, <1>5, <3>2, <3>3 DEF Mentioned
    <3> QED BY <1>3, <3>2, <3>3, <3>4 DEF Left
  <2>4. ASSUME i \in Left(es, kind) PROVE i \in Left(gs, kind)
    <3>1. PICK k \in 1..m : /\ es[k] = [kind |-> kind, id |-> i]
                            /\ \A l \in 1..m : l > k => es[l].id # i
      BY <1>3, <2>4 DEF Left
    <3>2. gs[k] = [kind |-> kind, id |-> i] /\ k \in 1..(m + n) BY <1>3, <3>1
    <3>3. \A l \in 1..(m + n) : l > k => gs[l].id # i BY <1>3, <2>2, <3>1
    <3>4. i \in Mentioned(gs) BY <1>4, <2>4 DEF Left
    <3> QED BY <1>3, <3>2, <3>3, <3>4 DEF Left
  <2> QED BY <2>3, <2>4
<1>6. ASSUME NEW i, i \in Mentioned(fs)
      PROVE  i \in Left(gs, kind) <=> i \in Left(fs, kind)
  <2>1. PICK x \in 1..n : fs[x].id = i BY <1>3, <1>6 DEF Mentioned
  <2>2. ASSUME i \in Left(gs, kind) PROVE i \in Left(fs, kind)
    <3>1. PICK k \in 1..(m + n) : /\ gs[k] = [kind |-> kind, id |-> i]
                                  /\ \A l \in 1..(m + n) : l > k => gs[l].id # i
      BY <1>3, <2>2 DEF Left
    <3>2. m + x \in 1..(m + n) /\ gs[m + x].id = i BY <1>3, <2>1
    <3>3. ~(m + x > k) BY <3>1, <3>2
    <3>4. k \notin 1..m BY <3>3
    <3>5. PICK l \in 1..n : k = m + l BY <1>3, <3>4
    <3>6. fs[l] = [kind |-> kind, id |-> i] BY <1>3, <3>1, <3>5
    <3>7. \A y \in 1..n : y > l => fs[y].id # i
      <4> SUFFICES ASSUME NEW y \in 1..n, y > l PROVE fs[y].id # i OBVIOUS
      <4>1. m + y \in 1..(m + n) /\ m + y > k BY <3>5
      <4> QED BY <1>3, <3>1, <4>1
    <3> QED BY <1>3, <1>6, <3>5, <3>6, <3>7 DEF Left
  <2>3. ASSUME i \in Left(fs, kind) PROVE i \in Left(gs, kind)
    <3>1. PICK k \in 1..n : /\ fs[k] = [kind |-> kind, id |-> i]
                            /\ \A l \in 1..n : l > k => fs[l].id # i
      BY <1>3, <2>3 DEF Left
    <3>2. m + k \in 1..(m + n) /\ gs[m + k] = [kind |-> kind, id |-> i] BY <1>3, <3>1
    <3>3. \A y \in 1..(m + n) : y > m + k => gs[y].id # i
      <4> SUFFICES ASSUME NEW y \in 1..(m + n), y > m + k PROVE gs[y].id # i OBVIOUS
      <4>1. PICK l \in 1..n : y = m + l BY <1>3
      <4>2. l > k BY <4>1
      <4>3. gs[y] = fs[l] BY <1>3, <4>1
      <4> QED BY <3>1, <4>2, <4>3
    <3>4. i \in Mentioned(gs) BY <1>4, <1>6
    <3> QED BY <1>3, <3>2, <3>3, <3>4 DEF Left
  <2> QED BY <2>2, <2>3
<1>7. /\ Left(gs, kind) \subseteq Mentioned(gs) /\ Left(es, kind) \subseteq Mentioned(es)
      /\ Left(fs, kind) \subseteq Mentioned(fs)
      /\ NoId \notin Mentioned(gs) /\ NoId \notin Mentioned(es) /\ NoId \notin Mentioned(fs)
  BY DEF Left, Mentioned
<1>8. Left(gs, kind) = (Left(es, kind) \ Mentioned(fs)) \cup Left(fs, kind)
  BY <1>5, <1>6, <1>7
<1>9. Mentioned(gs) = Mentioned(es) \cup Mentioned(fs) BY <1>4
<1> QED BY <1>1, <1>3, <1>8, <1>9

\* A batch whose events are one action event, and the one that complete adds.
LEMMA ActionLedger ==
  /\ <<ActionEvent>> \in Seq(LifecycleEvent)
  /\ Mentioned(<<ActionEvent>>) = {} /\ Left(<<ActionEvent>>, "opened") = {}
<1>1. Mentioned(<<ActionEvent>>) = {} BY EventTypes DEF Mentioned
<1>2. Left(<<ActionEvent>>, "opened") = {} BY <1>1 DEF Left
<1> QED BY <1>1, <1>2, EventTypes

\* What execute appends when it carries out an obligation: it mentions that
\* obligation and leaves none open.
LEMMA SatisfiedLedger ==
  ASSUME NEW i \in Ids
  PROVE  LET es == <<Satisfied(i), ActionEvent>> IN
         /\ es \in Seq(LifecycleEvent)
         /\ Mentioned(es) = {i} /\ Left(es, "opened") = {}
<1>1. PICK es : es = <<Satisfied(i), ActionEvent>> OBVIOUS
<1>2. DOMAIN es = {1, 2} /\ es[1] = Satisfied(i) /\ es[2] = ActionEvent BY <1>1
<1>3. es \in Seq(LifecycleEvent) BY <1>1, EventTypes
<1>4. es[1].id = i /\ es[2].id = NoId /\ i # NoId BY <1>2, EventTypes, NoIdIsNone
<1>5. Mentioned(es) = {i} BY <1>2, <1>4 DEF Mentioned
<1>6. ASSUME NEW x \in Left(es, "opened") PROVE FALSE
  <2>1. x = i BY <1>5 DEF Left
  <2>2. PICK k \in DOMAIN es : es[k] = [kind |-> "opened", id |-> x] BY <1>6 DEF Left
  <2>3. es[k].kind = "opened" BY <2>2
  <2>4. es[1].kind = "satisfied" /\ es[2].kind = "action"
    BY <1>2 DEF Satisfied, ActionEvent
  <2> QED BY <1>2, <2>2, <2>3, <2>4
<1> QED BY <1>1, <1>3, <1>5, <1>6

\* SetToSeq lists a finite set.
LEMMA SetToSeqLists ==
  ASSUME NEW S, IsFiniteSet(S)
  PROVE  /\ SetToSeq(S) \in Seq(S)
         /\ {SetToSeq(S)[k] : k \in DOMAIN SetToSeq(S)} = S
         /\ \A k, m \in DOMAIN SetToSeq(S) : SetToSeq(S)[k] = SetToSeq(S)[m] => k = m
<1>1. PICK n \in Nat : n = Cardinality(S) BY FS_CardinalityType
<1>2. ExistsBijection(1..n, S) BY <1>1, FS_CardinalityType
<1>3. \E f \in [1..n -> S] : IsInjective(f)
  BY <1>2 DEF ExistsBijection, Bijection, Injection, IsInjective
<1>4. PICK f : f = SetToSeq(S) OBVIOUS
<1>5. f \in [1..n -> S] /\ IsInjective(f) BY <1>1, <1>3, <1>4 DEF SetToSeq
<1>6. f \in Injection(1..n, S) BY <1>5 DEF Injection, IsInjective
<1>7. Cardinality(1..n) = n BY FS_Interval
<1>8. f \in Surjection(1..n, S) BY <1>1, <1>6, <1>7, FS_Injection
<1>9. {f[k] : k \in 1..n} = S BY <1>5, <1>8 DEF Surjection
<1> QED BY <1>4, <1>5, <1>9 DEF IsInjective

\* The openings that propose records, in whatever order.
LEMMA OpenedLedger ==
  ASSUME NEW N \in SUBSET Ids, IsFiniteSet(N)
  PROVE  LET es == SetToSeq({Opened(i) : i \in N}) IN
         /\ es \in Seq(LifecycleEvent)
         /\ Mentioned(es) = N /\ Left(es, "opened") = N
<1>1. PICK S : S = {Opened(i) : i \in N} OBVIOUS
<1>2. IsFiniteSet(S)
  <2>1. PICK f : f = [i \in N |-> Opened(i)] OBVIOUS
  <2>2. f \in Surjection(N, S) BY <1>1, <2>1 DEF Surjection
  <2> QED BY <2>2, FS_Surjection
<1>3. PICK es : es = SetToSeq(S) OBVIOUS
<1>4. /\ es \in Seq(S) /\ {es[k] : k \in DOMAIN es} = S
      /\ \A k, m \in DOMAIN es : es[k] = es[m] => k = m
  BY <1>2, <1>3, SetToSeqLists
<1>5. S \subseteq LifecycleEvent BY <1>1, EventTypes
<1>6. es \in Seq(LifecycleEvent) BY <1>4, <1>5, SeqMonotonic
<1>7. \A k \in DOMAIN es : \E i \in N : es[k] = Opened(i) BY <1>1, <1>4
<1>8. \A i \in N : \E k \in DOMAIN es : es[k] = Opened(i) BY <1>1, <1>4
<1>9. Mentioned(es) = N BY <1>7, <1>8, EventTypes, NoIdIsNone DEF Mentioned
<1>10. ASSUME NEW i \in N PROVE i \in Left(es, "opened")
  <2>1. PICK k \in DOMAIN es : es[k] = Opened(i) BY <1>8
  <2>2. ASSUME NEW m \in DOMAIN es, m > k, es[m].id = i PROVE FALSE
    <3>1. PICK j \in N : es[m] = Opened(j) BY <1>7
    <3>2. es[m] = es[k] BY <2>1, <2>2, <3>1, EventTypes
    <3>3. m = k BY <1>4, <3>2
    <3> QED BY <1>4, <2>2, <3>3
  <2>3. es[k] = [kind |-> "opened", id |-> i] BY <2>1 DEF Opened
  <2>4. \A m \in DOMAIN es : m > k => es[m].id # i BY <2>2
  <2> QED BY <1>9, <2>3, <2>4 DEF Left
<1>11. Left(es, "opened") = N BY <1>6, <1>9, <1>10, MentionedType
<1> QED BY <1>1, <1>3, <1>6, <1>9, <1>11

-----------------------------------------------------------------------------
(* What the operations of a kernel do to its events and obligations. *)

KernelOK(k) == k \in Kernel /\ k.projected <= Len(k.events)

\* The fields of a kernel.
LEMMA KernelFields ==
  ASSUME NEW k, KernelOK(k)
  PROVE  /\ k.events \in Seq(LifecycleEvent) /\ k.open \in SUBSET Ids /\ k.projected \in Nat
         /\ Len(k.events) \in Nat /\ k.projected <= Len(k.events)
BY DEF KernelOK, Kernel

\* k2 is k after the events es, which account for all that changed.
Grows(k, k2, es) ==
    /\ KernelOK(k2)
    /\ k2.projected = k.projected
    /\ es \in Seq(LifecycleEvent)
    /\ k2.events = k.events \o es
    /\ k2.open \ Mentioned(es) = k.open \ Mentioned(es)
    /\ k2.open \cap Mentioned(es) = Left(es, "opened")

\* Any batch recorded in a kernel leaves it a kernel.
LEMMA RecordFields ==
  ASSUME NEW k, KernelOK(k), NEW es \in Seq(LifecycleEvent)
  PROVE  /\ KernelOK(Record(k, es))
         /\ Record(k, es).events = k.events \o es
         /\ Record(k, es).open = k.open /\ Record(k, es).projected = k.projected
<1>1. k \in Kernel /\ k.projected <= Len(k.events) BY DEF KernelOK
<1>2. k.events \in Seq(LifecycleEvent) /\ Len(k.events) \in Nat /\ k.projected \in Nat
  BY KernelFields
<1>3. /\ k.events \o es \in Seq(LifecycleEvent)
      /\ Len(k.events \o es) = Len(k.events) + Len(es) /\ Len(es) \in Nat
  BY <1>2, ConcatProperties
<1>4. k.projected <= Len(k.events \o es) BY <1>1, <1>2, <1>3
<1>5. /\ Record(k, es) \in Kernel /\ Record(k, es).events = k.events \o es
      /\ Record(k, es).open = k.open /\ Record(k, es).projected = k.projected
  BY <1>1, <1>3 DEF Record, Kernel
<1> QED BY <1>4, <1>5 DEF KernelOK

\* start, fail and a refusal.
LEMMA RecordGrows ==
  ASSUME NEW k, KernelOK(k) PROVE Grows(k, Record(k, <<ActionEvent>>), <<ActionEvent>>)
<1>1. k.open \in SUBSET Ids BY KernelFields
<1> QED BY <1>1, ActionLedger, RecordFields DEF Grows

\* What propose records.
ProposedEvents(k, a) == <<ActionEvent>> \o SetToSeq({Opened(i) : i \in NewIds(k, a)})

\* propose opens what the relationships of the action require.
LEMMA ProposedGrows ==
  ASSUME NEW k, KernelOK(k), NEW a \in Actions
  PROVE  /\ NewIds(k, a) \in SUBSET Ids
         /\ Mentioned(ProposedEvents(k, a)) = NewIds(k, a)
         /\ Proposed(k, a).open = k.open \cup NewIds(k, a)
         /\ Grows(k, Proposed(k, a), ProposedEvents(k, a))
<1>1. PICK N : N = NewIds(k, a) OBVIOUS
<1>2. N \in SUBSET Ids
  BY <1>1, KernelFields, RuntimeAssumption DEF NewIds, Ids
<1>3. IsFiniteSet(N)
  <2>1. PICK f : f = [g \in FollowUps[a] |-> <<Len(k.events), g>>] OBVIOUS
  <2>2. f \in Surjection(FollowUps[a], N) BY <1>1, <2>1 DEF Surjection, NewIds
  <2> QED BY <2>2, FS_Surjection, RuntimeAssumption
<1>4. PICK os : os = SetToSeq({Opened(i) : i \in N}) OBVIOUS
<1>5. os \in Seq(LifecycleEvent) /\ Mentioned(os) = N /\ Left(os, "opened") = N
  BY <1>2, <1>3, <1>4, OpenedLedger
<1>6. PICK es : es = <<ActionEvent>> \o os OBVIOUS
<1>7. es \in Seq(LifecycleEvent) /\ Mentioned(es) = N /\ Left(es, "opened") = N
  <2>1. PICK as : as = <<ActionEvent>> OBVIOUS
  <2>2. as \in Seq(LifecycleEvent) /\ Mentioned(as) = {} /\ Left(as, "opened") = {}
    BY <2>1, ActionLedger
  <2>3. /\ as \o os \in Seq(LifecycleEvent)
        /\ Mentioned(as \o os) = Mentioned(as) \cup Mentioned(os)
        /\ Left(as \o os, "opened") = (Left(as, "opened") \ Mentioned(os)) \cup Left(os, "opened")
    BY <1>5, <2>2, ConcatLedger
  <2> QED BY <1>5, <1>6, <2>1, <2>2, <2>3
<1>8. es = ProposedEvents(k, a) BY <1>1, <1>4, <1>6 DEF ProposedEvents
<1>9. PICK ids : ids = k.open \cup N OBVIOUS
<1>10. ids \in SUBSET Ids BY <1>2, <1>9, KernelFields
<1>11. PICK h : h = Record(k, es) OBVIOUS
<1>12. KernelOK(h) /\ h.events = k.events \o es /\ h.open = k.open /\ h.projected = k.projected
  BY <1>7, <1>11, RecordFields
<1>13. PICK r : r = Proposed(k, a) OBVIOUS
<1>14. KernelOK(r) /\ r.events = k.events \o es /\ r.open = ids /\ r.projected = k.projected
  <2>1. r = [h EXCEPT !.open = ids]
    BY <1>1, <1>4, <1>6, <1>9, <1>11, <1>12, <1>13 DEF Proposed
  <2>2. h \in Kernel /\ h.projected <= Len(h.events) BY <1>12 DEF KernelOK
  <2>3. /\ r \in Kernel /\ r.events = h.events /\ r.open = ids
        /\ r.projected = h.projected
    BY <1>10, <2>1, <2>2 DEF Kernel
  <2> QED BY <1>12, <2>2, <2>3 DEF KernelOK
<1>15. Grows(k, r, es) BY <1>7, <1>9, <1>14 DEF Grows
<1> QED BY <1>1, <1>2, <1>7, <1>8, <1>9, <1>13, <1>14, <1>15

\* What complete records when it closes i, or nothing.
CompletedEvents(i) == IF i = NoId THEN <<ActionEvent>> ELSE <<Satisfied(i), ActionEvent>>

\* complete closes what it says it closes.
LEMMA CompletedGrows ==
  ASSUME NEW k, KernelOK(k), NEW a, NEW i \in Closings(k, a)
  PROVE  /\ i \in Ids \cup {NoId}
         /\ Completed(k, i).open = k.open \ {i}
         /\ Grows(k, Completed(k, i), CompletedEvents(i))
<1>1. k.open \in SUBSET Ids BY KernelFields
<1>2. i \in Ids \cup {NoId} BY <1>1 DEF Closings, Closable
<1>3. CASE i = NoId
  <2>1. Completed(k, i) = Record(k, <<ActionEvent>>) /\ CompletedEvents(i) = <<ActionEvent>>
    BY <1>3 DEF Completed, CompletedEvents
  <2>2. Record(k, <<ActionEvent>>).open = k.open BY <1>1, ActionLedger, RecordFields
  <2>3. k.open \ {i} = k.open BY <1>1, <1>3, NoIdIsNone
  <2> QED BY <1>2, <2>1, <2>2, <2>3, RecordGrows
<1>4. CASE i # NoId
  <2>1. PICK es : es = <<Satisfied(i), ActionEvent>> OBVIOUS
  <2>2. es \in Seq(LifecycleEvent) /\ Mentioned(es) = {i} /\ Left(es, "opened") = {}
    BY <1>2, <1>4, <2>1, SatisfiedLedger
  <2>3. PICK ids : ids = k.open \ {i} OBVIOUS
  <2>4. PICK h : h = Record(k, es) OBVIOUS
  <2>5. KernelOK(h) /\ h.events = k.events \o es /\ h.open = k.open /\ h.projected = k.projected
    BY <2>2, <2>4, RecordFields
  <2>6. PICK r : r = Completed(k, i) OBVIOUS
  <2>7. ids \in SUBSET Ids BY <1>1, <2>3
  <2>8. KernelOK(r) /\ r.events = k.events \o es /\ r.open = ids /\ r.projected = k.projected
    <3>1. r = [h EXCEPT !.open = ids] BY <1>4, <2>1, <2>3, <2>4, <2>5, <2>6 DEF Completed
    <3>2. h \in Kernel /\ h.projected <= Len(h.events) BY <2>5 DEF KernelOK
    <3>3. /\ r \in Kernel /\ r.events = h.events /\ r.open = ids
          /\ r.projected = h.projected
      BY <2>7, <3>1, <3>2 DEF Kernel
    <3> QED BY <2>5, <3>2, <3>3 DEF KernelOK
  <2>9. Grows(k, r, es) BY <2>2, <2>3, <2>8 DEF Grows
  <2> QED BY <1>2, <1>4, <2>1, <2>3, <2>6, <2>8, <2>9 DEF CompletedEvents
<1> QED BY <1>2, <1>3, <1>4

\* A save moves the counter to the end of the events.
LEMMA ProjectedFields ==
  ASSUME NEW k, KernelOK(k)
  PROVE  /\ KernelOK(Projected(k)) /\ Projected(k).events = k.events
         /\ Projected(k).open = k.open /\ Projected(k).projected = Len(k.events)
         /\ Pending(Projected(k)) = <<>>
<1>1. k.events \in Seq(LifecycleEvent) /\ Len(k.events) \in Nat BY KernelFields
<1>2. PICK r : r = Projected(k) OBVIOUS
<1>3. r \in Kernel /\ r.events = k.events /\ r.open = k.open /\ r.projected = Len(k.events)
  BY <1>1, <1>2 DEF Projected, KernelOK, Kernel
<1>4. Pending(r) = <<>> BY <1>1, <1>3 DEF Pending
<1> QED BY <1>1, <1>2, <1>3, <1>4 DEF KernelOK

\* The pending events end the list.
LEMMA PendingEnds ==
  ASSUME NEW k, KernelOK(k)
  PROVE  /\ Pending(k) \in Seq(LifecycleEvent) /\ EndOf(Pending(k), k)
         /\ k.projected = Len(k.events) => Pending(k) = <<>>
<1>1. k.events \in Seq(LifecycleEvent) /\ Len(k.events) \in Nat /\ k.projected \in 0..Len(k.events)
  BY KernelFields
<1>2. PICK es, n : es = k.events /\ n = k.projected OBVIOUS
<1>3. SubSeq(es, 1, n) \in Seq(LifecycleEvent) /\ SubSeq(es, n + 1, Len(es)) \in Seq(LifecycleEvent)
  BY <1>1, <1>2
<1>4. SubSeq(es, 1, n) \o SubSeq(es, n + 1, Len(es)) = SubSeq(es, 1, Len(es))
  <2>1. 1 \in 1..(Len(es) + 1) /\ n \in (1 - 1)..Len(es) /\ Len(es) \in n..Len(es)
    BY <1>1, <1>2
  <2> QED BY <1>1, <1>2, <2>1, ConcatAdjacentSubSeq
<1>5. SubSeq(es, 1, Len(es)) = es BY <1>1, <1>2, SubSeqFull
<1>6. n = Len(es) => SubSeq(es, n + 1, Len(es)) = <<>> BY <1>1, <1>2, SubSeqEmpty
<1> QED BY <1>2, <1>3, <1>4, <1>5, <1>6 DEF EndOf, Pending

\* The end of a list that grows.
LEMMA SubSeqConcat ==
  ASSUME NEW S, NEW s \in Seq(S), NEW t \in Seq(S), NEW n \in 0..Len(s)
  PROVE  SubSeq(s \o t, n + 1, Len(s \o t)) = SubSeq(s, n + 1, Len(s)) \o t
<1>1. PICK a, b \in Nat : a = Len(s) /\ b = Len(t) /\ n \in Nat /\ n <= a OBVIOUS
<1>2. s \o t \in Seq(S) /\ Len(s \o t) = a + b BY <1>1
<1>3. PICK u : u = SubSeq(s \o t, n + 1, a + b) OBVIOUS
<1>4. PICK v : v = SubSeq(s, n + 1, a) OBVIOUS
<1>5. v \in Seq(S) /\ Len(v) = a - n /\ \A i \in 1..(a - n) : v[i] = s[n + i]
  BY <1>1, <1>4
<1>6. /\ u \in Seq(S) /\ Len(u) = (a + b) - n
      /\ \A i \in 1..((a + b) - n) : u[i] = (s \o t)[n + i]
  BY <1>1, <1>2, <1>3
<1>7. /\ v \o t \in Seq(S) /\ Len(v \o t) = (a + b) - n
      /\ \A i \in 1..((a - n) + b) : (v \o t)[i] = IF i <= a - n THEN v[i] ELSE t[i - (a - n)]
  <2>1. /\ v \o t \in Seq(S) /\ Len(v \o t) = Len(v) + Len(t)
        /\ \A i \in 1..(Len(v) + Len(t)) :
              (v \o t)[i] = IF i <= Len(v) THEN v[i] ELSE t[i - Len(v)]
    BY <1>5, ConcatProperties
  <2>2. (a - n) + b = (a + b) - n BY <1>1
  <2> QED BY <1>1, <1>5, <2>1, <2>2
<1>8. ASSUME NEW i \in 1..((a + b) - n) PROVE u[i] = (v \o t)[i]
  <2>1. /\ i \in Int /\ 1 <= i /\ i <= (a - n) + b /\ i \in 1..((a - n) + b)
        /\ n + i \in 1..(a + b)
    BY <1>1
  <2>2. (s \o t)[n + i] = IF n + i <= a THEN s[n + i] ELSE t[(n + i) - a]
    BY <1>1, <2>1, ConcatProperties
  <2>3. i - (a - n) = (n + i) - a /\ (i <= a - n <=> n + i <= a) BY <1>1, <2>1
  <2>4. CASE n + i <= a
    <3>1. i \in 1..(a - n) BY <1>1, <2>1, <2>4
    <3> QED BY <1>5, <1>6, <1>7, <2>1, <2>2, <2>3, <2>4, <3>1
  <2>5. CASE ~(n + i <= a) BY <1>6, <1>7, <2>1, <2>2, <2>3, <2>5
  <2> QED BY <2>4, <2>5
<1>9. u = v \o t
  <2>1. PICK w : w = v \o t OBVIOUS
  <2>2. w \in Seq(S) /\ Len(u) = Len(w) /\ \A i \in 1..Len(u) : u[i] = w[i]
    BY <1>6, <1>7, <1>8, <2>1
  <2> QED BY <1>6, <2>1, <2>2, SeqEqual
<1> QED BY <1>1, <1>2, <1>3, <1>4, <1>9

\* Pending events grow with the list.
LEMMA PendingGrows ==
  ASSUME NEW k, KernelOK(k), NEW k2, NEW es, Grows(k, k2, es)
  PROVE  Pending(k2) = Pending(k) \o es
<1>1. k.events \in Seq(LifecycleEvent) /\ Len(k.events) \in Nat /\ k.projected \in 0..Len(k.events)
  BY KernelFields
<1>2. es \in Seq(LifecycleEvent) /\ k2.events = k.events \o es /\ k2.projected = k.projected
  BY DEF Grows
<1>3. PICK fs, n : fs = k.events /\ n = k.projected OBVIOUS
<1>4. SubSeq(fs \o es, n + 1, Len(fs \o es)) = SubSeq(fs, n + 1, Len(fs)) \o es
  BY <1>1, <1>2, <1>3, SubSeqConcat
<1> QED BY <1>2, <1>3, <1>4 DEF Pending

\* The document after a batch.
LEMMA ReduceFields ==
  ASSUME NEW d \in Document, NEW es \in Seq(LifecycleEvent), NEW ks \in SUBSET Writes
  PROVE  /\ Reduce(d, es, ks) \in Document
         /\ Reduce(d, es, ks).open = (d.open \ Mentioned(es)) \cup Left(es, "opened")
         /\ Reduce(d, es, ks).keys = d.keys \cup ks
<1>1. PICK M, O, C : M = Mentioned(es) /\ O = Left(es, "opened") /\ C = Left(es, "satisfied")
  OBVIOUS
<1>2. M \in SUBSET Ids /\ O \in SUBSET Ids /\ C \in SUBSET Ids BY <1>1, MentionedType
<1>3. PICK known : known = d.open \cup d.closed
                     \cup {i \in M : \E k \in DOMAIN es : es[k] = Opened(i)}
  OBVIOUS
<1>4. PICK v, o, c, q : /\ v = d.version + 1 /\ o = (d.open \ M) \cup O
                        /\ c = (d.closed \ M) \cup (C \cap known) /\ q = d.keys \cup ks
  OBVIOUS
<1>5. PICK r : r = [d EXCEPT !.version = v, !.open = o, !.closed = c, !.keys = q] OBVIOUS
<1>6. r = Reduce(d, es, ks) BY <1>1, <1>3, <1>4, <1>5 DEF Reduce
<1>7. v \in Nat /\ o \in SUBSET Ids /\ c \in SUBSET Ids /\ q \in SUBSET Writes
  BY <1>2, <1>4 DEF Document
<1>8. r \in Document /\ r.open = o /\ r.keys = q BY <1>5, <1>7 DEF Document
<1> QED BY <1>1, <1>4, <1>6, <1>8

\* An append that is about no obligation, and a change of the phase.
LEMMA BumpFields ==
  ASSUME NEW d \in Document
  PROVE  /\ [d EXCEPT !.version = @ + 1] \in Document
         /\ [d EXCEPT !.version = @ + 1].open = d.open
         /\ [d EXCEPT !.version = @ + 1].keys = d.keys
         /\ [d EXCEPT !.version = @ + 1, !.phase = "confirm_readiness"] \in Document
         /\ [d EXCEPT !.version = @ + 1, !.phase = "confirm_readiness"].open = d.open
         /\ [d EXCEPT !.version = @ + 1, !.phase = "confirm_readiness"].keys = d.keys
<1>1. PICK v : v = d.version + 1 OBVIOUS
<1>2. v \in Nat BY <1>1 DEF Document
<1>3. PICK r, s : /\ r = [d EXCEPT !.version = v]
                  /\ s = [d EXCEPT !.version = v, !.phase = "confirm_readiness"]
  OBVIOUS
<1>4. r \in Document /\ r.open = d.open /\ r.keys = d.keys BY <1>2, <1>3 DEF Document
<1>5. s \in Document /\ s.open = d.open /\ s.keys = d.keys BY <1>2, <1>3 DEF Document
<1> QED BY <1>1, <1>3, <1>4, <1>5

-----------------------------------------------------------------------------
(* Types. *)

KernelTypes ==
    /\ kernel \in [Runtimes -> Kernel]
    /\ \A p \in Runtimes : kernel[p].projected <= Len(kernel[p].events)

\* Every kernel is one, and stays one when it is replaced by one.
LEMMA KernelIsOK == ASSUME TypeOK, NEW p \in Runtimes PROVE KernelOK(kernel[p])
BY DEF TypeOK, KernelOK

\* Replacing one kernel by a well-typed one keeps all of them well-typed.
LEMMA KernelSet ==
  ASSUME TypeOK, NEW p \in Runtimes, NEW k, KernelOK(k), kernel' = [kernel EXCEPT ![p] = k]
  PROVE  KernelTypes' /\ kernel'[p] = k
BY DEF TypeOK, KernelTypes, KernelOK

\* The document and the process that saves it.
LEMMA SaveType ==
  ASSUME TypeOK, NEW p \in Runtimes, NEW es \in Seq(LifecycleEvent), NEW ks \in SUBSET Writes,
         doc' = Reduce(doc, es, ks), snap' = [snap EXCEPT ![p] = doc']
  PROVE  doc' \in Document /\ snap' \in [Runtimes -> Document]
<1>1. doc \in Document BY DEF TypeOK
<1>2. Reduce(doc, es, ks) \in Document BY <1>1, ReduceFields
<1> QED BY <1>2 DEF TypeOK

\* What follows a save, in each of the states that save.
LEMMA ContinueType ==
  ASSUME TypeOK, NEW p \in Runtimes, Continue(p)
  PROVE  /\ pc' \in [Runtimes -> PCs]
         /\ \E k : KernelOK(k) /\ kernel' = [kernel EXCEPT ![p] = k]
<1>1. KernelOK(Projected(kernel[p])) BY KernelIsOK, ProjectedFields
<1>2. KernelOK(Record(Projected(kernel[p]), <<ActionEvent>>))
  BY <1>1, ActionLedger, RecordFields
<1>3. pc' \in [Runtimes -> PCs] BY DEF Continue, TypeOK, PCs
<1> QED BY <1>1, <1>2, <1>3 DEF Continue

\* Every step keeps the types.
LEMMA TypeStep == ASSUME TypeOK, [Next]_vars PROVE TypeOK'
<1> USE RuntimeAssumption
<1>1. ASSUME NEW p \in Runtimes, Open(p) \/ Crash(p) PROVE TypeOK'
  <2>1. doc.open \in SUBSET Ids BY DEF TypeOK, Document
  <2>2. KernelOK(Hydrated(doc)) /\ KernelOK(NoKernel)
    BY <2>1 DEF KernelOK, Kernel, Hydrated, NoKernel
  <2>3. KernelTypes' BY <1>1, <2>2, KernelSet DEF Open, Crash
  <2>4. NoAct \in Act /\ [events |-> <<>>, keys |-> {}] \in Queue BY DEF NoAct, Act, Queue
  <2>5. CASE Open(p) BY <2>3, <2>5 DEF Open, TypeOK, PCs, KernelTypes
  <2>6. CASE Crash(p) BY <2>3, <2>4, <2>6 DEF Crash, TypeOK, PCs, KernelTypes, history
  <2> QED BY <1>1, <2>5, <2>6
<1>2. CASE ForeignAppend
  <2>1. doc' \in Document BY <1>2, BumpFields DEF ForeignAppend, TypeOK
  <2> QED BY <1>2, <2>1 DEF ForeignAppend, TypeOK, local, history
<1>3. ASSUME NEW p \in Runtimes, NEW a \in Actions, Propose(p, a) PROVE TypeOK'
  <2>1. PICK k : k = kernel[p] OBVIOUS
  <2>2. KernelOK(Proposed(k, a)) /\ NewIds(k, a) \in SUBSET Ids
    BY <2>1, KernelIsOK, ProposedGrows DEF Grows
  <2>3. KernelTypes' BY <1>3, <2>1, <2>2, KernelSet DEF Propose
  <2>4. [action |-> a, ids |-> NewIds(k, a)] \in Act BY <2>2 DEF Act
  <2> QED BY <1>3, <2>1, <2>3, <2>4 DEF Propose, TypeOK, PCs, KernelTypes, history
<1>4. ASSUME NEW p \in Runtimes, NEW a \in Actions, RefuseProposal(p, a) PROVE TypeOK'
  <2>1. KernelOK(Record(kernel[p], <<ActionEvent>>))
    BY KernelIsOK, ActionLedger, RecordFields
  <2>2. KernelTypes' BY <1>4, <2>1, KernelSet DEF RefuseProposal
  <2> QED BY <1>4, <2>2 DEF RefuseProposal, TypeOK, PCs, KernelTypes, history
<1>5. ASSUME NEW p \in Runtimes, SyncKernel(p) \/ SyncReplay(p) PROVE TypeOK'
  <2>1. KernelTypes' /\ pc' \in [Runtimes -> PCs]
    BY <1>5, ContinueType, KernelSet DEF SyncKernel, SyncReplay
  <2>2. Pending(kernel[p]) \in Seq(LifecycleEvent) /\ Replayed(kernel[p]) \in Seq(LifecycleEvent)
    BY KernelIsOK, KernelFields, PendingEnds DEF Replayed
  <2>3. doc' \in Document /\ snap' \in [Runtimes -> Document]
    BY <1>5, <2>2, SaveType DEF SyncKernel, SyncReplay
  <2>4. attempt' \in [Runtimes -> 0..2] BY <1>5 DEF SyncKernel, SyncReplay, TypeOK
  <2>5. UNCHANGED <<act, queue, history>> BY <1>5 DEF SyncKernel, SyncReplay
  <2> QED BY <2>1, <2>3, <2>4, <2>5 DEF TypeOK, KernelTypes, history
<1>6. ASSUME NEW p \in Runtimes, SyncConflict(p) PROVE TypeOK'
  BY <1>6 DEF SyncConflict, TypeOK, history
<1>7. ASSUME NEW p \in Runtimes, SyncRaises(p) PROVE TypeOK'
  <2>1. KernelOK(Record(kernel[p], <<ActionEvent>>))
    BY KernelIsOK, ActionLedger, RecordFields
  <2>2. KernelTypes' BY <1>7, <2>1, KernelSet DEF SyncRaises, KernelTypes, TypeOK
  <2>3. pc' \in [Runtimes -> PCs] BY <1>7 DEF SyncRaises, TypeOK, PCs
  <2> QED BY <1>7, <2>2, <2>3 DEF SyncRaises, TypeOK, KernelTypes, history
<1>8. ASSUME NEW p \in Runtimes, Execute(p) PROVE TypeOK'
  <2>1. PICK i \in Closings(kernel[p], act[p].action) :
          /\ kernel' = [kernel EXCEPT ![p] = Completed(@, i)]
          /\ owed' = (owed \cup act[p].ids) \ {i}
    BY <1>8 DEF Execute
  <2>2. KernelOK(Completed(kernel[p], i)) BY KernelIsOK, CompletedGrows DEF Grows
  <2>3. KernelTypes' BY <2>1, <2>2, KernelSet
  <2>4. owed' \subseteq Ids BY <2>1 DEF TypeOK, Act
  <2> QED BY <1>8, <2>3, <2>4 DEF Execute, TypeOK, PCs, KernelTypes
<1>9. ASSUME NEW p \in Runtimes, ExecuteFails(p) PROVE TypeOK'
  <2>1. KernelOK(Record(kernel[p], <<ActionEvent>>))
    BY KernelIsOK, ActionLedger, RecordFields
  <2>2. KernelTypes' BY <1>9, <2>1, KernelSet DEF ExecuteFails
  <2> QED BY <1>9, <2>2 DEF ExecuteFails, TypeOK, PCs, KernelTypes, history
<1>10. ASSUME NEW p \in Runtimes, NEW a \in Actions, StartInvoke(p, a) PROVE TypeOK'
  <2>1. PICK h : h = kernel[p] OBVIOUS
  <2>2. PICK k : k = Record(Proposed(h, a), <<ActionEvent>>) OBVIOUS
  <2>3. KernelOK(Proposed(h, a)) /\ NewIds(h, a) \in SUBSET Ids
    BY <2>1, KernelIsOK, ProposedGrows DEF Grows
  <2>4. KernelOK(k) BY <2>2, <2>3, ActionLedger, RecordFields
  <2>5. KernelOK(Projected(k)) /\ Pending(k) \in Seq(LifecycleEvent)
    BY <2>4, ProjectedFields, PendingEnds
  <2>6. /\ kernel' = [kernel EXCEPT ![p] = Projected(k)]
        /\ queue' = [queue EXCEPT ![p] = [events |-> Pending(k), keys |-> {}]]
        /\ act' = [act EXCEPT ![p] = [action |-> a, ids |-> NewIds(h, a)]]
    BY <1>10, <2>1, <2>2 DEF StartInvoke
  <2>7. KernelTypes' BY <2>5, <2>6, KernelSet
  <2>8. [action |-> a, ids |-> NewIds(h, a)] \in Act BY <2>3 DEF Act
  <2>9. [events |-> Pending(k), keys |-> {}] \in Queue BY <2>5 DEF Queue
  <2>10. queue' \in [Runtimes -> Queue] /\ act' \in [Runtimes -> Act]
    BY <2>6, <2>8, <2>9 DEF TypeOK
  <2> QED BY <1>10, <2>7, <2>10 DEF StartInvoke, TypeOK, PCs, KernelTypes, history
<1>11. ASSUME NEW p \in Runtimes, Invoked(p) PROVE TypeOK'
  <2>1. PICK i \in Closings(kernel[p], act[p].action) :
          /\ kernel' = [kernel EXCEPT ![p] = Projected(Completed(kernel[p], i))]
          /\ queue' = [queue EXCEPT ![p] =
                          [events |-> @.events \o Pending(Completed(kernel[p], i)),
                           keys |-> {act[p].action} \cap Writes]]
          /\ owed' = owed \ {i}
          /\ act' = [act EXCEPT ![p].ids = @ \ {i}]
    BY <1>11 DEF Invoked
  <2>2. PICK k : k = Completed(kernel[p], i) OBVIOUS
  <2>3. KernelOK(k) BY <2>2, KernelIsOK, CompletedGrows DEF Grows
  <2>4. KernelOK(Projected(k)) /\ Pending(k) \in Seq(LifecycleEvent)
    BY <2>3, ProjectedFields, PendingEnds
  <2>5. KernelTypes' BY <2>1, <2>2, <2>4, KernelSet
  <2>6. queue[p].events \in Seq(LifecycleEvent) BY DEF TypeOK, Queue
  <2>7. queue[p].events \o Pending(k) \in Seq(LifecycleEvent) BY <2>4, <2>6, ConcatLedger
  <2>8. [events |-> queue[p].events \o Pending(k), keys |-> {act[p].action} \cap Writes] \in Queue
    BY <2>7 DEF Queue
  <2>9. queue' \in [Runtimes -> Queue] BY <2>1, <2>2, <2>8 DEF TypeOK
  <2>10. act' \in [Runtimes -> Act] BY <2>1 DEF TypeOK, Act
  <2>11. executed' \in [Writes -> Nat] BY <1>11 DEF Invoked, TypeOK
  <2>12. owed' \subseteq Ids BY <2>1 DEF TypeOK
  <2> QED BY <1>11, <2>5, <2>9, <2>10, <2>11, <2>12 DEF Invoked, TypeOK, PCs, KernelTypes
<1>12. ASSUME NEW p \in Runtimes, InvokeFails(p) PROVE TypeOK'
  <2>1. PICK k : k = Record(kernel[p], <<ActionEvent>>) OBVIOUS
  <2>2. KernelOK(k) BY <2>1, KernelIsOK, ActionLedger, RecordFields
  <2>3. KernelOK(Projected(k)) /\ Pending(k) \in Seq(LifecycleEvent)
    BY <2>2, ProjectedFields, PendingEnds
  <2>4. KernelTypes' BY <1>12, <2>1, <2>3, KernelSet DEF InvokeFails
  <2>5. queue[p] \in Queue /\ queue[p].events \in Seq(LifecycleEvent) BY DEF TypeOK, Queue
  <2>6. queue[p].events \o Pending(k) \in Seq(LifecycleEvent) BY <2>3, <2>5, ConcatLedger
  <2>7. queue' = [queue EXCEPT ![p].events = @ \o Pending(k)] BY <1>12, <2>1 DEF InvokeFails
  <2>8. queue' \in [Runtimes -> Queue] BY <2>5, <2>6, <2>7 DEF TypeOK, Queue
  <2>9. NoAct \in Act BY DEF NoAct, Act
  <2> QED BY <1>12, <2>4, <2>8, <2>9 DEF InvokeFails, TypeOK, PCs, KernelTypes, history
<1>13. ASSUME NEW p \in Runtimes, Commit(p) PROVE TypeOK'
  <2>1. queue[p].events \in Seq(LifecycleEvent) /\ queue[p].keys \in SUBSET Writes
    BY DEF TypeOK, Queue
  <2>2. doc' \in Document /\ snap' \in [Runtimes -> Document]
    BY <1>13, <2>1, SaveType DEF Commit
  <2>3. [events |-> <<>>, keys |-> {}] \in Queue BY DEF Queue
  <2>4. owed' \subseteq Ids /\ acked' \subseteq Writes BY <1>13, <2>1 DEF Commit, TypeOK, Act
  <2> QED BY <1>13, <2>2, <2>3, <2>4 DEF Commit, EndTransaction, TypeOK, PCs
<1>14. ASSUME NEW p \in Runtimes, CommitConflict(p) PROVE TypeOK'
  <2>1. [events |-> <<>>, keys |-> {}] \in Queue BY DEF Queue
  <2>2. CASE attempt[p] < 2
    <3>1. attempt' \in [Runtimes -> 0..2] BY <1>14, <2>2 DEF CommitConflict, TypeOK
    <3> QED BY <1>14, <2>2, <3>1 DEF CommitConflict, TypeOK
  <2>3. CASE ~(attempt[p] < 2)
    <3>1. EndTransaction(p) /\ dropped' = dropped \cup {p} /\ UNCHANGED snap
      BY <1>14, <2>3 DEF CommitConflict
    <3>2. /\ pc' \in [Runtimes -> PCs] /\ queue' \in [Runtimes -> Queue]
          /\ attempt' \in [Runtimes -> 0..2] /\ dropped' \subseteq Runtimes
      BY <2>1, <3>1 DEF EndTransaction, TypeOK, PCs
    <3> QED BY <1>14, <3>1, <3>2 DEF CommitConflict, TypeOK
  <2> QED BY <2>2, <2>3
<1>15. ASSUME NEW p \in Runtimes, Transition(p) PROVE TypeOK'
  <2>1. doc' \in Document BY <1>15, BumpFields DEF Transition, TypeOK
  <2> QED BY <1>15, <2>1 DEF Transition, TypeOK, history
<1>16. CASE UNCHANGED vars BY <1>16 DEF vars, local, history, TypeOK
<1> QED
  BY <1>1, <1>2, <1>3, <1>4, <1>5, <1>6, <1>7, <1>8, <1>9, <1>10, <1>11, <1>12, <1>13, <1>14,
     <1>15, <1>16 DEF Next, Step

\* The initial state.
LEMMA TypeInit == Init => TypeOK
<1> SUFFICES ASSUME Init PROVE TypeOK OBVIOUS
<1>1. doc \in Document BY DEF Init, Document
<1>2. NoKernel \in Kernel /\ NoKernel.projected <= Len(NoKernel.events) BY DEF NoKernel, Kernel
<1>3. NoAct \in Act /\ [events |-> <<>>, keys |-> {}] \in Queue BY DEF NoAct, Act, Queue
<1> QED BY <1>1, <1>2, <1>3 DEF Init, TypeOK, PCs

\* The state of an execution has its type, however many runtimes are open:
\* in particular _projected_kernel_events never runs past the kernel's events.
THEOREM RuntimeTypes == Spec => []TypeOK
BY TypeInit, TypeStep, PTL DEF Spec

-----------------------------------------------------------------------------
(* Kernel and document account for the same obligations. *)

\* The whole list is an end of it, and so is no event at all.
LEMMA WholeAndNothing ==
  ASSUME NEW k, KernelOK(k)
  PROVE  EndOf(k.events, k) /\ EndOf(<<>>, k) /\ <<>> \in Seq(LifecycleEvent)
<1>1. k.events \in Seq(LifecycleEvent) BY KernelFields
<1>2. PICK es \in Seq(LifecycleEvent) : k.events = es BY <1>1
<1>3. <<>> \in Seq(LifecycleEvent) /\ es = es \o <<>> /\ es = <<>> \o es BY ConcatEmptySeq
<1>4. \E past \in Seq(LifecycleEvent) : es = past \o es BY <1>3, Zenon
<1>5. \E past \in Seq(LifecycleEvent) : es = past \o <<>> BY <1>3, Zenon
<1> QED BY <1>2, <1>3, <1>4, <1>5 DEF EndOf

\* The end of a list accounts for what it mentions.
LEMMA EndLedger ==
  ASSUME NEW k, KernelOK(k), NEW es \in Seq(LifecycleEvent), EndOf(es, k),
         k.open \cap Mentioned(k.events) = Left(k.events, "opened")
  PROVE  /\ Mentioned(es) \subseteq Mentioned(k.events)
         /\ k.open \cap Mentioned(es) = Left(es, "opened")
<1>1. PICK past \in Seq(LifecycleEvent) : k.events = past \o es BY DEF EndOf
<1>2. /\ Mentioned(k.events) = Mentioned(past) \cup Mentioned(es)
      /\ Left(k.events, "opened") = (Left(past, "opened") \ Mentioned(es)) \cup Left(es, "opened")
  BY <1>1, ConcatLedger
<1>3. Left(es, "opened") \subseteq Mentioned(es) BY MentionedType
<1> QED BY <1>2, <1>3

\* What a kernel operation records is accounted for.
LEMMA AccountGrows ==
  ASSUME NEW k, KernelOK(k), NEW k2, NEW fs, Grows(k, k2, fs),
         NEW es, NEW open, NEW faithful \in BOOLEAN, Accounted(k, es, open, faithful)
  PROVE  /\ Accounted(k2, es \o fs, open, faithful)
         /\ Mentioned(es \o fs) = Mentioned(es) \cup Mentioned(fs)
<1>1. es \in Seq(LifecycleEvent) /\ fs \in Seq(LifecycleEvent) /\ k.events \in Seq(LifecycleEvent)
  BY KernelFields DEF Accounted, Grows
<1>2. es \o fs \in Seq(LifecycleEvent) /\ Mentioned(es \o fs) = Mentioned(es) \cup Mentioned(fs)
  BY <1>1, ConcatLedger
<1>3. EndOf(es \o fs, k2)
  <2>1. PICK past \in Seq(LifecycleEvent) : k.events = past \o es BY DEF Accounted, EndOf
  <2>2. (past \o es) \o fs = past \o (es \o fs) BY <1>1, ConcatAssociative
  <2>3. k2.events = k.events \o fs BY DEF Grows
  <2> QED BY <2>1, <2>2, <2>3 DEF EndOf
<1>4. PICK gs : gs = k.events OBVIOUS
<1>5. /\ Mentioned(gs \o fs) = Mentioned(gs) \cup Mentioned(fs)
      /\ Left(gs \o fs, "opened") = (Left(gs, "opened") \ Mentioned(fs)) \cup Left(fs, "opened")
  BY <1>1, <1>4, ConcatLedger
<1>6. /\ k2.events = gs \o fs /\ k2.open \ Mentioned(fs) = k.open \ Mentioned(fs)
      /\ k2.open \cap Mentioned(fs) = Left(fs, "opened")
      /\ k.open \cap Mentioned(gs) = Left(gs, "opened")
  BY <1>4 DEF Grows, Accounted
<1>7. k2.open \cap Mentioned(k2.events) = Left(k2.events, "opened") BY <1>5, <1>6
<1>8. faithful => k2.open \ Mentioned(es \o fs) = open \ Mentioned(es \o fs)
  <2>1. faithful => k.open \ Mentioned(es) = open \ Mentioned(es) BY DEF Accounted
  <2> QED BY <1>2, <1>6, <2>1
<1> QED BY <1>2, <1>3, <1>7, <1>8 DEF Accounted

\* A batch that ends the list, and misses nothing unsaved, brings kernel and
\* document into agreement.
LEMMA AccountSaved ==
  ASSUME NEW k, KernelOK(k), NEW d \in Document, NEW ks \in SUBSET Writes,
         NEW us, NEW faithful \in BOOLEAN, Accounted(k, us, d.open, faithful),
         NEW es \in Seq(LifecycleEvent), EndOf(es, k), Mentioned(us) \subseteq Mentioned(es)
  PROVE  /\ Accounted(k, <<>>, Reduce(d, es, ks).open, faithful)
         /\ \A X : X \subseteq k.open /\ X \subseteq d.open \cup Mentioned(es)
                      => X \subseteq Reduce(d, es, ks).open
<1>1. k.events \in Seq(LifecycleEvent) BY KernelFields
<1>2. PICK o : o = Reduce(d, es, ks).open OBVIOUS
<1>3. o = (d.open \ Mentioned(es)) \cup Left(es, "opened") BY <1>2, ReduceFields
<1>4. k.open \cap Mentioned(es) = Left(es, "opened") BY EndLedger DEF Accounted
<1>5. EndOf(<<>>, k) /\ <<>> \in Seq(LifecycleEvent) BY WholeAndNothing
<1>6. faithful => k.open = o
  <2>1. faithful => k.open \ Mentioned(us) = d.open \ Mentioned(us) BY DEF Accounted
  <2> QED BY <1>3, <1>4, <2>1
<1>7. Accounted(k, <<>>, o, faithful) BY <1>5, <1>6 DEF Accounted
<1>8. \A X : X \subseteq k.open /\ X \subseteq d.open \cup Mentioned(es) => X \subseteq o
  BY <1>3, <1>4
<1> QED BY <1>2, <1>7, <1>8

-----------------------------------------------------------------------------
(* The invariant is inductive when one runtime is open at a time. *)

\* Only the process that is open can disturb the invariant.
LEMMA AloneStep ==
  ASSUME RuntimeInv, NEW p \in Runtimes, pc[p] # "down",
         \/ UNCHANGED pc
         \/ \E x \in PCs : pc' = [pc EXCEPT ![p] = x],
         pc'[p] # "down" => OpenAt(p)'
  PROVE  Alone' /\ OpenInv'
<1>1. \A q \in Runtimes : q # p => pc'[q] = "down" BY DEF RuntimeInv, Alone, TypeOK
<1> QED BY <1>1 DEF Alone, OpenInv

\* A kernel operation of p outside a transaction, before it is saved.
LEMMA Recorded ==
  ASSUME TypeOK, NEW p \in Runtimes, OpenAt(p), ~Transacting(p), ~Transacting(p)',
         NEW k2, NEW es, Grows(kernel[p], k2, es), kernel'[p] = k2,
         doc' = doc, dropped' = dropped
  PROVE  /\ Accounted(kernel[p], Unsaved(p), doc.open, p \notin dropped)'
         /\ TakenInv(p)'
         /\ Mentioned(es) \subseteq Mentioned(Unsaved(p)')
<1>1. PICK k, us, f : k = kernel[p] /\ us = Unsaved(p) /\ f = (p \notin dropped) OBVIOUS
<1>2. f \in BOOLEAN /\ KernelOK(k) /\ Accounted(k, us, doc.open, f)
  BY <1>1, KernelIsOK DEF OpenAt
<1>3. us = Pending(k) BY <1>1 DEF Unsaved
<1>4. Accounted(k2, us \o es, doc.open, f) /\ Mentioned(us \o es) = Mentioned(us) \cup Mentioned(es)
  BY <1>1, <1>2, AccountGrows
<1>5. Pending(k2) = us \o es BY <1>1, <1>2, <1>3, PendingGrows
<1>6. Unsaved(p)' = us \o es BY <1>5 DEF Unsaved
<1> QED BY <1>1, <1>4, <1>6 DEF TakenInv

\* A process is started on the document.
LEMMA OpenKeeps ==
  ASSUME RuntimeInv, TypeOK', ~Concurrent, NEW p \in Runtimes, Open(p) PROVE RuntimeInv'
<1>1. /\ pc' = [pc EXCEPT ![p] = "idle"] /\ \A q \in Runtimes : pc[q] = "down"
      /\ snap' = [snap EXCEPT ![p] = doc] /\ kernel' = [kernel EXCEPT ![p] = Hydrated(doc)]
      /\ UNCHANGED <<doc, owed, acked>>
  BY DEF Open
<1>2. pc'[p] = "idle" /\ snap'[p] = doc /\ kernel'[p] = Hydrated(doc)
  BY <1>1 DEF RuntimeInv, TypeOK
<1>3. \A q \in Runtimes : q # p => pc'[q] = "down" BY <1>1 DEF RuntimeInv, TypeOK
<1>4. PICK k : k = Hydrated(doc) OBVIOUS
<1>5. k.events = <<>> /\ k.open = doc.open /\ k.projected = 0 BY <1>4 DEF Hydrated
<1>6. KernelOK(k) BY <1>2, <1>4 DEF TypeOK, KernelOK
<1>7. EndOf(<<>>, k) /\ <<>> \in Seq(LifecycleEvent) BY <1>6, WholeAndNothing
<1>8. Unsaved(p)' = <<>>
  <2>1. ~Transacting(p)' BY <1>2 DEF Transacting
  <2>2. Pending(k) = <<>> BY <1>5, <1>6, PendingEnds
  <2> QED BY <1>2, <1>4, <2>1, <2>2 DEF Unsaved
<1>9. Accounted(k, <<>>, doc.open, TRUE) BY <1>5, <1>7, EmptyLedger DEF Accounted
<1>10. Accounted(kernel[p], Unsaved(p), doc.open, p \notin dropped)'
  BY <1>1, <1>2, <1>4, <1>8, <1>9 DEF Accounted
<1>11. OpenAt(p)'
  BY <1>1, <1>2, <1>4, <1>5, <1>10
  DEF RuntimeInv, OpenAt, TakenInv, Transacting, SnapInv, ActInv, InvokeInv
<1> QED BY <1>1, <1>3, <1>11 DEF RuntimeInv, Alone, OpenInv

\* A process is killed.
LEMMA CrashKeeps ==
  ASSUME RuntimeInv, TypeOK', NEW p \in Runtimes, Crash(p) PROVE RuntimeInv'
<1>1. pc[p] # "down" /\ pc' = [pc EXCEPT ![p] = "down"] /\ UNCHANGED <<doc, owed, acked>>
  BY DEF Crash, history
<1>2. pc'[p] = "down" BY <1>1 DEF RuntimeInv, TypeOK
<1>3. Alone' /\ OpenInv' BY <1>1, <1>2, AloneStep DEF PCs
<1> QED BY <1>1, <1>3 DEF RuntimeInv

\* Steps that leave the runtimes, their ledgers and the obligations and keys
\* of the document alone.
LEMMA VersionKeeps ==
  ASSUME RuntimeInv, TypeOK', UNCHANGED <<pc, kernel, act, queue, owed, acked, dropped>>,
         doc'.open = doc.open, doc'.keys = doc.keys,
         \A p \in Runtimes : SnapInv(p) => SnapInv(p)'
  PROVE  RuntimeInv'
<1>1. ASSUME NEW p \in Runtimes, OpenAt(p) PROVE OpenAt(p)'
  <2>1. Unsaved(p)' = Unsaved(p) BY DEF Unsaved, Transacting
  <2>2. SnapInv(p)' BY <1>1 DEF OpenAt
  <2>3. Accounted(kernel[p], Unsaved(p), doc.open, p \notin dropped)'
    BY <1>1, <2>1 DEF OpenAt
  <2>4. TakenInv(p)' BY <1>1 DEF OpenAt, TakenInv, Transacting
  <2>5. ActInv(p)' BY <1>1, <2>1 DEF OpenAt, ActInv
  <2>6. InvokeInv(p)' BY <1>1 DEF OpenAt, InvokeInv
  <2> QED BY <1>1, <2>2, <2>3, <2>4, <2>5, <2>6 DEF OpenAt
<1> QED BY <1>1 DEF RuntimeInv, Alone, OpenInv

\* A command of another process appends.
LEMMA ForeignKeeps == ASSUME RuntimeInv, TypeOK', ForeignAppend PROVE RuntimeInv'
<1>1. doc'.open = doc.open /\ doc'.keys = doc.keys
  BY BumpFields DEF ForeignAppend, RuntimeInv, TypeOK
<1>2. \A p \in Runtimes : SnapInv(p) => SnapInv(p)'
  BY <1>1 DEF ForeignAppend, SnapInv, local
<1> QED BY <1>1, <1>2, VersionKeeps DEF ForeignAppend, local, history

\* The phase changes.
LEMMA TransitionKeeps ==
  ASSUME RuntimeInv, TypeOK', NEW p \in Runtimes, Transition(p) PROVE RuntimeInv'
<1>1. doc'.open = doc.open /\ doc'.keys = doc.keys
  BY BumpFields DEF Transition, RuntimeInv, TypeOK
<1>2. \A q \in Runtimes : SnapInv(q) => SnapInv(q)'
  BY <1>1 DEF Transition, SnapInv, RuntimeInv, TypeOK
<1> QED BY <1>1, <1>2, VersionKeeps DEF Transition, history

\* sync_kernel loads the document after a conflict.
LEMMA SyncConflictKeeps ==
  ASSUME RuntimeInv, TypeOK', NEW p \in Runtimes, SyncConflict(p) PROVE RuntimeInv'
<1>1. \A q \in Runtimes : SnapInv(q) => SnapInv(q)'
  BY DEF SyncConflict, SnapInv, RuntimeInv, TypeOK
<1> QED BY <1>1, VersionKeeps DEF SyncConflict, history

\* The runner proposes an action.
LEMMA ProposeKeeps ==
  ASSUME RuntimeInv, TypeOK', NEW p \in Runtimes, NEW a \in Actions, Propose(p, a)
  PROVE  RuntimeInv'
<1>1. /\ pc[p] = "idle" /\ pc' = [pc EXCEPT ![p] = "proposed"]
      /\ kernel' = [kernel EXCEPT ![p] = Proposed(@, a)]
      /\ act' = [act EXCEPT ![p] = [action |-> a, ids |-> NewIds(kernel[p], a)]]
      /\ UNCHANGED <<doc, snap, queue, owed, acked, dropped>>
  BY DEF Propose, history
<1>2. PICK k, k2, es, N : /\ k = kernel[p] /\ k2 = Proposed(k, a)
                          /\ es = ProposedEvents(k, a) /\ N = NewIds(k, a)
  OBVIOUS
<1>3. pc'[p] = "proposed" /\ kernel'[p] = k2 /\ act'[p].ids = N
  BY <1>1, <1>2 DEF RuntimeInv, TypeOK
<1>4. TypeOK /\ OpenAt(p) BY <1>1 DEF RuntimeInv, OpenInv
<1>5. KernelOK(k) BY <1>2, <1>4, KernelIsOK
<1>6. Grows(k, k2, es) /\ Mentioned(es) = N /\ k2.open = k.open \cup N
  BY <1>2, <1>5, ProposedGrows
<1>7. ~Transacting(p) /\ ~Transacting(p)' BY <1>1, <1>3 DEF Transacting
<1>8. /\ Accounted(kernel[p], Unsaved(p), doc.open, p \notin dropped)' /\ TakenInv(p)'
      /\ N \subseteq Mentioned(Unsaved(p)')
  BY <1>1, <1>2, <1>3, <1>4, <1>6, <1>7, Recorded
<1>9. ActInv(p)' BY <1>3, <1>6, <1>8 DEF ActInv
<1>10. InvokeInv(p)' BY <1>3 DEF InvokeInv
<1>11. SnapInv(p)' BY <1>1, <1>4 DEF OpenAt, SnapInv
<1>12. owed' \subseteq kernel'[p].open BY <1>1, <1>2, <1>3, <1>4, <1>6 DEF OpenAt
<1>13. OpenAt(p)' BY <1>8, <1>9, <1>10, <1>11, <1>12 DEF OpenAt
<1>14. Alone' /\ OpenInv' BY <1>1, <1>13, AloneStep DEF PCs
<1> QED BY <1>1, <1>14 DEF RuntimeInv

\* An action event is recorded while nothing else changes: a refused
\* proposal, a failed save around the execution, a failed execution.
LEMMA RecordKeeps ==
  ASSUME RuntimeInv, TypeOK', NEW p \in Runtimes, pc[p] # "down", ~Transacting(p),
         pc' = [pc EXCEPT ![p] = "ended"],
         kernel' = [kernel EXCEPT ![p] = Record(@, <<ActionEvent>>)],
         UNCHANGED <<doc, snap, owed, acked, dropped>>
  PROVE  RuntimeInv'
<1>1. PICK k, k2 : k = kernel[p] /\ k2 = Record(k, <<ActionEvent>>) OBVIOUS
<1>2. pc'[p] = "ended" /\ kernel'[p] = k2 BY <1>1 DEF RuntimeInv, TypeOK
<1>3. TypeOK /\ OpenAt(p) BY DEF RuntimeInv, OpenInv
<1>4. KernelOK(k) BY <1>1, <1>3, KernelIsOK
<1>5. Grows(k, k2, <<ActionEvent>>) /\ k2.open = k.open
  BY <1>1, <1>4, RecordGrows, RecordFields, ActionLedger
<1>6. ~Transacting(p)' BY <1>2 DEF Transacting
<1>7. Accounted(kernel[p], Unsaved(p), doc.open, p \notin dropped)' /\ TakenInv(p)'
  BY <1>1, <1>2, <1>3, <1>5, <1>6, Recorded
<1>8. ActInv(p)' /\ InvokeInv(p)' BY <1>2 DEF ActInv, InvokeInv
<1>9. SnapInv(p)' BY <1>3 DEF OpenAt, SnapInv
<1>10. owed' \subseteq kernel'[p].open BY <1>1, <1>2, <1>3, <1>5 DEF OpenAt
<1>11. OpenAt(p)' BY <1>7, <1>8, <1>9, <1>10 DEF OpenAt
<1>12. Alone' /\ OpenInv' BY <1>11, AloneStep DEF PCs
<1> QED BY <1>12 DEF RuntimeInv

\* The action is carried out.
LEMMA ExecuteKeeps ==
  ASSUME RuntimeInv, TypeOK', NEW p \in Runtimes, Execute(p) PROVE RuntimeInv'
<1>1. PICK k : k = kernel[p] OBVIOUS
<1>2. PICK i \in Closings(k, act[p].action) :
        /\ kernel' = [kernel EXCEPT ![p] = Completed(@, i)]
        /\ owed' = (owed \cup act[p].ids) \ {i}
  BY <1>1 DEF Execute
<1>3. /\ pc[p] = "execute" /\ pc' = [pc EXCEPT ![p] = "ended"]
      /\ UNCHANGED <<doc, snap, acked, dropped>>
  BY DEF Execute
<1>4. PICK k2 : k2 = Completed(k, i) OBVIOUS
<1>5. pc'[p] = "ended" /\ kernel'[p] = k2 BY <1>1, <1>2, <1>3, <1>4 DEF RuntimeInv, TypeOK
<1>6. TypeOK /\ OpenAt(p) BY <1>3 DEF RuntimeInv, OpenInv
<1>7. KernelOK(k) BY <1>1, <1>6, KernelIsOK
<1>8. Grows(k, k2, CompletedEvents(i)) /\ k2.open = k.open \ {i}
  BY <1>4, <1>7, CompletedGrows
<1>9. ~Transacting(p) /\ ~Transacting(p)' BY <1>3, <1>5 DEF Transacting
<1>10. Accounted(kernel[p], Unsaved(p), doc.open, p \notin dropped)' /\ TakenInv(p)'
  BY <1>1, <1>3, <1>5, <1>6, <1>8, <1>9, Recorded
<1>11. ActInv(p)' /\ InvokeInv(p)' BY <1>5 DEF ActInv, InvokeInv
<1>12. SnapInv(p)' BY <1>3, <1>6 DEF OpenAt, SnapInv
<1>13. act[p].ids \subseteq k.open \cap doc.open /\ owed \subseteq k.open
  BY <1>1, <1>3, <1>6 DEF OpenAt, ActInv
<1>14. owed' \subseteq kernel'[p].open BY <1>2, <1>5, <1>8, <1>13
<1>15. OpenAt(p)' BY <1>10, <1>11, <1>12, <1>14 DEF OpenAt
<1>16. Alone' /\ OpenInv' BY <1>3, <1>15, AloneStep DEF PCs
<1>17. owed' \subseteq doc'.open BY <1>2, <1>3, <1>13 DEF RuntimeInv
<1> QED BY <1>3, <1>16, <1>17 DEF RuntimeInv

\* What a save by p of es, which ends the kernel's list and misses nothing
\* unsaved, does to the obligations of the document.
LEMMA SavedFields ==
  ASSUME RuntimeInv, NEW p \in Runtimes, pc[p] # "down",
         NEW es \in Seq(LifecycleEvent), EndOf(es, kernel[p]),
         Mentioned(Unsaved(p)) \subseteq Mentioned(es),
         NEW ks \in SUBSET Writes, doc' = Reduce(doc, es, ks)
  PROVE  /\ Accounted(kernel[p], <<>>, doc'.open, p \notin dropped)
         /\ \A X : X \subseteq kernel[p].open /\ X \subseteq doc.open \cup Mentioned(es)
                      => X \subseteq doc'.open
         /\ owed \subseteq doc'.open
         /\ doc'.keys = doc.keys \cup ks
<1>1. PICK k, us, f : k = kernel[p] /\ us = Unsaved(p) /\ f = (p \notin dropped) OBVIOUS
<1>2. TypeOK /\ OpenAt(p) /\ doc \in Document BY DEF RuntimeInv, OpenInv, TypeOK
<1>3. f \in BOOLEAN /\ KernelOK(k) /\ Accounted(k, us, doc.open, f)
  BY <1>1, <1>2, KernelIsOK DEF OpenAt
<1>4. /\ Accounted(k, <<>>, Reduce(doc, es, ks).open, f)
      /\ \A X : X \subseteq k.open /\ X \subseteq doc.open \cup Mentioned(es)
                   => X \subseteq Reduce(doc, es, ks).open
  BY <1>1, <1>2, <1>3, AccountSaved
<1>5. owed \subseteq k.open /\ owed \subseteq doc.open BY <1>1, <1>2 DEF OpenAt, RuntimeInv
<1>6. doc'.keys = doc.keys \cup ks BY <1>2, ReduceFields
<1> QED BY <1>1, <1>4, <1>5, <1>6

\* The runner saves and goes on.
LEMMA ContinueKeeps ==
  ASSUME RuntimeInv, TypeOK', NEW p \in Runtimes, Saving(p),
         NEW es \in Seq(LifecycleEvent), EndOf(es, kernel[p]),
         Mentioned(Unsaved(p)) \subseteq Mentioned(es),
         doc' = Reduce(doc, es, {}), snap' = [snap EXCEPT ![p] = doc'], Continue(p),
         UNCHANGED <<act, owed, acked, dropped>>
  PROVE  RuntimeInv'
<1>1. pc[p] \in {"proposed", "started", "ended"} BY DEF Saving
<1>2. TypeOK /\ OpenAt(p) BY <1>1 DEF RuntimeInv, OpenInv
<1>3. PICK k, h : k = kernel[p] /\ h = Projected(k) OBVIOUS
<1>4. KernelOK(k) BY <1>2, <1>3, KernelIsOK
<1>5. /\ KernelOK(h) /\ h.events = k.events /\ h.open = k.open
      /\ h.projected = Len(k.events) /\ Pending(h) = <<>>
  BY <1>3, <1>4, ProjectedFields
<1>6. /\ Accounted(k, <<>>, doc'.open, p \notin dropped)
      /\ \A X : X \subseteq k.open /\ X \subseteq doc.open \cup Mentioned(es)
                   => X \subseteq doc'.open
      /\ owed \subseteq doc'.open
      /\ doc'.keys = doc.keys
  <2>1. {} \in SUBSET Writes /\ pc[p] # "down" BY <1>1
  <2>2. doc'.keys = doc.keys \cup {} BY <2>1, SavedFields
  <2>3. /\ Accounted(kernel[p], <<>>, doc'.open, p \notin dropped)
        /\ \A X : X \subseteq kernel[p].open /\ X \subseteq doc.open \cup Mentioned(es)
                     => X \subseteq doc'.open
        /\ owed \subseteq doc'.open
    BY <2>1, SavedFields
  <2> QED BY <1>3, <2>2, <2>3
<1>7. Accounted(h, <<>>, doc'.open, p \notin dropped)
  BY <1>5, <1>6 DEF Accounted, EndOf
<1>8. SnapInv(p)' BY DEF SnapInv, RuntimeInv, TypeOK
<1>9. owed \subseteq h.open BY <1>2, <1>3, <1>5 DEF OpenAt
<1>10. CASE kernel' = [kernel EXCEPT ![p] = h] /\ pc' = [pc EXCEPT ![p] = "idle"]
  <2>1. kernel'[p] = h /\ pc'[p] = "idle" BY <1>2, <1>10 DEF TypeOK
  <2>2. Unsaved(p)' = <<>> BY <1>5, <2>1 DEF Unsaved, Transacting
  <2>3. OpenAt(p)'
    BY <1>3, <1>7, <1>8, <1>9, <2>1, <2>2
    DEF OpenAt, TakenInv, ActInv, InvokeInv, Transacting
  <2>4. Alone' /\ OpenInv' BY <1>1, <1>10, <2>3, AloneStep DEF PCs
  <2> QED BY <1>6, <2>4 DEF RuntimeInv
<1>11. CASE /\ kernel' = [kernel EXCEPT ![p] = h] /\ pc' = [pc EXCEPT ![p] = "execute"]
            /\ pc[p] = "started"
  <2>1. kernel'[p] = h /\ pc'[p] = "execute" BY <1>2, <1>11 DEF TypeOK
  <2>2. Unsaved(p)' = <<>> BY <1>5, <2>1 DEF Unsaved, Transacting
  <2>3. act[p].ids \subseteq k.open \cap doc.open BY <1>2, <1>3, <1>11 DEF OpenAt, ActInv
  <2>4. act'[p].ids \subseteq h.open \cap doc'.open BY <1>5, <1>6, <2>3
  <2>5. OpenAt(p)'
    BY <1>3, <1>7, <1>8, <1>9, <2>1, <2>2, <2>4
    DEF OpenAt, TakenInv, ActInv, InvokeInv, Transacting
  <2>6. Alone' /\ OpenInv' BY <1>1, <1>11, <2>5, AloneStep DEF PCs
  <2> QED BY <1>6, <2>6 DEF RuntimeInv
<1>12. CASE /\ kernel' = [kernel EXCEPT ![p] = Record(h, <<ActionEvent>>)]
            /\ pc' = [pc EXCEPT ![p] = "started"] /\ pc[p] = "proposed"
  <2>1. PICK k2, as, us : /\ k2 = Record(h, <<ActionEvent>>) /\ as = <<ActionEvent>>
                          /\ us = <<>> \o as
    OBVIOUS
  <2>2. kernel'[p] = k2 /\ pc'[p] = "started" BY <1>2, <1>12, <2>1 DEF TypeOK
  <2>3. Grows(h, k2, as) /\ k2.open = h.open
    BY <1>5, <2>1, RecordGrows, RecordFields, ActionLedger
  <2>4. Accounted(k2, us, doc'.open, p \notin dropped)
    <3>1. (p \notin dropped) \in BOOLEAN OBVIOUS
    <3> QED BY <1>5, <1>7, <2>1, <2>3, <3>1, AccountGrows
  <2>5. Unsaved(p)' = us
    <3>1. Pending(k2) = us BY <1>5, <2>1, <2>3, PendingGrows
    <3> QED BY <2>2, <3>1 DEF Unsaved, Transacting
  <2>6. act[p].ids \subseteq k.open \cap Mentioned(Unsaved(p))
    BY <1>2, <1>3, <1>12 DEF OpenAt, ActInv
  <2>7. act'[p].ids \subseteq k2.open \cap doc'.open BY <1>5, <1>6, <2>3, <2>6
  <2>8. OpenAt(p)'
    BY <1>3, <1>8, <1>9, <2>2, <2>3, <2>4, <2>5, <2>7
    DEF OpenAt, TakenInv, ActInv, InvokeInv, Transacting
  <2>9. Alone' /\ OpenInv' BY <1>1, <1>12, <2>8, AloneStep DEF PCs
  <2> QED BY <1>6, <2>9 DEF RuntimeInv
<1> QED BY <1>3, <1>10, <1>11, <1>12 DEF Continue

\* sync_kernel saves the pending events, or all of them again.
LEMMA SyncKeeps ==
  ASSUME RuntimeInv, TypeOK', NEW p \in Runtimes, SyncKernel(p) \/ SyncReplay(p)
  PROVE  RuntimeInv'
<1>1. /\ Saving(p) /\ snap' = [snap EXCEPT ![p] = doc'] /\ Continue(p)
      /\ UNCHANGED <<act, owed, acked, dropped>>
  BY DEF SyncKernel, SyncReplay, history
<1>2. TypeOK /\ OpenAt(p) BY <1>1 DEF Saving, RuntimeInv, OpenInv
<1>3. PICK k, us : k = kernel[p] /\ us = Pending(k) OBVIOUS
<1>4. KernelOK(k) BY <1>2, <1>3, KernelIsOK
<1>5. Unsaved(p) = us BY <1>1, <1>3 DEF Saving, Unsaved, Transacting
<1>6. /\ us \in Seq(LifecycleEvent) /\ EndOf(us, k)
      /\ k.events \in Seq(LifecycleEvent) /\ EndOf(k.events, k)
  BY <1>3, <1>4, PendingEnds, KernelFields, WholeAndNothing
<1>7. Mentioned(us) \subseteq Mentioned(k.events)
  BY <1>2, <1>3, <1>4, <1>6, EndLedger DEF OpenAt, Accounted
<1>8. CASE doc' = Reduce(doc, us, {}) BY <1>1, <1>3, <1>5, <1>6, <1>8, ContinueKeeps
<1>9. CASE doc' = Reduce(doc, k.events, {})
  BY <1>1, <1>3, <1>5, <1>6, <1>7, <1>9, ContinueKeeps
<1> QED BY <1>3, <1>8, <1>9 DEF SyncKernel, SyncReplay, Replayed

\* The second conflict of a save.
LEMMA SyncRaisesKeeps ==
  ASSUME RuntimeInv, TypeOK', NEW p \in Runtimes, SyncRaises(p) PROVE RuntimeInv'
<1>1. /\ pc[p] \in {"proposed", "started", "ended"}
      /\ UNCHANGED <<doc, snap, owed, acked, dropped>>
  BY DEF SyncRaises, Saving, history
<1>2. CASE pc[p] = "started"
  BY <1>1, <1>2, RecordKeeps DEF SyncRaises, Transacting
<1>3. CASE pc[p] # "started"
  <2>1. pc' = [pc EXCEPT ![p] = "idle"] /\ kernel' = kernel BY <1>3 DEF SyncRaises
  <2>2. pc'[p] = "idle" /\ OpenAt(p) BY <1>1, <2>1 DEF RuntimeInv, TypeOK, OpenInv
  <2>3. Unsaved(p)' = Unsaved(p) BY <1>1, <2>1, <2>2 DEF Unsaved, Transacting
  <2>4. Accounted(kernel[p], Unsaved(p), doc.open, p \notin dropped)'
    BY <1>1, <2>1, <2>2, <2>3 DEF OpenAt
  <2>5. OpenAt(p)'
    BY <1>1, <2>1, <2>2, <2>4
    DEF OpenAt, TakenInv, SnapInv, ActInv, InvokeInv, Transacting
  <2>6. Alone' /\ OpenInv' BY <1>1, <2>1, <2>5, AloneStep DEF PCs
  <2> QED BY <1>1, <2>6 DEF RuntimeInv
<1> QED BY <1>2, <1>3

\* A kernel operation of p inside a transaction: its events are queued.
LEMMA Queued ==
  ASSUME NEW p \in Runtimes, TypeOK, Accounted(kernel[p], Unsaved(p), doc.open, p \notin dropped),
         NEW k2, NEW es, Grows(kernel[p], k2, es),
         kernel'[p] = Projected(k2), queue'[p].events = Unsaved(p) \o es, Transacting(p)',
         doc' = doc, dropped' = dropped
  PROVE  /\ Accounted(kernel[p], Unsaved(p), doc.open, p \notin dropped)'
         /\ TakenInv(p)'
         /\ kernel'[p].open = k2.open
         /\ Mentioned(Unsaved(p)') = Mentioned(Unsaved(p)) \cup Mentioned(es)
<1>1. PICK us, h : us = Unsaved(p) /\ h = Projected(k2) OBVIOUS
<1>2. KernelOK(kernel[p]) /\ KernelOK(k2) BY KernelIsOK DEF Grows
<1>3. h.events = k2.events /\ h.open = k2.open /\ h.projected = Len(k2.events)
  BY <1>1, <1>2, ProjectedFields
<1>4. (p \notin dropped) \in BOOLEAN OBVIOUS
<1>5. /\ Accounted(k2, us \o es, doc.open, p \notin dropped)
      /\ Mentioned(us \o es) = Mentioned(us) \cup Mentioned(es)
  BY <1>1, <1>2, <1>4, AccountGrows
<1>6. Accounted(h, us \o es, doc.open, p \notin dropped) BY <1>3, <1>5 DEF Accounted, EndOf
<1>7. Unsaved(p)' = us \o es BY <1>1 DEF Unsaved
<1> QED BY <1>1, <1>3, <1>5, <1>6, <1>7 DEF TakenInv

\* A capability is proposed and started in a transaction.
LEMMA StartInvokeKeeps ==
  ASSUME RuntimeInv, TypeOK', NEW p \in Runtimes, NEW a \in Actions, StartInvoke(p, a)
  PROVE  RuntimeInv'
<1>1. PICK h, k, k2, es, as, N :
        /\ h = kernel[p] /\ k = Proposed(h, a) /\ k2 = Record(k, <<ActionEvent>>)
        /\ es = ProposedEvents(h, a) /\ as = <<ActionEvent>> /\ N = NewIds(h, a)
  OBVIOUS
<1>2. /\ pc[p] = "idle" /\ pc' = [pc EXCEPT ![p] = "invoke"]
      /\ a \in Publishing => snap[p].open = {}
      /\ a \in Writes => a \notin snap[p].keys
      /\ kernel' = [kernel EXCEPT ![p] = Projected(k2)]
      /\ queue' = [queue EXCEPT ![p] = [events |-> Pending(k2), keys |-> {}]]
      /\ act' = [act EXCEPT ![p] = [action |-> a, ids |-> N]]
      /\ UNCHANGED <<doc, snap, owed, acked, dropped>>
  BY <1>1 DEF StartInvoke, Ready, AlreadyCompleted, history
<1>3. TypeOK /\ OpenAt(p) BY <1>2 DEF RuntimeInv, OpenInv
<1>4. /\ pc'[p] = "invoke" /\ kernel'[p] = Projected(k2) /\ queue'[p].events = Pending(k2)
      /\ act'[p].ids = N /\ act'[p].action = a
  BY <1>2, <1>3 DEF TypeOK
<1>5. KernelOK(h) BY <1>1, <1>3, KernelIsOK
<1>6. Grows(h, k, es) /\ Mentioned(es) = N /\ k.open = h.open \cup N
  BY <1>1, <1>5, ProposedGrows
<1>7. KernelOK(k) BY <1>6 DEF Grows
<1>8. Grows(k, k2, as) /\ k2.open = k.open
  BY <1>1, <1>7, RecordGrows, RecordFields, ActionLedger
<1>9. PICK us, o : us = Unsaved(p) /\ o = doc.open OBVIOUS
<1>10. us = Pending(h) BY <1>1, <1>2, <1>9 DEF Unsaved, Transacting
<1>11. (p \notin dropped) \in BOOLEAN OBVIOUS
<1>12. /\ Accounted(k, us \o es, o, p \notin dropped)
       /\ Mentioned(us \o es) = Mentioned(us) \cup Mentioned(es)
  <2>1. Accounted(h, us, o, p \notin dropped) BY <1>1, <1>3, <1>9 DEF OpenAt
  <2> QED BY <1>5, <1>6, <1>11, <2>1, AccountGrows
<1>13. /\ Accounted(k2, (us \o es) \o as, o, p \notin dropped)
       /\ Mentioned((us \o es) \o as) = Mentioned(us \o es) \cup Mentioned(as)
  <2>1. PICK vs : vs = us \o es OBVIOUS
  <2>2. Accounted(k, vs, o, p \notin dropped) BY <1>12, <2>1
  <2>3. /\ Accounted(k2, vs \o as, o, p \notin dropped)
        /\ Mentioned(vs \o as) = Mentioned(vs) \cup Mentioned(as)
    BY <1>7, <1>8, <1>11, <2>2, AccountGrows
  <2> QED BY <2>1, <2>3
<1>14. Pending(k2) = (us \o es) \o as
  BY <1>5, <1>6, <1>7, <1>8, <1>10, PendingGrows
<1>15. KernelOK(k2) BY <1>8 DEF Grows
<1>16. PICK g : g = Projected(k2) OBVIOUS
<1>17. g.events = k2.events /\ g.open = k2.open /\ g.projected = Len(k2.events)
  BY <1>15, <1>16, ProjectedFields
<1>18. Unsaved(p)' = (us \o es) \o as BY <1>4, <1>14 DEF Unsaved, Transacting
<1>19. Accounted(g, (us \o es) \o as, o, p \notin dropped)
  BY <1>13, <1>17 DEF Accounted, EndOf
<1>20. Accounted(kernel[p], Unsaved(p), doc.open, p \notin dropped)'
  BY <1>2, <1>4, <1>9, <1>16, <1>18, <1>19
<1>21. TakenInv(p)' BY <1>4, <1>16, <1>17 DEF TakenInv
<1>22. N \subseteq Mentioned(Unsaved(p)') /\ N \subseteq kernel'[p].open
  BY <1>4, <1>6, <1>8, <1>12, <1>13, <1>16, <1>17, <1>18
<1>23. ActInv(p)' BY <1>4, <1>22 DEF ActInv
<1>24. SnapInv(p) BY <1>3 DEF OpenAt
<1>25. SnapInv(p)' /\ InvokeInv(p)' BY <1>2, <1>4, <1>24 DEF SnapInv, InvokeInv
<1>26. owed' \subseteq kernel'[p].open
  BY <1>1, <1>2, <1>3, <1>4, <1>6, <1>8, <1>16, <1>17 DEF OpenAt
<1>27. OpenAt(p)' BY <1>20, <1>21, <1>23, <1>25, <1>26 DEF OpenAt
<1>28. Alone' /\ OpenInv' BY <1>2, <1>27, AloneStep DEF PCs
<1> QED BY <1>2, <1>28 DEF RuntimeInv

\* The adapter has carried the action out.
LEMMA InvokedKeeps ==
  ASSUME RuntimeInv, TypeOK', NEW p \in Runtimes, Invoked(p) PROVE RuntimeInv'
<1>1. PICK k : k = kernel[p] OBVIOUS
<1>2. PICK i \in Closings(k, act[p].action) :
        /\ kernel' = [kernel EXCEPT ![p] = Projected(Completed(k, i))]
        /\ queue' = [queue EXCEPT ![p] =
                        [events |-> @.events \o Pending(Completed(k, i)),
                         keys |-> {act[p].action} \cap Writes]]
        /\ owed' = owed \ {i}
        /\ act' = [act EXCEPT ![p].ids = @ \ {i}]
  BY <1>1 DEF Invoked
<1>3. /\ pc[p] = "invoke" /\ pc' = [pc EXCEPT ![p] = "commit"]
      /\ UNCHANGED <<doc, snap, acked, dropped>>
  BY DEF Invoked
<1>4. TypeOK /\ OpenAt(p) BY <1>3 DEF RuntimeInv, OpenInv
<1>5. PICK k2, es : k2 = Completed(k, i) /\ es = CompletedEvents(i) OBVIOUS
<1>6. KernelOK(k) BY <1>1, <1>4, KernelIsOK
<1>7. Grows(k, k2, es) /\ k2.open = k.open \ {i} BY <1>5, <1>6, CompletedGrows
<1>8. Pending(k2) = es
  <2>1. Pending(k) = <<>>
    BY <1>1, <1>3, <1>4, <1>6, PendingEnds DEF OpenAt, TakenInv, Transacting
  <2>2. es \in Seq(LifecycleEvent) BY <1>7 DEF Grows
  <2>3. Pending(k2) = <<>> \o es BY <1>6, <1>7, <2>1, PendingGrows
  <2> QED BY <2>2, <2>3, ConcatEmptySeq
<1>9. Unsaved(p) = queue[p].events BY <1>3 DEF Unsaved, Transacting
<1>10. /\ pc'[p] = "commit" /\ kernel'[p] = Projected(k2)
       /\ queue'[p].events = Unsaved(p) \o es /\ act'[p].ids = act[p].ids \ {i}
  BY <1>2, <1>3, <1>4, <1>5, <1>8, <1>9 DEF TypeOK, Act
<1>11. Transacting(p)' BY <1>10 DEF Transacting
<1>12. /\ Accounted(kernel[p], Unsaved(p), doc.open, p \notin dropped)' /\ TakenInv(p)'
       /\ kernel'[p].open = k2.open
       /\ Mentioned(Unsaved(p)') = Mentioned(Unsaved(p)) \cup Mentioned(es)
  <2>1. Accounted(kernel[p], Unsaved(p), doc.open, p \notin dropped) BY <1>4 DEF OpenAt
  <2> QED BY <1>1, <1>3, <1>4, <1>7, <1>10, <1>11, <2>1, Queued
<1>13. act[p].ids \subseteq k.open \cap Mentioned(Unsaved(p)) /\ owed \subseteq k.open
  BY <1>1, <1>3, <1>4 DEF OpenAt, ActInv
<1>14. ActInv(p)' BY <1>7, <1>10, <1>12, <1>13 DEF ActInv
<1>15. SnapInv(p)' BY <1>3, <1>4 DEF OpenAt, SnapInv
<1>16. InvokeInv(p)' BY <1>10 DEF InvokeInv
<1>17. owed' \subseteq kernel'[p].open BY <1>2, <1>7, <1>12, <1>13
<1>18. OpenAt(p)' BY <1>12, <1>14, <1>15, <1>16, <1>17 DEF OpenAt
<1>19. Alone' /\ OpenInv' BY <1>3, <1>18, AloneStep DEF PCs
<1> QED BY <1>2, <1>3, <1>19 DEF RuntimeInv

\* The adapter has raised.
LEMMA InvokeFailsKeeps ==
  ASSUME RuntimeInv, TypeOK', NEW p \in Runtimes, InvokeFails(p) PROVE RuntimeInv'
<1>1. PICK k, k2, es : /\ k = kernel[p] /\ k2 = Record(k, <<ActionEvent>>)
                       /\ es = <<ActionEvent>>
  OBVIOUS
<1>2. /\ pc[p] = "invoke" /\ pc' = [pc EXCEPT ![p] = "commit"]
      /\ kernel' = [kernel EXCEPT ![p] = Projected(k2)]
      /\ queue' = [queue EXCEPT ![p].events = @ \o Pending(k2)]
      /\ act' = [act EXCEPT ![p] = NoAct]
      /\ UNCHANGED <<doc, snap, owed, acked, dropped>>
  BY <1>1 DEF InvokeFails, history
<1>3. TypeOK /\ OpenAt(p) BY <1>2 DEF RuntimeInv, OpenInv
<1>4. KernelOK(k) BY <1>1, <1>3, KernelIsOK
<1>5. Grows(k, k2, es) /\ k2.open = k.open
  BY <1>1, <1>4, RecordGrows, RecordFields, ActionLedger
<1>6. Pending(k2) = es
  <2>1. Pending(k) = <<>>
    BY <1>1, <1>2, <1>3, <1>4, PendingEnds DEF OpenAt, TakenInv, Transacting
  <2>2. es \in Seq(LifecycleEvent) BY <1>5 DEF Grows
  <2>3. Pending(k2) = <<>> \o es BY <1>4, <1>5, <2>1, PendingGrows
  <2> QED BY <2>2, <2>3, ConcatEmptySeq
<1>7. Unsaved(p) = queue[p].events BY <1>2 DEF Unsaved, Transacting
<1>8. /\ pc'[p] = "commit" /\ kernel'[p] = Projected(k2)
      /\ queue'[p].events = Unsaved(p) \o es /\ act'[p].ids = {}
  BY <1>2, <1>3, <1>6, <1>7 DEF TypeOK, Queue, NoAct
<1>9. Transacting(p)' BY <1>8 DEF Transacting
<1>10. /\ Accounted(kernel[p], Unsaved(p), doc.open, p \notin dropped)' /\ TakenInv(p)'
       /\ kernel'[p].open = k2.open
  <2>1. Accounted(kernel[p], Unsaved(p), doc.open, p \notin dropped) BY <1>3 DEF OpenAt
  <2> QED BY <1>1, <1>2, <1>3, <1>5, <1>8, <1>9, <2>1, Queued
<1>11. ActInv(p)' /\ InvokeInv(p)' BY <1>8 DEF ActInv, InvokeInv
<1>12. SnapInv(p)' BY <1>2, <1>3 DEF OpenAt, SnapInv
<1>13. owed' \subseteq kernel'[p].open BY <1>1, <1>2, <1>3, <1>5, <1>10 DEF OpenAt
<1>14. OpenAt(p)' BY <1>10, <1>11, <1>12, <1>13 DEF OpenAt
<1>15. Alone' /\ OpenInv' BY <1>2, <1>14, AloneStep DEF PCs
<1> QED BY <1>2, <1>15 DEF RuntimeInv

\* The transaction is appended to the document.
LEMMA CommitKeeps ==
  ASSUME RuntimeInv, TypeOK', NEW p \in Runtimes, Commit(p) PROVE RuntimeInv'
<1>1. PICK k, us, ks : k = kernel[p] /\ us = queue[p].events /\ ks = queue[p].keys OBVIOUS
<1>2. /\ pc[p] = "commit" /\ pc' = [pc EXCEPT ![p] = "idle"]
      /\ doc' = Reduce(doc, us, ks) /\ snap' = [snap EXCEPT ![p] = doc']
      /\ owed' = owed \cup act[p].ids /\ acked' = acked \cup ks
      /\ UNCHANGED <<kernel, act, dropped>>
  BY <1>1 DEF Commit, EndTransaction
<1>3. TypeOK /\ OpenAt(p) /\ pc'[p] = "idle" /\ snap'[p] = doc' /\ ks \in SUBSET Writes
  BY <1>1, <1>2 DEF RuntimeInv, OpenInv, TypeOK, Queue
<1>4. Unsaved(p) = us /\ Transacting(p) BY <1>1, <1>2 DEF Unsaved, Transacting
<1>5. us \in Seq(LifecycleEvent) /\ EndOf(us, k) BY <1>1, <1>3, <1>4 DEF OpenAt, Accounted
<1>6. /\ Accounted(kernel[p], <<>>, doc'.open, p \notin dropped)
      /\ \A X : X \subseteq kernel[p].open /\ X \subseteq doc.open \cup Mentioned(us)
                   => X \subseteq doc'.open
      /\ owed \subseteq doc'.open
      /\ doc'.keys = doc.keys \cup ks
  <2>1. pc[p] # "down" /\ EndOf(us, kernel[p]) /\ Mentioned(Unsaved(p)) \subseteq Mentioned(us)
    BY <1>1, <1>2, <1>4, <1>5
  <2> QED BY <1>2, <1>3, <1>5, <2>1, SavedFields
<1>7. act[p].ids \subseteq k.open \cap Mentioned(us) /\ owed \subseteq k.open
  BY <1>1, <1>2, <1>3, <1>4 DEF OpenAt, ActInv
<1>8. owed' \subseteq doc'.open /\ owed' \subseteq kernel'[p].open
  BY <1>1, <1>2, <1>6, <1>7
<1>9. Unsaved(p)' = <<>>
  <2>1. KernelOK(k) BY <1>1, <1>3, KernelIsOK
  <2>2. k.projected = Len(k.events) BY <1>1, <1>3, <1>4 DEF OpenAt, TakenInv
  <2>3. Pending(k) = <<>> BY <2>1, <2>2, PendingEnds
  <2> QED BY <1>1, <1>2, <1>3, <2>3 DEF Unsaved, Transacting
<1>10. OpenAt(p)'
  BY <1>2, <1>3, <1>6, <1>8, <1>9
  DEF OpenAt, TakenInv, SnapInv, ActInv, InvokeInv, Transacting
<1>11. Alone' /\ OpenInv' BY <1>2, <1>10, AloneStep DEF PCs
<1>12. acked' \subseteq doc'.keys BY <1>2, <1>6 DEF RuntimeInv
<1> QED BY <1>8, <1>11, <1>12 DEF RuntimeInv

\* The transaction meets a conflict, or its last.
LEMMA CommitConflictKeeps ==
  ASSUME RuntimeInv, TypeOK', NEW p \in Runtimes, CommitConflict(p) PROVE RuntimeInv'
<1>1. pc[p] = "commit" /\ UNCHANGED <<doc, kernel, act, owed, acked>>
  BY DEF CommitConflict
<1>2. TypeOK /\ OpenAt(p) BY <1>1 DEF RuntimeInv, OpenInv
<1>3. CASE attempt[p] < 2
  <2>1. snap' = [snap EXCEPT ![p] = doc] /\ UNCHANGED <<pc, queue, dropped>>
    BY <1>3 DEF CommitConflict
  <2>2. \A q \in Runtimes : SnapInv(q) => SnapInv(q)'
    BY <1>1, <1>2, <2>1 DEF SnapInv, TypeOK
  <2> QED BY <1>1, <2>1, <2>2, VersionKeeps
<1>4. CASE ~(attempt[p] < 2)
  <2>1. pc' = [pc EXCEPT ![p] = "idle"] /\ dropped' = dropped \cup {p} /\ snap' = snap
    BY <1>4 DEF CommitConflict, EndTransaction
  <2>2. PICK k : k = kernel[p] OBVIOUS
  <2>3. KernelOK(k) BY <1>2, <2>2, KernelIsOK
  <2>4. pc'[p] = "idle" /\ kernel'[p] = k BY <1>1, <1>2, <2>1, <2>2 DEF TypeOK
  <2>5. k.projected = Len(k.events) BY <1>1, <1>2, <2>2 DEF OpenAt, TakenInv, Transacting
  <2>6. Unsaved(p)' = <<>> BY <2>3, <2>4, <2>5, PendingEnds DEF Unsaved, Transacting
  <2>7. EndOf(<<>>, k) /\ <<>> \in Seq(LifecycleEvent) BY <2>3, WholeAndNothing
  <2>8. k.open \cap Mentioned(k.events) = Left(k.events, "opened")
    BY <1>2, <2>2 DEF OpenAt, Accounted
  <2>9. Accounted(kernel[p], Unsaved(p), doc.open, p \notin dropped)'
    BY <2>1, <2>4, <2>6, <2>7, <2>8 DEF Accounted
  <2>10. OpenAt(p)'
    BY <1>1, <1>2, <2>1, <2>4, <2>9
    DEF OpenAt, TakenInv, SnapInv, ActInv, InvokeInv, Transacting
  <2>11. Alone' /\ OpenInv' BY <1>1, <2>1, <2>10, AloneStep DEF PCs
  <2> QED BY <1>1, <2>11 DEF RuntimeInv
<1> QED BY <1>3, <1>4

\* Every step keeps the invariant.
LEMMA RuntimeStep ==
  ASSUME RuntimeInv, [Next]_vars, ~Concurrent PROVE RuntimeInv'
<1>1. TypeOK' BY TypeStep DEF RuntimeInv
<1>2. CASE ForeignAppend BY <1>1, <1>2, ForeignKeeps
<1>3. ASSUME NEW p \in Runtimes, Step(p) PROVE RuntimeInv'
  <2>1. CASE Open(p) BY <1>1, <2>1, OpenKeeps
  <2>2. CASE Crash(p) BY <1>1, <2>2, CrashKeeps
  <2>3. ASSUME NEW a \in Actions, Propose(p, a) PROVE RuntimeInv' BY <1>1, <2>3, ProposeKeeps
  <2>4. ASSUME NEW a \in Actions, RefuseProposal(p, a) PROVE RuntimeInv'
    BY <1>1, <2>4, RecordKeeps DEF RefuseProposal, Transacting, history
  <2>5. ASSUME NEW a \in Actions, StartInvoke(p, a) PROVE RuntimeInv'
    BY <1>1, <2>5, StartInvokeKeeps
  <2>6. CASE SyncKernel(p) \/ SyncReplay(p) BY <1>1, <2>6, SyncKeeps
  <2>7. CASE SyncConflict(p) BY <1>1, <2>7, SyncConflictKeeps
  <2>8. CASE SyncRaises(p) BY <1>1, <2>8, SyncRaisesKeeps
  <2>9. CASE Execute(p) BY <1>1, <2>9, ExecuteKeeps
  <2>10. CASE ExecuteFails(p)
    BY <1>1, <2>10, RecordKeeps DEF ExecuteFails, Transacting, history
  <2>11. CASE Invoked(p) BY <1>1, <2>11, InvokedKeeps
  <2>12. CASE InvokeFails(p) BY <1>1, <2>12, InvokeFailsKeeps
  <2>13. CASE Commit(p) BY <1>1, <2>13, CommitKeeps
  <2>14. CASE CommitConflict(p) BY <1>1, <2>14, CommitConflictKeeps
  <2>15. CASE Transition(p) BY <1>1, <2>15, TransitionKeeps
  <2> QED
    BY <1>3, <2>1, <2>2, <2>3, <2>4, <2>5, <2>6, <2>7, <2>8, <2>9, <2>10, <2>11, <2>12, <2>13,
       <2>14, <2>15 DEF Step
<1>4. CASE UNCHANGED vars
  <2>1. UNCHANGED <<doc, snap, pc, kernel, act, queue, owed, acked, dropped>>
    BY <1>4 DEF vars, local, history
  <2>2. \A p \in Runtimes : SnapInv(p) => SnapInv(p)' BY <2>1 DEF SnapInv
  <2> QED BY <1>1, <2>1, <2>2, VersionKeeps
<1> QED BY <1>2, <1>3, <1>4 DEF Next

\* No runtime is open at first.
LEMMA RuntimeStarts == Init => RuntimeInv
<1> SUFFICES ASSUME Init PROVE RuntimeInv OBVIOUS
<1>1. \A p \in Runtimes : pc[p] = "down" BY DEF Init
<1>2. Alone /\ OpenInv BY <1>1 DEF Alone, OpenInv
<1> QED BY <1>2, TypeInit DEF Init, RuntimeInv

\* The inductive invariant.
LEMMA RuntimeInvHolds == ASSUME ~Concurrent PROVE Spec => []RuntimeInv
<1>1. RuntimeInv /\ [Next]_vars => RuntimeInv' BY RuntimeStep
<1> QED BY <1>1, RuntimeStarts, PTL DEF Spec

\* With one runtime open at a time, what an acknowledged action requires
\* stays open in the document until it is carried out: a save of the events
\* of a kernel reopens what they left open, and closes only what was closed.
THEOREM DebtsAreKept == ASSUME ~Concurrent PROVE Spec => []DebtIsDurable
<1>1. RuntimeInv => DebtIsDurable BY DEF RuntimeInv, DebtIsDurable
<1> QED BY <1>1, RuntimeInvHolds, PTL

\* With one runtime open at a time, a kernel with nothing to save blocks on
\* the open obligations of the document, unless a transaction was dropped.
THEOREM KernelFollowsDocument == ASSUME ~Concurrent PROVE Spec => []KernelAgrees
<1>1. ASSUME RuntimeInv PROVE KernelAgrees
  <2> SUFFICES ASSUME NEW p \in Runtimes, pc[p] = "idle", p \notin dropped,
                      Pending(kernel[p]) = <<>>
               PROVE  kernel[p].open = doc.open
    BY DEF KernelAgrees
  <2>1. Accounted(kernel[p], Unsaved(p), doc.open, p \notin dropped)
    BY <1>1 DEF RuntimeInv, OpenInv, OpenAt
  <2>2. Unsaved(p) = <<>> BY DEF Unsaved, Transacting
  <2> QED BY <2>1, <2>2, EmptyLedger DEF Accounted
<1> QED BY <1>1, RuntimeInvHolds, PTL

\* Only the adapter of a capability carries a write out.
LEMMA WritesAreInvoked ==
  ASSUME RuntimeInv, [Next]_vars, NEW w \in Writes, executed'[w] # executed[w]
  PROVE  \E p \in Runtimes : OpenAt(p) /\ pc[p] = "invoke" /\ act[p].action = w
<1>1. CASE ForeignAppend \/ UNCHANGED vars
  BY <1>1 DEF ForeignAppend, vars, history
<1>2. ASSUME NEW p \in Runtimes, Step(p), ~Invoked(p) PROVE executed' = executed
  BY <1>2
  DEF Step, Open, Crash, Propose, RefuseProposal, StartInvoke, SyncKernel, SyncConflict,
      SyncReplay, SyncRaises, Execute, ExecuteFails, InvokeFails, Commit, CommitConflict,
      Transition, history
<1>3. ASSUME NEW p \in Runtimes, Invoked(p)
      PROVE  OpenAt(p) /\ pc[p] = "invoke" /\ act[p].action = w
  <2>1. pc[p] = "invoke" /\ OpenAt(p) BY <1>3 DEF Invoked, RuntimeInv, OpenInv
  <2>2. executed'[w] = executed[w] + (IF w = act[p].action THEN 1 ELSE 0) BY <1>3 DEF Invoked
  <2>3. executed[w] \in Nat BY DEF RuntimeInv, TypeOK
  <2> QED BY <2>1, <2>2, <2>3
<1> QED BY <1>1, <1>2, <1>3 DEF Next

\* With one runtime open at a time, a pull request is published only when
\* nothing acknowledged is owed: the readiness that invoke read from its
\* snapshot still holds when the adapter runs.
THEOREM PublishingWaitsForDebts == ASSUME ~Concurrent PROVE Spec => PublishedWhenPaid
<1>1. RuntimeInv /\ [Next]_vars
        => [\A w \in Publishing : executed'[w] # executed[w] => owed = {}]_vars
  <2> SUFFICES ASSUME RuntimeInv, [Next]_vars,
                      NEW w \in Publishing, executed'[w] # executed[w]
               PROVE  owed = {}
    OBVIOUS
  <2>1. w \in Writes BY RuntimeAssumption
  <2>2. PICK p \in Runtimes : OpenAt(p) /\ pc[p] = "invoke" /\ act[p].action = w
    BY <2>1, WritesAreInvoked
  <2>3. doc.open = {} BY <2>2 DEF OpenAt, InvokeInv
  <2> QED BY <2>3 DEF RuntimeInv
<1> QED BY <1>1, RuntimeInvHolds, PTL DEF Spec, PublishedWhenPaid

\* With one runtime open at a time, a write whose invocation returned is not
\* carried out again: its key is in every document from then on, and the
\* snapshot that invoke consults has the keys of the document.
THEOREM WritesHappenOnce == ASSUME ~Concurrent PROVE Spec => WrittenOnce
<1>1. RuntimeInv /\ [Next]_vars
        => [\A w \in Writes : executed'[w] # executed[w] => w \notin acked]_vars
  <2> SUFFICES ASSUME RuntimeInv, [Next]_vars,
                      NEW w \in Writes, executed'[w] # executed[w]
               PROVE  w \notin acked
    OBVIOUS
  <2>1. PICK p \in Runtimes : OpenAt(p) /\ pc[p] = "invoke" /\ act[p].action = w
    BY WritesAreInvoked
  <2>2. w \notin doc.keys BY <2>1 DEF OpenAt, InvokeInv
  <2> QED BY <2>2 DEF RuntimeInv
<1> QED BY <1>1, RuntimeInvHolds, PTL DEF Spec, WrittenOnce
=============================================================================
