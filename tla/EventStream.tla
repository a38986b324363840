---------------------------- MODULE EventStream ----------------------------
(***************************************************************************)
(* What the execution store promises its clients: one stream of payloads   *)
(* that only grows, to which every batch is added as a whole and at most   *)
(* once.  Files, locks, journals and crashes are below this level; the     *)
(* detailed specification is ExecutionStore.                               *)
(***************************************************************************)
EXTENDS Naturals, Sequences

CONSTANT Batches        \* the batches that clients may commit

VARIABLE stream         \* the payloads reduced into the current state

InStream(b) == \E i \in 1..Len(stream) : stream[i] = b[1]

StreamInit == stream = <<>>

Commit(b) ==
    /\ ~InStream(b)
    /\ stream' = stream \o b

StreamNext == \E b \in Batches : Commit(b)

StreamSpec == StreamInit /\ [][StreamNext]_stream
=============================================================================
