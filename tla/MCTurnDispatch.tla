--------------------------- MODULE MCTurnDispatch ---------------------------
(* TurnDispatch on two turns and two service processes. *)
EXTENDS TurnDispatch, TLC

CONSTANTS t1, t2, c1, c2, s1, s2

\* Two conversations with a turn each.
TwoConversations == (t1 :> c1) @@ (t2 :> c2)

\* The questions the turns ask.
TwoAndNone == (t1 :> 2) @@ (t2 :> 0)
OneEach == [t \in Turns |-> 1]
=============================================================================
