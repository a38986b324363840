----------------------------- MODULE MCIssueQueue -----------------------------
(***************************************************************************)
(* A plan of two items, 2 after 1, and two repairs of it.  Repair 1         *)
(* replaces item 1 by a new item 3 and leaves the contract of 2 alone;      *)
(* repair 2 lets item 2 stand alone.                                        *)
(***************************************************************************)
EXTENDS IssueQueue

MCItems == 1..3
MCPublished == {1, 2}
OneRepair == {1}
TwoRepairs == {1, 2}
MCAffected == [r \in Repairs |-> IF r = 1 THEN {1, 2, 3} ELSE {2}]
MCSuperseded == [r \in Repairs |-> IF r = 1 THEN {1} ELSE {}]

MCDeps ==
    [v \in Revisions |->
        [i \in Items |-> IF i # 2 \/ v = 2 THEN {} ELSE IF v = 1 THEN {3} ELSE {1}]]

MCContract == [v \in Revisions |-> [i \in Items |-> IF v = 2 /\ i = 2 THEN 2 ELSE 1]]
=============================================================================
