----------------------------- MODULE MCStateStore -----------------------------
(***************************************************************************)
(* Three calls: two that may collide and one that finds what they left.    *)
(* One of them appends two audit events, as most handlers do, so that a    *)
(* crash can fall between them.                                            *)
(***************************************************************************)
EXTENDS StateStore, TLC

CONSTANTS op1, op2, op3

ThreeOps == {op1, op2, op3}
TwoEvents == (op1 :> 2) @@ (op2 :> 1) @@ (op3 :> 1)
=============================================================================
