----------------------------- MODULE MCBilling -----------------------------
(***************************************************************************)
(* One or two plans, the larger with room for one product more.            *)
(***************************************************************************)
EXTENDS Billing, TLC

CONSTANTS basic, ndovu

OnePlan == {ndovu}
TwoPlans == {basic, ndovu}
RoomOfOne == [plan \in OnePlan |-> 1]
ProductLimit == [plan \in TwoPlans |-> IF plan = basic THEN 1 ELSE 2]

Symmetric == Permutations(Requests)
=============================================================================
