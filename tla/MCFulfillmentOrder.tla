-------------------------- MODULE MCFulfillmentOrder --------------------------
(***************************************************************************)
(* OrderHistory with interchangeable requests, and the task bounds.        *)
(***************************************************************************)
EXTENDS OrderHistory, TLC

Symmetry == Permutations(Requests)

BothNeeds == {{"buyer", "seller"}}

Blocking == {TRUE}

=============================================================================
