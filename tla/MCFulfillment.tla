---------------------------- MODULE MCFulfillment ----------------------------
(***************************************************************************)
(* Fulfillment with interchangeable requests, and no task.                 *)
(***************************************************************************)
EXTENDS FulfillmentHistory, TLC

Symmetry == Permutations(Requests)

NoNeeds == {}

NoBlocking == {}

=============================================================================
