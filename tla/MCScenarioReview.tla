---------------------------- MODULE MCScenarioReview ----------------------------
(***************************************************************************)
(* ScenarioReview with interchangeable boards, calls and organizations.    *)
(***************************************************************************)
EXTENDS ScenarioReview, TLC

Symmetry == Permutations(Boards) \cup Permutations(Calls) \cup Permutations(Organizations)

=============================================================================
