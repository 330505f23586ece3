---------------------------- MODULE MCSponsoredSync ----------------------------
(***************************************************************************)
(* SponsoredSync with two interchangeable calls in progress.               *)
(***************************************************************************)
EXTENDS SponsoredSync, TLC

Symmetry == Permutations(Tasks)

=============================================================================
