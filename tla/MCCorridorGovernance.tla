-------------------------- MODULE MCCorridorGovernance --------------------------
(***************************************************************************)
(* CorridorGovernance with two calls in progress.                          *)
(***************************************************************************)
EXTENDS CorridorGovernance, TLC

=============================================================================
