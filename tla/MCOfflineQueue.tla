----------------------------- MODULE MCOfflineQueue -----------------------------
(***************************************************************************)
(* OfflineQueue with two replays: two tabs, or two loads of one tab.       *)
(***************************************************************************)
EXTENDS OfflineQueue, TLC

=============================================================================
