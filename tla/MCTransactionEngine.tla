-------------------------- MODULE MCTransactionEngine --------------------------
(***************************************************************************)
(* TransactionEngine with interchangeable requests, wallets and keys.      *)
(***************************************************************************)
EXTENDS TransactionEngine, TLC

Symmetry == Permutations(Requests) \cup Permutations(Wallets)

=============================================================================
