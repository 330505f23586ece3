-------------------------- MODULE MCExecutionJournal --------------------------
(***************************************************************************)
(* ExecutionJournal with two interchangeable requests and every status.    *)
(***************************************************************************)
EXTENDS ExecutionJournal, TLC

Symmetry == Permutations(Requests)

=============================================================================
