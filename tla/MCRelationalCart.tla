--------------------------- MODULE MCRelationalCart ---------------------------
(***************************************************************************)
(* RelationalCart for TLC.  Requests, products and order ids are only ever *)
(* compared for equality, so states that differ by a renaming of them are  *)
(* explored once.                                                          *)
(***************************************************************************)
EXTENDS RelationalCart, TLC

Renaming == {a @@ b @@ c : a \in Permutations(Requests), b \in Permutations(Products),
                           c \in Permutations(Orders)}

=============================================================================
