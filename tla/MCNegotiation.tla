----------------------------- MODULE MCNegotiation -----------------------------
(***************************************************************************)
(* Negotiation with two calls in progress, two terms, two relationships,    *)
(* one thread and two cart rows.                                            *)
(***************************************************************************)
EXTENDS Negotiation, TLC

=============================================================================
