----------------------------- MODULE OrderHistory -----------------------------
(***************************************************************************)
(* Fulfillment with a history variable about its order.  It changes no     *)
(* behaviour; it remembers the one overlap of transitions the code does    *)
(* not keep out, and every other interleaving of the handlers stays in.    *)
(***************************************************************************)
EXTENDS Fulfillment

VARIABLE overwritten    \* a transition's unconditional update replaced a status it had not read

Overwrites(r) ==
    /\ CommitTransition(r)
    /\ execution # req[r].from
    /\ execution' # execution

OrderHistInit == Init /\ overwritten = FALSE

OrderHistNext ==
    /\ Next
    /\ overwritten' = (overwritten \/ \E r \in Requests : Overwrites(r))

OrderHistSpec == OrderHistInit /\ [][OrderHistNext]_<<vars, overwritten>>

-----------------------------------------------------------------------------
\* What an order can come to once it was received or completed.
AfterReceipt == {"RECEIVED", "COMPLETED", "RETURN_REVIEW", "CANCELLED"}

\* The order of a completed fulfillment was received or completed, though its status is
\* read before the transaction and the order may move on before the write: only a
\* transition that replaced a status it had not read takes it anywhere else.
CompletedAfterReceipt ==
    record.status = "FULFILLMENT_COMPLETED" => execution \in AfterReceipt \/ overwritten

=============================================================================
