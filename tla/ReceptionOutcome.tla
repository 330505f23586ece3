--------------------------- MODULE ReceptionOutcome ---------------------------
(***************************************************************************)
(* What fulfillment promises about a reception, with none of how: it ends  *)
(* at most once, as completed, blocked or rejected; it completes only with *)
(* its proof validated; and a validated proof is withdrawn only by the     *)
(* rejection that ends it.                                                 *)
(***************************************************************************)
VARIABLES
    proved,     \* the proof has been validated
    outcome     \* "open" until the reception ends

Init == proved = FALSE /\ outcome = "open"

Prove == outcome = "open" /\ proved' = TRUE /\ UNCHANGED outcome

Complete == outcome = "open" /\ proved /\ outcome' = "completed" /\ UNCHANGED proved

Block == outcome = "open" /\ outcome' = "blocked" /\ UNCHANGED proved

Reject == outcome = "open" /\ outcome' = "rejected" /\ proved' = FALSE

Next == Prove \/ Complete \/ Block \/ Reject

Spec == Init /\ [][Next]_<<proved, outcome>>

=============================================================================
