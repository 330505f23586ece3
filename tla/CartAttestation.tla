---------------------------- MODULE CartAttestation ----------------------------
(***************************************************************************)
(* RelationalCart with a history variable: the lines that were in the cart *)
(* when each side's standing confirmation was recorded.  It changes no     *)
(* behaviour; it lets a property say what a confirmation was about.        *)
(***************************************************************************)
EXTENDS RelationalCart

VARIABLE attested   \* attested[c][side]: the lines confirmed; <<>> when not confirmed

AttestInit == Init /\ attested = [c \in Carts |-> [side \in Sides |-> <<>>]]

AttestNext ==
    /\ Next
    /\ attested' = [c \in Carts |-> [side \in Sides |->
          IF side \notin carts'[c].confirmed THEN <<>>
          ELSE IF side \in carts[c].confirmed THEN attested[c][side]
          ELSE items[c]]]

AttestSpec == AttestInit /\ [][AttestNext]_<<vars, attested>>

\* A cart locked for order is locked on the lines both sides confirmed: a content
\* change in between has cleared the confirmations (the content change reset).
LockedContentAttested ==
    \A c \in Carts : carts[c].status = "LOCKED_FOR_ORDER" =>
        \A side \in Sides : side \in carts[c].confirmed /\ attested[c][side] = items[c]

=============================================================================
