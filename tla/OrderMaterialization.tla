------------------------- MODULE OrderMaterialization -------------------------
(***************************************************************************)
(* What the relational cart promises about orders, with none of how it is  *)
(* done: a cart is open for conversion or closed, an open cart may receive *)
(* one order, and an order once given to a cart is never taken back,       *)
(* replaced, or shared with another cart.                                  *)
(***************************************************************************)
CONSTANTS
    Carts, Orders,
    NoOrder     \* no member of Orders

VARIABLES
    phase,      \* phase[c]: "open" when the cart may be converted
    orderOf     \* orderOf[c]: the order cart c became, or NoOrder

matVars == <<phase, orderOf>>

MatTypeOK ==
    /\ phase \in [Carts -> {"open", "closed"}]
    /\ orderOf \in [Carts -> Orders \cup {NoOrder}]

MatInit ==
    /\ phase = [c \in Carts |-> "closed"]
    /\ orderOf = [c \in Carts |-> NoOrder]

\* A cart's content is (re)materialised: it may be converted again.
Open(c) ==
    /\ phase' = [phase EXCEPT ![c] = "open"]
    /\ UNCHANGED orderOf

\* A party refuses the cart.
Close(c) ==
    /\ phase' = [phase EXCEPT ![c] = "closed"]
    /\ UNCHANGED orderOf

\* The cart becomes an order no other cart has.
Materialize(c, o) ==
    /\ phase[c] = "open"
    /\ orderOf[c] = NoOrder
    /\ \A d \in Carts : orderOf[d] # o
    /\ orderOf' = [orderOf EXCEPT ![c] = o]
    /\ UNCHANGED phase

MatNext == \E c \in Carts : Open(c) \/ Close(c) \/ \E o \in Orders : Materialize(c, o)

MatSpec == MatInit /\ [][MatNext]_matVars

=============================================================================
