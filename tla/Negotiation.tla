------------------------------ MODULE Negotiation ------------------------------
(***************************************************************************)
(* One negotiation and the carts made from it: the proposals, acceptances   *)
(* and rejections of NegotiationEngineService, the cart an acceptance has   *)
(* made by a promise nobody awaits, the routes that make it on demand       *)
(* (RelationalCartService.createCartFromNegotiation), and the drafts of its *)
(* threads, which write carts of the same negotiation with terms of their   *)
(* own (createCartFromConversationalDraft).                                 *)
(*                                                                         *)
(* call[c] is a request and, after an acceptance, the creation it has left  *)
(* behind.  Every write is unconditional; a reading is stale as soon as     *)
(* another call has run.                                                    *)
(*                                                                         *)
(* Quantity and price are one value, the terms.  Those proposed are left    *)
(* out, since an acceptance may give its own, and so are the payment mode,   *)
(* the content of the messages, the reservation intent, and the drafts of a *)
(* thread that has no negotiation, which may name any.                      *)
(* The relationships of the two organizations change at any time: a search  *)
(* for an ACCEPTED one finds any, or none, which is a refusal or, in a      *)
(* sponsored negotiation, leads to an agreement of principle.  The corridor, *)
(* the catalogue and the database may refuse at any time as well.           *)
(* What becomes of a cart afterwards is RelationalCart's.                   *)
(***************************************************************************)
EXTENDS FiniteSets

CONSTANTS
    Terms,          \* quantities and prices accepted
    Watched,        \* any one of them, for the liveness property
    DraftTerms,     \* the terms of a draft
    NoTerms,        \* columns that are null
    Relationships,  \* those of the two organizations: no constraint keeps them to one
    Threads,        \* the threads of the negotiation
    NoThread,
    Carts,          \* bound: the cart rows
    NoCart,
    Calls           \* bound: the calls in progress at the same time

ASSUME TermsAssumption ==
    /\ Watched \in Terms
    /\ DraftTerms \notin Terms
    /\ NoTerms \notin Terms \cup {DraftTerms}

ASSUME CartsAssumption == NoThread \notin Threads /\ NoCart \notin Carts

VARIABLES
    negotiation,    \* the row
    cart,           \* the rows: the carts of this negotiation
    call,
    \* what has happened, for the properties:
    lost,           \* since the last acceptance, one failed before its creation or a creation died
    taken,          \* since the last acceptance, a draft overwrote a cart that had the accepted terms
    overlapped      \* a cart was written between the readings and the write of another

negotiationVars == <<negotiation, cart, call, lost, taken, overlapped>>

NegotiationStatus == {"OPEN", "PROPOSED", "ACCEPTED", "REJECTED", "CONVERTED_TO_CART"}

ClosedToProposals == {"CONVERTED_TO_CART", "REJECTED"}

\* A row not inserted.
NoRow == [relationship |-> NoCart, thread |-> NoThread, terms |-> NoTerms]

Idle == [at |-> "idle"]

\* The creation of a cart: the promise of an acceptance, or a request that waits for it.
Creating(by) == [at |-> "create", by |-> by]

\* With the terms it has read and will write.
Looking(by, terms) == [at |-> "look", by |-> by, terms |-> terms]

\* A creation or a draft with the relationship it has found and the cart that exists there, if any.
Writing(by, terms, relationship, thread, existing) ==
    [at |-> "write", by |-> by, terms |-> terms,
     relationship |-> relationship, thread |-> thread, existing |-> existing]

WritingSteps == {"look", "write"}

Become(c, state) == call' = [call EXCEPT ![c] = state]

Rows == {k \in Carts : cart[k] # NoRow}

Init ==
    /\ negotiation = [status |-> "OPEN", accepted |-> NoTerms]
    /\ cart = [k \in Carts |-> NoRow]
    /\ call = [c \in Calls |-> Idle]
    /\ lost = FALSE /\ taken = FALSE /\ overlapped = FALSE

-----------------------------------------------------------------------------
(* The negotiation. *)

ProposeRead(c) ==
    /\ call[c] = Idle
    /\ negotiation.status \notin ClosedToProposals
    /\ Become(c, [at |-> "propose"])
    /\ UNCHANGED <<negotiation, cart, lost, taken, overlapped>>

\* The message that follows a proposal, a rejection or an agreement of principle may fail; it is
\* the last the request has to do.
ProposeWrite(c) ==
    /\ call[c].at = "propose"
    /\ negotiation' = [negotiation EXCEPT !.status = "PROPOSED"]
    /\ Become(c, Idle)
    /\ UNCHANGED <<cart, lost, taken, overlapped>>

\* No status is excluded.  Without a relationship, a sponsored negotiation is only agreed in
\* principle.
AcceptRead(c) ==
    /\ call[c] = Idle
    /\ Become(c, [at |-> "accept"]) \/ Become(c, [at |-> "principle"])
    /\ UNCHANGED <<negotiation, cart, lost, taken, overlapped>>

AgreeInPrinciple(c) ==
    /\ call[c].at = "principle"
    /\ negotiation' = [negotiation EXCEPT !.status = "PROPOSED"]
    /\ Become(c, Idle)
    /\ UNCHANGED <<cart, lost, taken, overlapped>>

\* The terms are those proposed, or others the caller gives.
AcceptWrite(c) ==
    /\ call[c].at = "accept"
    /\ \E terms \in Terms : negotiation' = [status |-> "ACCEPTED", accepted |-> terms]
    /\ lost' = FALSE /\ taken' = FALSE
    /\ Become(c, [at |-> "announce"])
    /\ UNCHANGED <<cart, overlapped>>

\* Mutant: the message is all that follows an acceptance.
AnnounceOnly(c) ==
    /\ call[c].at = "announce"
    /\ Become(c, Idle)
    /\ UNCHANGED <<negotiation, cart, lost, taken, overlapped>>

\* The message of the acceptance is written; only then is the creation of the cart begun.
Announce(c) ==
    /\ call[c].at = "announce"
    /\ Become(c, Creating("promise"))
    /\ UNCHANGED <<negotiation, cart, lost, taken, overlapped>>

\* reject: the row it has read is not looked at.
Reject ==
    /\ negotiation' = [negotiation EXCEPT !.status = "REJECTED"]
    /\ UNCHANGED <<cart, call, lost, taken, overlapped>>

-----------------------------------------------------------------------------
(* createCartFromNegotiation, createCartFromConversationalDraft. *)

\* convertToCart, or the from-negotiation route.
Convert(c) ==
    /\ call[c] = Idle
    /\ Become(c, Creating("request"))
    /\ UNCHANGED <<negotiation, cart, lost, taken, overlapped>>

CreateRead(c) ==
    /\ call[c].at = "create"
    /\ negotiation.status = "ACCEPTED"
    /\ Become(c, Looking(call[c].by, negotiation.accepted))
    /\ UNCHANGED <<negotiation, cart, lost, taken, overlapped>>

\* findFirst: any of the carts, or none.
FirstOf(carts) == IF carts = {} THEN {NoCart} ELSE carts

\* Mutant: a cart is inserted whatever there is.
ExistingNever(relationship) == {NoCart}

\* The carts of this negotiation are all those there are.
Existing(relationship) == FirstOf({k \in Rows : cart[k].relationship = relationship})

CreateLook(c) ==
    /\ call[c].at = "look"
    /\ \E relationship \in Relationships : \E existing \in Existing(relationship) :
          Become(c, Writing(call[c].by, call[c].terms, relationship, NoThread, existing))
    /\ UNCHANGED <<negotiation, cart, lost, taken, overlapped>>

DraftExisting(thread, relationship) ==
    FirstOf({k \in Rows : cart[k].thread = thread /\ cart[k].relationship = relationship})

\* A draft somebody confirms, or the from-draft route; the negotiation is not looked at.
DraftLook(c) ==
    /\ call[c] = Idle
    /\ \E thread \in Threads, relationship \in Relationships :
          \E existing \in DraftExisting(thread, relationship) :
              Become(c, Writing("draft", DraftTerms, relationship, thread, existing))
    /\ UNCHANGED <<negotiation, cart, lost, taken, overlapped>>

Inserted(q) == [relationship |-> q.relationship, thread |-> q.thread, terms |-> q.terms]

\* Mutant: the cart found is left as it is.
RefreshedNever(q) == cart[q.existing]

Refreshed(q) == [cart[q.existing] EXCEPT !.terms = q.terms]

NewRow == CHOOSE k \in Carts : k \notin Rows

WriteCart(q) ==
    IF q.existing = NoCart
    THEN Rows # Carts /\ cart' = [cart EXCEPT ![NewRow] = Inserted(q)]
    ELSE cart' = [cart EXCEPT ![q.existing] = Refreshed(q)]

\* Another has read the terms it will write, or has looked for its cart.
Overlap(c) == overlapped' = (overlapped \/ \E d \in Calls \ {c} : call[d].at \in WritingSteps)

\* convertToCart goes on to mark the negotiation.
CreateWrite(c) ==
    /\ call[c].at = "write" /\ call[c].by # "draft"
    /\ WriteCart(call[c])
    /\ Overlap(c)
    /\ \/ Become(c, Idle)
       \/ call[c].by = "request" /\ Become(c, [at |-> "convert"])
    /\ UNCHANGED <<negotiation, lost, taken>>

DraftWrite(c) ==
    /\ call[c].at = "write" /\ call[c].by = "draft"
    /\ WriteCart(call[c])
    /\ Overlap(c)
    /\ taken' = (taken \/ /\ call[c].existing # NoCart
                          /\ cart[call[c].existing].terms = negotiation.accepted)
    /\ Become(c, Idle)
    /\ UNCHANGED <<negotiation, lost>>

\* markNegotiationConverted.
MarkConverted(c) ==
    /\ call[c].at = "convert"
    /\ negotiation' = [negotiation EXCEPT !.status = "CONVERTED_TO_CART"]
    /\ Become(c, Idle)
    /\ UNCHANGED <<cart, lost, taken, overlapped>>

-----------------------------------------------------------------------------
(* What may go wrong. *)

Promised(c) == call[c].at \in {"create"} \cup WritingSteps /\ call[c].by = "promise"

\* What an acceptance has still to do.
Underway(c) == call[c].at = "announce" \/ Promised(c)

\* Everything in progress is gone.
Restart ==
    /\ call' = [c \in Calls |-> Idle]
    /\ lost' = (lost \/ \E c \in Calls : Underway(c))
    /\ UNCHANGED <<negotiation, cart, taken, overlapped>>

\* Not ACCEPTED, no relationship, or no row left: the bound.
Refused(q) ==
    \/ q.at = "create" /\ negotiation.status # "ACCEPTED"
    \/ q.at = "look"
    \/ q.at = "write" /\ q.existing = NoCart /\ Rows = Carts

\* Nobody catches the promise of an acceptance: with no handler for that, the process ends.
PromiseRefused(c) ==
    /\ Promised(c)
    /\ Refused(call[c])
    /\ Restart

\* A request ended by a refusal or by the database.  An acceptance whose message fails has been
\* recorded, and begins no creation.
Fail(c) ==
    /\ call[c] # Idle
    /\ ~Promised(c)
    /\ lost' = (lost \/ call[c].at = "announce")
    /\ Become(c, Idle)
    /\ UNCHANGED <<negotiation, cart, taken, overlapped>>

-----------------------------------------------------------------------------

\* What follows an acceptance once its update is made.
Keep(c) ==
    /\ Underway(c)
    /\ \/ Announce(c) \/ Fail(c)
       \/ CreateRead(c) \/ CreateLook(c) \/ CreateWrite(c) \/ PromiseRefused(c)

Next ==
    \/ \E c \in Calls :
          \/ ProposeRead(c) \/ ProposeWrite(c)
          \/ AcceptRead(c) \/ AgreeInPrinciple(c) \/ AcceptWrite(c) \/ Announce(c)
          \/ Convert(c) \/ CreateRead(c) \/ CreateLook(c) \/ CreateWrite(c) \/ MarkConverted(c)
          \/ DraftLook(c) \/ DraftWrite(c)
          \/ PromiseRefused(c) \/ Fail(c)
    \/ Reject
    \/ Restart

\* A call to the database returns or fails, and a promise goes on as long as the process does.
Spec == Init /\ [][Next]_negotiationVars /\ \A c \in Calls : WF_negotiationVars(Keep(c))

-----------------------------------------------------------------------------
(* Properties. *)

\* What an acceptance has still to do and that will write these terms, or has yet to read them.
Brings(c, terms) == Underway(c) /\ (call[c].at \in WritingSteps => call[c].terms = terms)

Settled == \A c \in Calls : call[c].at \notin {"announce", "create"} \cup WritingSteps

\* Once no acceptance, creation or draft is on its way, an accepted or converted negotiation has
\* a cart with the terms accepted last: whatever was proposed, rejected, drafted or accepted
\* before and after, and whichever relationship each creation found.  Unless the creation was
\* lost (its message failed, its process ended), a draft has overwritten the cart since, or a
\* cart was written between the readings and the write of another.
CartFollowsAcceptance ==
    Settled /\ negotiation.status \in {"ACCEPTED", "CONVERTED_TO_CART"} =>
        lost \/ taken \/ overlapped \/ \E k \in Carts : cart[k].terms = negotiation.accepted

\* A negotiation has, in each relationship, one cart made by its creations and one made by the
\* drafts of each thread, however often it is accepted, converted and drafted, unless a cart was
\* written between the readings and the write of another: no constraint of the database says so,
\* only the search before each insertion.
OneCartPerSource ==
    overlapped \/ \A j, k \in Rows : /\ cart[j].relationship = cart[k].relationship
                                     /\ cart[j].thread = cart[k].thread
                                     => j = k

\* What an acceptance has still to do brings the accepted terms to a cart, unless others are
\* accepted first, the negotiation leaves ACCEPTED, the message fails or the process ends.
AcceptanceReachesCart ==
    (negotiation = [status |-> "ACCEPTED", accepted |-> Watched] /\ \E c \in Calls : Brings(c, Watched))
        ~> \/ negotiation # [status |-> "ACCEPTED", accepted |-> Watched]
           \/ lost
           \/ \E k \in Carts : cart[k].terms = Watched

=============================================================================
