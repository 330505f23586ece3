---------------------------- MODULE NegotiationProofs ----------------------------
(***************************************************************************)
(* The theorems of Negotiation, for any terms, relationships, threads,      *)
(* carts and calls.  Until its cart is written, an acceptance is kept by    *)
(* what it has still to do (Pending), and then by a cart that no creation   *)
(* on its way will give other terms (Kept).  While no cart is written       *)
(* between the readings and the write of another, a call that found no cart *)
(* still sees none of its source (LooksCurrent).                            *)
(***************************************************************************)
EXTENDS Negotiation, TLAPS

Creators == {"promise", "request"}

CallState ==
    [at : {"idle", "propose", "principle", "accept", "announce", "convert"}]
        \cup [at : {"create"}, by : Creators]
        \cup [at : {"look"}, by : Creators, terms : Terms]
        \cup [at : {"write"}, by : Creators, terms : Terms, relationship : Relationships,
              thread : {NoThread}, existing : Carts \cup {NoCart}]
        \cup [at : {"write"}, by : {"draft"}, terms : {DraftTerms}, relationship : Relationships,
              thread : Threads, existing : Carts \cup {NoCart}]

CartRow ==
    [relationship : Relationships \cup {NoCart}, thread : Threads \cup {NoThread},
     terms : Terms \cup {DraftTerms, NoTerms}]

NegotiationTypeOK ==
    /\ negotiation \in [status : NegotiationStatus, accepted : Terms \cup {NoTerms}]
    /\ cart \in [Carts -> CartRow]
    /\ call \in [Calls -> CallState]
    /\ lost \in BOOLEAN /\ taken \in BOOLEAN /\ overlapped \in BOOLEAN

\* A creation that has read the negotiation.
HasRead(q) == q.at \in WritingSteps /\ q.by # "draft"

\* Only a negotiation that was accepted is accepted, being converted or converted.
TermsGiven ==
    \/ negotiation.accepted # NoTerms
    \/ /\ negotiation.status \notin {"ACCEPTED", "CONVERTED_TO_CART"}
       /\ \A c \in Calls : call[c].at # "convert" /\ ~HasRead(call[c])

\* What a call has found is there.
FoundExists(q) == q.at = "write" => q.existing = NoCart \/ q.existing \in Rows

SameSource(k, relationship, thread) == cart[k].relationship = relationship /\ cart[k].thread = thread

OneRow ==
    \A j, k \in Rows : SameSource(j, cart[k].relationship, cart[k].thread) => j = k

\* A call that has found no cart would find none of its source now.
LooksCurrent(q) ==
    q.at = "write" /\ q.existing = NoCart =>
        \A k \in Rows : ~SameSource(k, q.relationship, q.thread)

Pending == \E c \in Calls : Brings(c, negotiation.accepted)

Kept ==
    /\ \E k \in Carts : cart[k].terms = negotiation.accepted
    /\ \A c \in Calls : HasRead(call[c]) => call[c].terms = negotiation.accepted

NegotiationInv ==
    /\ NegotiationTypeOK
    /\ TermsGiven
    /\ \A c \in Calls : FoundExists(call[c])
    /\ overlapped \/ (OneRow /\ \A c \in Calls : LooksCurrent(call[c]))
    /\ lost \/ taken \/ overlapped \/ negotiation.accepted = NoTerms \/ Pending \/ Kept

-----------------------------------------------------------------------------
\* The calls after a step of one of them.
LEMMA OneCall ==
    ASSUME NegotiationTypeOK, NEW c \in Calls, NEW q \in CallState, Become(c, q)
    PROVE  /\ call' \in [Calls -> CallState]
           /\ call'[c] = q
           /\ \A d \in Calls \ {c} : call'[d] = call[d]
BY DEF NegotiationTypeOK, Become

\* The records of the states of a call.
LEMMA CallShapes ==
    /\ Idle \in CallState /\ Idle.at = "idle"
    /\ \A at \in {"propose", "principle", "accept", "announce", "convert"} :
          [at |-> at] \in CallState /\ [at |-> at].at = at
    /\ \A by \in Creators :
          Creating(by) \in CallState /\ Creating(by).at = "create" /\ Creating(by).by = by
    /\ \A by \in Creators, terms \in Terms :
          LET q == Looking(by, terms) IN
              q \in CallState /\ q.at = "look" /\ q.by = by /\ q.terms = terms
BY DEF CallState, Creators, Idle, Creating, Looking

LEMMA WritingShapes ==
    ASSUME NEW by, NEW terms, NEW relationship \in Relationships, NEW thread,
           NEW existing \in Carts \cup {NoCart},
           \/ by \in Creators /\ terms \in Terms /\ thread = NoThread
           \/ by = "draft" /\ terms = DraftTerms /\ thread \in Threads
    PROVE  LET q == Writing(by, terms, relationship, thread, existing) IN
              /\ q \in CallState
              /\ q.at = "write" /\ q.by = by /\ q.terms = terms
              /\ q.relationship = relationship /\ q.thread = thread /\ q.existing = existing
BY DEF CallState, Writing

\* The fields a state has.
LEMMA CallFields ==
    ASSUME NEW q \in CallState
    PROVE  /\ q.at = "create" => q.by \in Creators
           /\ q.at = "look" => q.by \in Creators /\ q.terms \in Terms
           /\ q.at = "write" =>
                /\ q.relationship \in Relationships /\ q.thread \in Threads \cup {NoThread}
                /\ q.existing \in Carts \cup {NoCart} /\ q.terms \in Terms \cup {DraftTerms}
                /\ q.by \in Creators \cup {"draft"}
                /\ q.by # "draft" => q.terms \in Terms
           /\ HasRead(q) => q.terms \in Terms
BY DEF CallState, Creators, HasRead, WritingSteps

\* A step of one call that writes no cart and accepts nothing: what was underway goes on, with
\* the terms it has or those accepted, or is marked as lost.
LEMMA QuietStep ==
    ASSUME NegotiationInv, NEW c \in Calls, NEW q \in CallState, Become(c, q),
           UNCHANGED <<cart, taken, overlapped>>, lost' \in BOOLEAN, lost => lost',
           negotiation' \in [status : NegotiationStatus, accepted : Terms \cup {NoTerms}],
           negotiation'.accepted = negotiation.accepted,
           \/ negotiation.accepted # NoTerms
           \/ /\ negotiation'.status \notin {"ACCEPTED", "CONVERTED_TO_CART"}
              /\ q.at # "convert" /\ ~HasRead(q),
           FoundExists(q), LooksCurrent(q),
           Underway(c) => lost' \/ (q.at \in {"create", "look", "write"} /\ q.by = "promise"),
           HasRead(q) => \/ q.terms = negotiation.accepted
                         \/ HasRead(call[c]) /\ q.terms = call[c].terms
    PROVE  NegotiationInv'
<1>. USE DEF NegotiationInv
<1>1. /\ call' \in [Calls -> CallState]
      /\ call'[c] = q
      /\ \A d \in Calls \ {c} : call'[d] = call[d]
  BY OneCall
<1>2. NegotiationTypeOK'
  BY <1>1 DEF NegotiationTypeOK
<1>3. TermsGiven'
  BY <1>1 DEF TermsGiven, HasRead
<1>4. Rows' = Rows
  BY DEF Rows
<1>5. \A d \in Calls : FoundExists(call[d])'
  BY <1>1, <1>4 DEF FoundExists
<1>6. (overlapped \/ (OneRow /\ \A d \in Calls : LooksCurrent(call[d])))'
  BY <1>1, <1>4 DEF OneRow, LooksCurrent, SameSource
<1>7. Pending => lost' \/ Pending'
  <2>. SUFFICES ASSUME NEW d \in Calls, Brings(d, negotiation.accepted), ~lost' PROVE Pending'
    BY DEF Pending
  <2>1. CASE d # c
    BY <1>1, <2>1 DEF Pending, Brings, Underway, Promised
  <2>2. CASE d = c
    <3>1. q.at \in {"create", "look", "write"} /\ q.by = "promise"
      BY <2>2 DEF Brings
    <3>2. q.at \in WritingSteps => q.terms = negotiation.accepted
      BY <2>2, <3>1 DEF Brings, HasRead, WritingSteps
    <3> QED BY <1>1, <3>1, <3>2 DEF Pending, Brings, Underway, Promised, WritingSteps
  <2> QED BY <2>1, <2>2
<1>8. Kept => Kept'
  BY <1>1 DEF Kept, HasRead
<1> QED BY <1>2, <1>3, <1>5, <1>6, <1>7, <1>8

\* An acceptance has still everything to do.
LEMMA AcceptanceKept ==
    ASSUME NegotiationInv, NEW c \in Calls, AcceptWrite(c)
    PROVE  NegotiationInv'
<1>. USE DEF NegotiationInv
<1>1. /\ call' \in [Calls -> CallState]
      /\ call'[c].at = "announce"
      /\ \A d \in Calls \ {c} : call'[d] = call[d]
  BY OneCall, CallShapes DEF AcceptWrite
<1>2. /\ negotiation' \in [status : NegotiationStatus, accepted : Terms \cup {NoTerms}]
      /\ negotiation'.accepted # NoTerms
  BY TermsAssumption DEF AcceptWrite, NegotiationStatus
<1>3. NegotiationTypeOK' /\ TermsGiven'
  BY <1>1, <1>2 DEF AcceptWrite, NegotiationTypeOK, TermsGiven
<1>4. Rows' = Rows
  BY DEF Rows, AcceptWrite
<1>5. \A d \in Calls : FoundExists(call[d])'
  BY <1>1, <1>4 DEF FoundExists
<1>6. (overlapped \/ (OneRow /\ \A d \in Calls : LooksCurrent(call[d])))'
  BY <1>1, <1>4 DEF AcceptWrite, OneRow, LooksCurrent, SameSource
<1>7. Pending'
  BY <1>1 DEF Pending, Brings, Underway, WritingSteps
<1> QED BY <1>3, <1>5, <1>6, <1>7

\* A cart written by a call: the row is k, of the source of the call if it is new, and otherwise
\* of the source it had.
LEMMA RowWritten ==
    ASSUME NegotiationInv, NEW c \in Calls, call[c].at = "write", WriteCart(call[c])
    PROVE  \E k \in Carts :
              /\ cart' \in [Carts -> CartRow]
              /\ Rows' = Rows \cup {k}
              /\ cart'[k].terms = call[c].terms
              /\ \A j \in Carts \ {k} : cart'[j] = cart[j]
              /\ \/ /\ call[c].existing = NoCart /\ k \notin Rows
                    /\ cart'[k].relationship = call[c].relationship /\ cart'[k].thread = call[c].thread
                 \/ /\ call[c].existing = k /\ k \in Rows
                    /\ cart'[k].relationship = cart[k].relationship /\ cart'[k].thread = cart[k].thread
<1>. DEFINE q == call[c]
<1>1. /\ q.relationship \in Relationships /\ q.thread \in Threads \cup {NoThread}
      /\ q.terms \in Terms \cup {DraftTerms} /\ q.terms # NoTerms
      /\ q.existing = NoCart \/ q.existing \in Rows
  BY CallFields, TermsAssumption DEF NegotiationInv, NegotiationTypeOK, FoundExists
<1>2. cart \in [Carts -> CartRow] /\ NoRow.terms = NoTerms
  BY DEF NegotiationInv, NegotiationTypeOK, NoRow
<1>3. CASE q.existing = NoCart
  <2>1. NewRow \in Carts /\ NewRow \notin Rows /\ cart' = [cart EXCEPT ![NewRow] = Inserted(q)]
    BY <1>3 DEF WriteCart, NewRow, Rows
  <2>2. /\ Inserted(q) \in CartRow /\ Inserted(q) # NoRow
        /\ Inserted(q).relationship = q.relationship /\ Inserted(q).thread = q.thread
        /\ Inserted(q).terms = q.terms
    BY <1>1, <1>2 DEF Inserted, CartRow
  <2>. HIDE DEF q
  <2>3. /\ cart' \in [Carts -> CartRow] /\ cart'[NewRow] = Inserted(q)
        /\ \A j \in Carts \ {NewRow} : cart'[j] = cart[j]
    BY <1>2, <2>1, <2>2
  <2>4. Rows' = Rows \cup {NewRow}
    BY <2>1, <2>2, <2>3 DEF Rows
  <2> QED BY <1>3, <2>1, <2>2, <2>3, <2>4 DEF q
<1>4. CASE q.existing # NoCart
  <2>1. /\ q.existing \in Rows /\ q.existing \in Carts
        /\ cart' = [cart EXCEPT ![q.existing] = Refreshed(q)]
    BY <1>1, <1>4 DEF WriteCart, Rows
  <2>2. /\ Refreshed(q) \in CartRow /\ Refreshed(q) # NoRow /\ Refreshed(q).terms = q.terms
        /\ Refreshed(q).relationship = cart[q.existing].relationship
        /\ Refreshed(q).thread = cart[q.existing].thread
    BY <1>1, <1>2, <2>1 DEF Refreshed, CartRow
  <2>. DEFINE k == q.existing
  <2>. HIDE DEF q
  <2>3. /\ cart' \in [Carts -> CartRow] /\ cart'[k] = Refreshed(q)
        /\ \A j \in Carts \ {k} : cart'[j] = cart[j]
    BY <1>2, <2>1, <2>2
  <2>4. Rows' = Rows \cup {k}
    BY <2>1, <2>2, <2>3 DEF Rows
  <2> QED BY <2>1, <2>2, <2>3, <2>4 DEF q
<1> QED BY <1>3, <1>4

\* After the write of a cart, if it fell in no other call's readings: one cart of each source, and
\* no call that has found none is wrong.
LEMMA SourcesKept ==
    ASSUME NegotiationInv, NEW c \in Calls, call[c].at = "write", WriteCart(call[c]), Overlap(c),
           NEW q \in CallState, q.at \in {"idle", "convert"}, Become(c, q)
    PROVE  /\ cart' \in [Carts -> CartRow] /\ call' \in [Calls -> CallState] /\ overlapped' \in BOOLEAN
           /\ \A d \in Calls : FoundExists(call[d])'
           /\ (overlapped \/ (OneRow /\ \A d \in Calls : LooksCurrent(call[d])))'
<1>1. PICK k \in Carts :
         /\ cart' \in [Carts -> CartRow]
         /\ Rows' = Rows \cup {k}
         /\ \A j \in Carts \ {k} : cart'[j] = cart[j]
         /\ \/ /\ call[c].existing = NoCart /\ k \notin Rows
               /\ cart'[k].relationship = call[c].relationship /\ cart'[k].thread = call[c].thread
            \/ /\ k \in Rows
               /\ cart'[k].relationship = cart[k].relationship /\ cart'[k].thread = cart[k].thread
  BY RowWritten
<1>2. /\ call' \in [Calls -> CallState]
      /\ call'[c].at \in {"idle", "convert"}
      /\ \A d \in Calls \ {c} : call'[d] = call[d]
  BY OneCall DEF NegotiationInv
<1>3. overlapped' \in BOOLEAN
  BY DEF Overlap, NegotiationInv, NegotiationTypeOK
<1>4. \A d \in Calls : FoundExists(call[d])'
  BY <1>1, <1>2 DEF FoundExists, NegotiationInv
<1>5. ASSUME ~overlapped' PROVE OneRow' /\ \A d \in Calls : LooksCurrent(call[d])'
  <2>1. /\ OneRow /\ LooksCurrent(call[c])
        /\ \A d \in Calls \ {c} : call[d].at \notin WritingSteps
    BY <1>5 DEF Overlap, NegotiationInv
  <2>2. \A d \in Calls : LooksCurrent(call[d])'
    BY <1>2, <2>1 DEF LooksCurrent, WritingSteps
  <2>3. Rows \subseteq Carts
    BY DEF Rows
  <2>4. CASE k \in Rows
    <3>1. /\ Rows' = Rows
          /\ \A j \in Rows : cart'[j].relationship = cart[j].relationship /\ cart'[j].thread = cart[j].thread
      BY <1>1, <2>3, <2>4
    <3>2. OneRow'
      BY <2>1, <3>1 DEF OneRow, SameSource
    <3> QED BY <2>2, <3>2
  <2>5. CASE k \notin Rows
    <3>1. \A j \in Rows : ~SameSource(j, call[c].relationship, call[c].thread)
      BY <1>1, <2>1, <2>5 DEF LooksCurrent
    <3> QED BY <1>1, <2>1, <2>2, <2>3, <2>5, <3>1 DEF OneRow, SameSource
  <2> QED BY <2>2, <2>4, <2>5
<1> QED BY <1>1, <1>2, <1>3, <1>4, <1>5

\* A cart written by a creation.
LEMMA CartWritten ==
    ASSUME NegotiationInv, NEW c \in Calls, CreateWrite(c)
    PROVE  NegotiationInv'
<1>1. PICK q \in CallState :
         Become(c, q) /\ (q.at = "idle" \/ (q.at = "convert" /\ call[c].by = "request"))
  BY CallShapes DEF CreateWrite
<1>2. /\ cart' \in [Carts -> CartRow] /\ call' \in [Calls -> CallState] /\ overlapped' \in BOOLEAN
      /\ \A d \in Calls : FoundExists(call[d])'
      /\ (overlapped \/ (OneRow /\ \A d \in Calls : LooksCurrent(call[d])))'
  BY <1>1, SourcesKept DEF CreateWrite
<1>3. /\ call'[c] = q
      /\ \A d \in Calls \ {c} : call'[d] = call[d]
  BY <1>1, OneCall DEF NegotiationInv
<1>4. HasRead(call[c]) /\ call[c].at # "create" /\ call[c].at # "announce"
  BY DEF CreateWrite, HasRead, WritingSteps
<1>5. negotiation.accepted # NoTerms
  BY <1>4 DEF NegotiationInv, TermsGiven
<1>6. UNCHANGED <<negotiation, lost, taken>>
  BY DEF CreateWrite
<1>7. NegotiationTypeOK' /\ TermsGiven'
  BY <1>2, <1>5, <1>6 DEF NegotiationInv, NegotiationTypeOK, TermsGiven
<1>8. ASSUME ~lost', ~taken', ~overlapped'
      PROVE  Pending' \/ Kept'
  <2>1. ~overlapped /\ \A d \in Calls \ {c} : call[d].at \notin WritingSteps
    BY <1>8 DEF CreateWrite, Overlap
  <2>2. \A d \in Calls : ~HasRead(call'[d])
    BY <1>1, <1>3, <2>1 DEF HasRead, WritingSteps
  <2>3. ASSUME call[c].terms = negotiation.accepted
        PROVE  Kept'
    <3>1. \E k \in Carts : cart'[k].terms = call[c].terms
      BY RowWritten DEF CreateWrite
    <3> QED BY <1>6, <2>2, <2>3, <3>1 DEF Kept, HasRead
  <2>4. CASE Pending
    <3>1. PICK d \in Calls : Brings(d, negotiation.accepted)
      BY <2>4 DEF Pending
    <3>2. CASE d = c
      BY <1>4, <2>3, <3>1, <3>2 DEF Brings, HasRead
    <3>3. CASE d # c
      BY <1>3, <1>6, <3>1, <3>3 DEF Pending, Brings, Underway, Promised
    <3> QED BY <3>2, <3>3
  <2>5. CASE Kept
    BY <1>4, <2>3, <2>5 DEF Kept
  <2> QED BY <1>5, <1>6, <1>8, <2>1, <2>4, <2>5 DEF NegotiationInv
<1> QED BY <1>2, <1>7, <1>8 DEF NegotiationInv

\* A cart written by a draft: if it had the accepted terms, it is marked as taken.
LEMMA DraftWritten ==
    ASSUME NegotiationInv, NEW c \in Calls, DraftWrite(c)
    PROVE  NegotiationInv'
<1>1. Idle \in CallState /\ Idle.at = "idle" /\ Become(c, Idle)
  BY CallShapes DEF DraftWrite
<1>2. /\ cart' \in [Carts -> CartRow] /\ call' \in [Calls -> CallState] /\ overlapped' \in BOOLEAN
      /\ \A d \in Calls : FoundExists(call[d])'
      /\ (overlapped \/ (OneRow /\ \A d \in Calls : LooksCurrent(call[d])))'
  BY <1>1, SourcesKept DEF DraftWrite
<1>3. /\ call'[c] = Idle
      /\ \A d \in Calls \ {c} : call'[d] = call[d]
  BY <1>1, OneCall DEF NegotiationInv
<1>4. UNCHANGED <<negotiation, lost>> /\ taken' \in BOOLEAN
  BY DEF DraftWrite, NegotiationInv, NegotiationTypeOK
<1>5. NegotiationTypeOK'
  BY <1>2, <1>4 DEF NegotiationInv, NegotiationTypeOK
<1>6. TermsGiven'
  BY <1>1, <1>3, <1>4 DEF NegotiationInv, TermsGiven, HasRead, WritingSteps
<1>7. ASSUME ~lost', ~taken', ~overlapped', negotiation.accepted # NoTerms
      PROVE  Pending' \/ Kept'
  <2>1. ~taken /\ ~overlapped
    BY <1>7 DEF DraftWrite, Overlap
  <2>2. CASE Pending
    <3>1. PICK d \in Calls : Brings(d, negotiation.accepted)
      BY <2>2 DEF Pending
    <3>2. d # c
      BY <3>1 DEF DraftWrite, Brings, Underway, Promised
    <3> QED BY <1>3, <1>4, <3>1, <3>2 DEF Pending, Brings, Underway, Promised
  <2>3. CASE Kept
    <3>1. PICK j \in Carts : cart[j].terms = negotiation.accepted
      BY <2>3 DEF Kept
    <3>2. PICK k \in Carts :
             /\ \A i \in Carts \ {k} : cart'[i] = cart[i]
             /\ \/ call[c].existing = NoCart /\ k \notin Rows
                \/ call[c].existing = k /\ k \in Rows
      BY RowWritten DEF DraftWrite
    <3>3. j \in Rows
      BY <1>7, <3>1 DEF Rows, NoRow
    <3>4. j # k
      BY <1>7, <3>1, <3>2, <3>3, CartsAssumption DEF DraftWrite, Rows
    <3>5. cart'[j].terms = negotiation'.accepted
      BY <1>4, <3>1, <3>2, <3>4
    <3>6. \A d \in Calls : HasRead(call[d])' => call'[d].terms = negotiation'.accepted
      BY <1>1, <1>3, <1>4, <2>3 DEF Kept, HasRead, WritingSteps
    <3> QED BY <3>5, <3>6 DEF Kept
  <2> QED BY <1>4, <1>7, <2>1, <2>2, <2>3 DEF NegotiationInv
<1> QED BY <1>2, <1>4, <1>5, <1>6, <1>7 DEF NegotiationInv

\* The process ends: what an acceptance had still to do is marked as lost.
LEMMA ProcessEnded ==
    ASSUME NegotiationInv, Restart
    PROVE  NegotiationInv'
<1>. USE DEF NegotiationInv, Restart
<1>1. call' \in [Calls -> CallState] /\ \A c \in Calls : call'[c].at = "idle"
  BY CallShapes
<1>2. NegotiationTypeOK'
  BY <1>1 DEF NegotiationTypeOK
<1>3. TermsGiven'
  BY <1>1 DEF TermsGiven, HasRead, WritingSteps
<1>4. \A c \in Calls : FoundExists(call[c])' /\ LooksCurrent(call[c])'
  BY <1>1 DEF FoundExists, LooksCurrent
<1>5. OneRow => OneRow'
  BY DEF OneRow, SameSource, Rows
<1>6. Pending => lost'
  BY DEF Pending, Brings
<1>7. Kept => Kept'
  BY <1>1 DEF Kept, HasRead, WritingSteps
<1> QED BY <1>2, <1>3, <1>4, <1>5, <1>6, <1>7

LEMMA NegotiationInductive ==
    /\ Init => NegotiationInv
    /\ NegotiationInv /\ [Next]_negotiationVars => NegotiationInv'
<1>1. Init => NegotiationInv
  <2>. SUFFICES ASSUME Init PROVE NegotiationInv
    OBVIOUS
  <2>1. Rows = {} /\ \A c \in Calls : call[c].at = "idle" /\ call[c] \in CallState
    BY CallShapes DEF Init, Rows
  <2>2. NegotiationTypeOK
    BY <2>1 DEF Init, NegotiationTypeOK, NegotiationStatus, CartRow, NoRow
  <2>3. negotiation.accepted = NoTerms /\ TermsGiven
    BY <2>1 DEF Init, TermsGiven, HasRead, WritingSteps
  <2>4. OneRow /\ \A c \in Calls : FoundExists(call[c]) /\ LooksCurrent(call[c])
    BY <2>1 DEF OneRow, FoundExists, LooksCurrent
  <2> QED BY <2>2, <2>3, <2>4 DEF NegotiationInv
<1>2. ASSUME NegotiationInv, [Next]_negotiationVars
      PROVE  NegotiationInv'
  <2>. USE <1>2
  <2>0. NegotiationTypeOK /\ TermsGiven
    BY DEF NegotiationInv
  <2>1. ASSUME NEW c \in Calls, NEW q \in CallState, Become(c, q),
               q.at \in {"idle", "propose", "principle", "accept", "create"},
               ~Underway(c) \/ lost' \/ (q.at = "create" /\ q.by = "promise"),
               UNCHANGED <<cart, taken, overlapped>>, lost' \in BOOLEAN, lost => lost',
               negotiation' \in [status : NegotiationStatus, accepted : Terms \cup {NoTerms}],
               negotiation'.accepted = negotiation.accepted,
               negotiation'.status \in {negotiation.status, "PROPOSED"}
        PROVE  NegotiationInv'
    BY <2>0, <2>1, QuietStep DEF HasRead, WritingSteps, FoundExists, LooksCurrent, TermsGiven
  <2>2. ASSUME NEW c \in Calls, ProposeRead(c) \/ AcceptRead(c) \/ Convert(c)
        PROVE  NegotiationInv'
    <3>1. PICK q \in CallState : Become(c, q) /\ q.at \in {"propose", "principle", "accept", "create"}
      BY <2>2, CallShapes DEF ProposeRead, AcceptRead, Convert, Creators
    <3>2. ~Underway(c)
      BY <2>2, CallShapes DEF ProposeRead, AcceptRead, Convert, Underway, Promised, WritingSteps
    <3>3. UNCHANGED <<negotiation, cart, lost, taken, overlapped>>
      BY <2>2 DEF ProposeRead, AcceptRead, Convert
    <3> QED BY <2>0, <2>1, <3>1, <3>2, <3>3 DEF NegotiationTypeOK
  <2>3. ASSUME NEW c \in Calls, ProposeWrite(c) \/ AgreeInPrinciple(c)
        PROVE  NegotiationInv'
    <3>1. ~Underway(c) /\ Become(c, Idle) /\ UNCHANGED <<cart, lost, taken, overlapped>>
      BY <2>3 DEF ProposeWrite, AgreeInPrinciple, Underway, Promised, WritingSteps
    <3>2. /\ negotiation' \in [status : NegotiationStatus, accepted : Terms \cup {NoTerms}]
          /\ negotiation'.accepted = negotiation.accepted /\ negotiation'.status = "PROPOSED"
      BY <2>0, <2>3 DEF ProposeWrite, AgreeInPrinciple, NegotiationTypeOK, NegotiationStatus
    <3> QED BY <2>0, <2>1, <3>1, <3>2, CallShapes DEF NegotiationTypeOK
  <2>4. ASSUME NEW c \in Calls, AcceptWrite(c)
        PROVE  NegotiationInv'
    BY <2>4, AcceptanceKept
  <2>5. ASSUME NEW c \in Calls, Announce(c)
        PROVE  NegotiationInv'
    <3>1. PICK q \in CallState : Become(c, q) /\ q.at = "create" /\ q.by = "promise"
      BY <2>5, CallShapes DEF Announce, Creators
    <3>2. UNCHANGED <<negotiation, cart, lost, taken, overlapped>>
      BY <2>5 DEF Announce
    <3> QED BY <2>0, <2>1, <3>1, <3>2 DEF NegotiationTypeOK
  <2>6. ASSUME NEW c \in Calls, CreateRead(c)
        PROVE  NegotiationInv'
    <3>1. negotiation.accepted \in Terms /\ negotiation.accepted # NoTerms
      BY <2>0, <2>6 DEF CreateRead, TermsGiven, NegotiationTypeOK
    <3>2. call[c].at = "create" /\ call[c].by \in Creators
      BY <2>0, <2>6, CallFields DEF CreateRead, NegotiationTypeOK
    <3>3. PICK q \in CallState :
             /\ Become(c, q) /\ q.at = "look" /\ q.by = call[c].by /\ q.terms = negotiation.accepted
      BY <2>6, <3>1, <3>2, CallShapes DEF CreateRead
    <3>4. UNCHANGED <<negotiation, cart, lost, taken, overlapped>>
      BY <2>6 DEF CreateRead
    <3>5. Underway(c) => q.by = "promise"
      BY <3>2, <3>3 DEF Underway, Promised
    <3>6. FoundExists(q) /\ LooksCurrent(q)
      BY <3>3 DEF FoundExists, LooksCurrent
    <3> QED BY <2>0, <3>1, <3>3, <3>4, <3>5, <3>6, QuietStep DEF NegotiationTypeOK
  <2>7. ASSUME NEW c \in Calls, CreateLook(c)
        PROVE  NegotiationInv'
    <3>1. /\ call[c].at = "look" /\ call[c].by \in Creators /\ call[c].terms \in Terms
          /\ HasRead(call[c])
      BY <2>0, <2>7, CallFields DEF CreateLook, NegotiationTypeOK, HasRead, WritingSteps, Creators
    <3>2. PICK relationship \in Relationships : \E existing \in Existing(relationship) :
              Become(c, Writing(call[c].by, call[c].terms, relationship, NoThread, existing))
      BY <2>7 DEF CreateLook
    <3>3. PICK existing \in Existing(relationship) :
              Become(c, Writing(call[c].by, call[c].terms, relationship, NoThread, existing))
      BY <3>2
    <3>4. /\ existing \in Carts \cup {NoCart}
          /\ existing = NoCart \/ existing \in Rows
          /\ existing = NoCart => \A k \in Rows : cart[k].relationship # relationship
      BY <3>3, CartsAssumption DEF Existing, FirstOf, Rows
    <3>5. PICK q \in CallState :
             /\ Become(c, q) /\ q.at = "write" /\ q.by = call[c].by /\ q.terms = call[c].terms
             /\ q.relationship = relationship /\ q.thread = NoThread /\ q.existing = existing
      BY <3>1, <3>3, <3>4, WritingShapes
    <3>6. FoundExists(q) /\ LooksCurrent(q)
      BY <3>4, <3>5 DEF FoundExists, LooksCurrent, SameSource
    <3>7. UNCHANGED <<negotiation, cart, lost, taken, overlapped>>
      BY <2>7 DEF CreateLook
    <3>8. negotiation.accepted # NoTerms
      BY <2>0, <3>1 DEF TermsGiven
    <3>9. Underway(c) => q.by = "promise"
      BY <3>1, <3>5 DEF Underway, Promised
    <3> QED BY <2>0, <3>1, <3>5, <3>6, <3>7, <3>8, <3>9, QuietStep DEF NegotiationTypeOK
  <2>8. ASSUME NEW c \in Calls, CreateWrite(c)
        PROVE  NegotiationInv'
    BY <2>8, CartWritten
  <2>9. ASSUME NEW c \in Calls, MarkConverted(c)
        PROVE  NegotiationInv'
    <3>1. negotiation.accepted # NoTerms
      BY <2>0, <2>9 DEF MarkConverted, TermsGiven
    <3>2. /\ negotiation' \in [status : NegotiationStatus, accepted : Terms \cup {NoTerms}]
          /\ negotiation'.accepted = negotiation.accepted
          /\ Become(c, Idle) /\ ~Underway(c) /\ UNCHANGED <<cart, lost, taken, overlapped>>
      BY <2>0, <2>9
      DEF MarkConverted, NegotiationTypeOK, NegotiationStatus, Underway, Promised, WritingSteps
    <3>3. Idle \in CallState /\ FoundExists(Idle) /\ LooksCurrent(Idle) /\ ~HasRead(Idle)
      BY CallShapes DEF FoundExists, LooksCurrent, HasRead, WritingSteps
    <3> QED BY <2>0, <3>1, <3>2, <3>3, QuietStep DEF NegotiationTypeOK
  <2>10. ASSUME NEW c \in Calls, DraftLook(c)
         PROVE  NegotiationInv'
    <3>1. PICK thread \in Threads, relationship \in Relationships :
              \E existing \in DraftExisting(thread, relationship) :
                  Become(c, Writing("draft", DraftTerms, relationship, thread, existing))
      BY <2>10 DEF DraftLook
    <3>2. PICK existing \in DraftExisting(thread, relationship) :
              Become(c, Writing("draft", DraftTerms, relationship, thread, existing))
      BY <3>1
    <3>3. /\ existing \in Carts \cup {NoCart}
          /\ existing = NoCart \/ existing \in Rows
          /\ existing = NoCart => \A k \in Rows : ~SameSource(k, relationship, thread)
      BY <3>2, CartsAssumption DEF DraftExisting, FirstOf, Rows, SameSource
    <3>4. PICK q \in CallState :
             /\ Become(c, q) /\ q.at = "write" /\ q.by = "draft"
             /\ q.relationship = relationship /\ q.thread = thread /\ q.existing = existing
      BY <3>2, <3>3, WritingShapes
    <3>5. FoundExists(q) /\ LooksCurrent(q) /\ ~HasRead(q)
      BY <3>3, <3>4 DEF FoundExists, LooksCurrent, HasRead
    <3>6. ~Underway(c) /\ UNCHANGED <<negotiation, cart, lost, taken, overlapped>>
      BY <2>10, CallShapes DEF DraftLook, Underway, Promised, WritingSteps
    <3> QED BY <2>0, <3>4, <3>5, <3>6, QuietStep DEF NegotiationTypeOK, TermsGiven
  <2>11. ASSUME NEW c \in Calls, DraftWrite(c)
         PROVE  NegotiationInv'
    BY <2>11, DraftWritten
  <2>12. ASSUME NEW c \in Calls, Fail(c)
         PROVE  NegotiationInv'
    <3>1. /\ Become(c, Idle) /\ UNCHANGED <<negotiation, cart, taken, overlapped>>
          /\ lost' \in BOOLEAN /\ (lost => lost') /\ (~Underway(c) \/ lost')
      BY <2>0, <2>12 DEF Fail, NegotiationTypeOK, Underway
    <3> QED BY <2>0, <2>1, <3>1, CallShapes DEF NegotiationTypeOK
  <2>13. CASE Reject
    <3>1. NegotiationTypeOK' /\ TermsGiven'
      BY <2>0, <2>13 DEF Reject, NegotiationTypeOK, NegotiationStatus, TermsGiven
    <3>2. UNCHANGED <<cart, call, lost, taken, overlapped>> /\ negotiation'.accepted = negotiation.accepted
      BY <2>0, <2>13 DEF Reject, NegotiationTypeOK
    <3> QED
      BY <3>1, <3>2
      DEF NegotiationInv, FoundExists, OneRow, LooksCurrent, SameSource, Rows,
          Pending, Brings, Underway, Promised, Kept
  <2>14. CASE UNCHANGED negotiationVars
    BY <2>14
    DEF negotiationVars, NegotiationInv, NegotiationTypeOK, TermsGiven, FoundExists, OneRow,
        LooksCurrent, SameSource, Rows, Pending, Brings, Underway, Promised, Kept
  <2>15. ASSUME NEW c \in Calls, PromiseRefused(c)
         PROVE  NegotiationInv'
    BY <2>15, ProcessEnded DEF PromiseRefused
  <2>16. CASE Restart
    BY <2>16, ProcessEnded
  <2> QED
    BY <2>2, <2>3, <2>4, <2>5, <2>6, <2>7, <2>8, <2>9, <2>10, <2>11, <2>12, <2>13, <2>14, <2>15, <2>16
    DEF Next
<1> QED BY <1>1, <1>2

\* Once no acceptance, creation or draft is on its way, an accepted or converted negotiation has
\* a cart with the terms accepted last, unless the acceptance's creation was lost, a draft has
\* overwritten the cart, or a cart was written between the readings and the write of another: for
\* any terms, relationships, threads, carts and calls.
THEOREM AcceptedHasCart == Spec => []CartFollowsAcceptance
<1>1. NegotiationInv => CartFollowsAcceptance
  <2>. SUFFICES ASSUME NegotiationInv, Settled, ~lost, ~taken, ~overlapped,
                       negotiation.status \in {"ACCEPTED", "CONVERTED_TO_CART"}
                PROVE  \E k \in Carts : cart[k].terms = negotiation.accepted
    BY DEF CartFollowsAcceptance
  <2>1. negotiation.accepted # NoTerms
    BY DEF NegotiationInv, TermsGiven
  <2>2. ~Pending
    BY DEF Settled, Pending, Brings, Underway, Promised
  <2> QED BY <2>1, <2>2 DEF NegotiationInv, Kept
<1>2. Init => NegotiationInv
  BY NegotiationInductive
<1>3. NegotiationInv /\ [Next]_negotiationVars => NegotiationInv'
  BY NegotiationInductive
<1> QED BY <1>1, <1>2, <1>3, PTL DEF Spec

\* A negotiation has, in each relationship, one cart made by its creations and one made by the
\* drafts of each thread, unless a cart was written between the readings and the write of
\* another: for any terms, relationships, threads, carts and calls.
THEOREM OneCartOfEachSource == Spec => []OneCartPerSource
<1>1. NegotiationInv => OneCartPerSource
  BY DEF NegotiationInv, OneCartPerSource, OneRow, SameSource
<1>2. Init => NegotiationInv
  BY NegotiationInductive
<1>3. NegotiationInv /\ [Next]_negotiationVars => NegotiationInv'
  BY NegotiationInductive
<1> QED BY <1>1, <1>2, <1>3, PTL DEF Spec

=============================================================================
