------------------------- MODULE RelationalCartProofs -------------------------
(***************************************************************************)
(* Theorems about RelationalCart, for any number of carts, orders,         *)
(* products and overlapping requests, with and without crashes, and        *)
(* whatever order.create's nested connect does.  The last part is about     *)
(* carts that are each served by one request at a time.                     *)
(***************************************************************************)
EXTENDS CartAttestation, SequenceTheorems, WellFoundedInduction, TLAPS

-----------------------------------------------------------------------------
\* What a pending request holds, by its operation.
LEMMA RequestByOp ==
    ASSUME NEW q \in Request \cup {Idle}
    PROVE  /\ q.op \in {"review", "lock", "expire", "reject"} => q \in PlainRequest
           /\ q.op = "confirm" => q \in ConfirmRequest
           /\ q.op = "convert" => q \in ConvertRequest
           /\ q.op = "insert" => q \in InsertRequest
           /\ q.op = "refresh" => q \in RefreshRequest
           /\ q.op = "catalogLine" => q \in LineRequest
           /\ q.op = "catalogCart" => q \in TouchRequest
  BY DEF Request, Idle, PlainRequest, ConfirmRequest, ConvertRequest, InsertRequest,
         RefreshRequest, LineRequest, TouchRequest

\* A handler's read half leaves the database alone.
LEMMA BeginHolds ==
    ASSUME NEW r \in Requests, BeginStep(r)
    PROVE  UNCHANGED <<carts, items, orders, conflicts>>
  BY DEF BeginStep, BeginReview, BeginConfirm, BeginLock, BeginExpire, BeginReject,
         BeginConvert, BeginCatalog, BeginMaterialize, Hold

\* The value a confirmation writes is that side's status or both sides'.
LEMMA ConfirmStatusType ==
    ASSUME NEW row, NEW side \in Sides
    PROVE  /\ ConfirmStatus(row, side) \in {ConfirmedBy(side), BOTH}
           /\ ConfirmStatus(row, side) \in Confirmed
  BY DEF ConfirmStatus, Confirmed, ConfirmedBy, BOTH, Sides

\* A set of naturals that is not empty has a smallest element.
LEMMA SmallestOfNat ==
    ASSUME NEW S, S \subseteq Nat, S # {}
    PROVE  \E i \in S : \A j \in S : i <= j
  <1> DEFINE R == OpToRel(<, Nat)
  <1>1. \E i \in S : \A j \in S : ~ (<<j, i>> \in R)
    BY NatLessThanWellFounded, WFMin, Zenon
  <1>2. \A i, j \in Nat : <<j, i>> \in R <=> j < i
    BY DEF OpToRel
  <1>3. PICK i \in S : \A j \in S : ~ (<<j, i>> \in R)
    BY <1>1
  <1>4. \A j \in S : ~ (j < i)
    BY <1>2, <1>3, Zenon
  <1> QED
    BY <1>4

\* The matching line is a line of the cart, or there is none.
LEMMA MatchLineType ==
    ASSUME TypeOK, NEW c \in Carts, NEW p
    PROVE  MatchLine(c, p) \in {0} \cup DOMAIN items[c]
  <1> DEFINE matching == {i \in DOMAIN items[c] : items[c][i].product = p}
  <1>1. CASE matching = {}
    BY <1>1 DEF MatchLine
  <1>2. CASE matching # {}
    <2>1. items[c] \in Seq(Line)
      BY DEF TypeOK
    <2>2. matching \subseteq Nat
      BY <2>1, LenProperties
    <2>3. \E i \in matching : \A j \in matching : i <= j
      BY <1>2, <2>2, SmallestOfNat
    <2>4. MatchLine(c, p) = CHOOSE i \in matching : \A j \in matching : i <= j
      BY <1>2 DEF MatchLine
    <2> QED
      BY <2>3, <2>4
  <1> QED
    BY <1>1, <1>2

-----------------------------------------------------------------------------
\* Types.

\* Fields written by the commits keep a row a row.
LEMMA RowType ==
    ASSUME NEW row \in CartRow
    PROVE  /\ \A st \in Status : [row EXCEPT !.status = st] \in CartRow
           /\ \A st \in Status, b \in BOOLEAN :
                 [row EXCEPT !.status = st, !.convertible = b] \in CartRow
           /\ \A st \in Status, sides \in SUBSET Sides :
                 [row EXCEPT !.status = st, !.confirmed = sides] \in CartRow
           /\ ConfirmationReset(row) \in CartRow
           /\ \A st \in Status, o \in Orders :
                 [row EXCEPT !.status = st, !.order = o] \in CartRow
  <1>1. "READY_FOR_REVIEW" \in Status
    BY DEF Status, Mergeable, Preparation
  <1> QED
    BY <1>1 DEF CartRow, ConfirmationReset

\* Holding a well-formed snapshot keeps the types.
LEMMA HoldType ==
    ASSUME TypeOK, NEW r \in Requests, NEW q \in Request, Hold(r, q)
    PROVE  TypeOK'
  BY DEF TypeOK, Hold

\* Writing a well-formed row keeps the types.
LEMMA WriteType ==
    ASSUME TypeOK, NEW r \in Requests, NEW row \in CartRow, Write(r, row)
    PROVE  /\ carts' \in [Carts -> CartRow]
           /\ (orders \subseteq OrderRow)'
           /\ (conflicts \subseteq Carts)'
           /\ (req \in [Requests -> Request \cup {Idle}])'
  BY DEF TypeOK, Write

\* Every read half keeps the types.
LEMMA BeginType ==
    ASSUME TypeOK, NEW r \in Requests, BeginStep(r)
    PROVE  TypeOK'
  <1>1. ASSUME NEW c \in Carts, BeginReview(r, c)
        PROVE  TypeOK'
    <2>1. [op |-> "review", cart |-> c] \in Request
      BY DEF Request, PlainRequest
    <2> QED
      BY <1>1, <2>1, HoldType DEF BeginReview
  <1>2. ASSUME NEW c \in Carts, NEW side \in Sides, BeginConfirm(r, c, side)
        PROVE  TypeOK'
    <2>1. [op |-> "confirm", cart |-> c, side |-> side, next |-> ConfirmStatus(carts[c], side)]
             \in ConfirmRequest
      BY ConfirmStatusType DEF ConfirmRequest
    <2> QED
      BY <1>2, <2>1, HoldType DEF BeginConfirm, Request
  <1>3. ASSUME NEW c \in Carts, BeginLock(r, c)
        PROVE  TypeOK'
    <2>1. [op |-> "lock", cart |-> c] \in Request
      BY DEF Request, PlainRequest
    <2> QED
      BY <1>3, <2>1, HoldType DEF BeginLock
  <1>4. ASSUME NEW c \in Carts, BeginExpire(r, c)
        PROVE  TypeOK'
    <2>1. [op |-> "expire", cart |-> c] \in Request
      BY DEF Request, PlainRequest
    <2> QED
      BY <1>4, <2>1, HoldType DEF BeginExpire
  <1>5. ASSUME NEW c \in Carts, BeginReject(r, c)
        PROVE  TypeOK'
    <2>1. [op |-> "reject", cart |-> c] \in Request
      BY DEF Request, PlainRequest
    <2> QED
      BY <1>5, <2>1, HoldType DEF BeginReject
  <1>6. ASSUME NEW c \in Carts, BeginConvert(r, c)
        PROVE  TypeOK'
    <2>1. [op |-> "convert", cart |-> c, priced |-> items[c]] \in ConvertRequest
      BY DEF ConvertRequest, TypeOK
    <2> QED
      BY <1>6, <2>1, HoldType DEF BeginConvert, Request
  <1>7. ASSUME NEW p \in Products, NEW valid \in BOOLEAN, BeginCatalog(r, p, valid)
        PROVE  TypeOK'
    <2>1. CASE Hold(r, [op |-> "insert", origin |-> "manual",
                        line |-> [product |-> p, qty |-> 1, valid |-> valid]])
      <3>1. [product |-> p, qty |-> 1, valid |-> valid] \in Line
        BY CartAssumption DEF Line
      <3>2. [op |-> "insert", origin |-> "manual",
             line |-> [product |-> p, qty |-> 1, valid |-> valid]] \in InsertRequest
        BY <3>1 DEF InsertRequest, Origin
      <3> QED
        BY <2>1, <3>2, HoldType DEF Request
    <2>2. ASSUME NEW c \in MergeTargets, NEW at, NEW qty,
                 at = MatchLine(c, p), qty = AddedQty(items[c], at), qty <= MaxQty,
                 Hold(r, [op |-> "catalogLine", cart |-> c, at |-> at,
                          reset |-> NeedsReset(carts[c]),
                          line |-> [product |-> p, qty |-> qty, valid |-> valid]])
          PROVE  TypeOK'
      <3>1. c \in Carts /\ items[c] \in Seq(Line)
        BY DEF MergeTargets, TypeOK
      <3>2. at \in {0} \cup 1..Len(items[c])
        BY <2>2, <3>1, MatchLineType, LenProperties
      <3>3. qty \in 1..MaxQty
        <4>1. CASE at = 0
          BY <2>2, <4>1, CartAssumption DEF AddedQty
        <4>2. CASE at \in 1..Len(items[c])
          <5>1. items[c][at] \in Line
            BY <3>1, <4>2, ElementOfSeq
          <5> QED
            BY <2>2, <4>2, <5>1, CartAssumption DEF AddedQty, Line
        <4> QED
          BY <3>2, <4>1, <4>2
      <3>4. at \in Nat
        BY <3>1, <3>2, LenProperties
      <3>5. NeedsReset(carts[c]) \in BOOLEAN
        BY DEF NeedsReset
      <3>6. [product |-> p, qty |-> qty, valid |-> valid] \in Line
        BY <3>3 DEF Line
      <3>7. [op |-> "catalogLine", cart |-> c, at |-> at, reset |-> NeedsReset(carts[c]),
             line |-> [product |-> p, qty |-> qty, valid |-> valid]] \in LineRequest
        BY <3>1, <3>4, <3>5, <3>6 DEF LineRequest
      <3> QED
        BY <2>2, <3>7, HoldType DEF Request
    <2> QED
      BY <1>7, <2>1, <2>2 DEF BeginCatalog
  <1>8. ASSUME NEW p \in Products, NEW valid \in BOOLEAN, NEW origin \in {"negotiation", "draft"},
               BeginMaterialize(r, origin, [product |-> p, qty |-> 1, valid |-> valid])
        PROVE  TypeOK'
    <2> DEFINE line == [product |-> p, qty |-> 1, valid |-> valid]
    <2>1. line \in Line
      BY CartAssumption DEF Line
    <2>2. [op |-> "insert", origin |-> origin, line |-> line] \in Request
      BY <2>1 DEF Request, InsertRequest, Origin
    <2>3. ASSUME NEW c \in FoundFor(origin)
          PROVE  [op |-> "refresh", cart |-> c, reset |-> NeedsReset(carts[c]), line |-> line]
                    \in Request
      <3>1. c \in Carts
        BY DEF FoundFor
      <3>2. NeedsReset(carts[c]) \in BOOLEAN
        BY DEF NeedsReset
      <3>3. [op |-> "refresh", cart |-> c, reset |-> NeedsReset(carts[c]), line |-> line]
               \in RefreshRequest
        BY <2>1, <3>1, <3>2 DEF RefreshRequest
      <3> QED
        BY <3>3 DEF Request
    <2> HIDE DEF line
    <2>4. \/ Hold(r, [op |-> "insert", origin |-> origin, line |-> line])
          \/ \E c \in FoundFor(origin) :
                Hold(r, [op |-> "refresh", cart |-> c, reset |-> NeedsReset(carts[c]),
                         line |-> line])
      BY <1>8 DEF BeginMaterialize, line
    <2> QED
      BY <2>2, <2>3, <2>4, HoldType
  <1> QED
    BY <1>1, <1>2, <1>3, <1>4, <1>5, <1>6, <1>7, <1>8 DEF BeginStep

\* The request a write half serves names a row.
LEMMA PendingType ==
    ASSUME TypeOK, NEW r \in Requests
    PROVE  req[r].op \notin {"idle", "insert"} => /\ req[r].cart \in Carts
                                                  /\ carts[req[r].cart] \in CartRow
                                                  /\ items[req[r].cart] \in Seq(Line)
  <1>1. req[r] \in Request \cup {Idle}
    BY DEF TypeOK
  <1>2. req[r].op \notin {"idle", "insert"} => req[r].cart \in Carts
    BY <1>1 DEF Request, Idle, PlainRequest, ConfirmRequest, ConvertRequest, InsertRequest,
           RefreshRequest, LineRequest, TouchRequest
  <1> QED
    BY <1>2 DEF TypeOK

\* Every write half keeps the types.
LEMMA CommitType ==
    ASSUME TypeOK, NEW r \in Requests, CommitStep(r)
    PROVE  TypeOK'
  <1> DEFINE c == req[r].cart
             row == carts[c]
  <1>1. req[r] \in Request \cup {Idle}
    BY DEF TypeOK
  <1>2. {"READY_FOR_REVIEW", "LOCKED_FOR_ORDER", "EXPIRED", "REJECTED", "DRAFT",
         "CONVERTED_TO_ORDER"} \cup Confirmed \subseteq Status
    BY DEF Status, Mergeable, Preparation
  <1>3. CASE CommitReview(r)
    <2>1. req[r].op = "review" /\ Write(r, [row EXCEPT !.status = "READY_FOR_REVIEW"])
      BY <1>3 DEF CommitReview
    <2>2. [row EXCEPT !.status = "READY_FOR_REVIEW"] \in CartRow
      BY <2>1, <1>2, PendingType, RowType
    <2> QED
      BY <1>3, <2>1, <2>2, WriteType DEF CommitReview, TypeOK
  <1>4. CASE CommitConfirm(r)
    <2>1. req[r].op = "confirm"
      BY <1>4 DEF CommitConfirm
    <2>2. req[r].next \in Confirmed /\ req[r].side \in Sides
      BY <1>1, <2>1, RequestByOp DEF ConfirmRequest
    <2>3. row \in CartRow /\ row.confirmed \in SUBSET Sides
      BY <2>1, PendingType DEF CartRow
    <2>4. [row EXCEPT !.status = req[r].next, !.confirmed = row.confirmed \cup {req[r].side}] \in CartRow
      BY <1>2, <2>2, <2>3, RowType
    <2>5. Write(r, [row EXCEPT !.status = req[r].next, !.confirmed = row.confirmed \cup {req[r].side}])
      BY <1>4 DEF CommitConfirm
    <2> QED
      BY <1>4, <2>4, <2>5, WriteType DEF CommitConfirm, TypeOK
  <1>5. CASE CommitLock(r)
    <2>1. req[r].op = "lock" /\ Write(r, [row EXCEPT !.status = "LOCKED_FOR_ORDER"])
      BY <1>5 DEF CommitLock
    <2>2. [row EXCEPT !.status = "LOCKED_FOR_ORDER"] \in CartRow
      BY <2>1, <1>2, PendingType, RowType
    <2> QED
      BY <1>5, <2>1, <2>2, WriteType DEF CommitLock, TypeOK
  <1>6. CASE CommitExpire(r)
    <2>1. req[r].op = "expire" /\ Write(r, [row EXCEPT !.status = "EXPIRED"])
      BY <1>6 DEF CommitExpire
    <2>2. [row EXCEPT !.status = "EXPIRED"] \in CartRow
      BY <2>1, <1>2, PendingType, RowType
    <2> QED
      BY <1>6, <2>1, <2>2, WriteType DEF CommitExpire, TypeOK
  <1>7. CASE CommitReject(r)
    <2>1. req[r].op = "reject" /\ Write(r, [row EXCEPT !.status = "REJECTED", !.convertible = FALSE])
      BY <1>7 DEF CommitReject
    <2>2. [row EXCEPT !.status = "REJECTED", !.convertible = FALSE] \in CartRow
      BY <2>1, <1>2, PendingType, RowType
    <2> QED
      BY <1>7, <2>1, <2>2, WriteType DEF CommitReject, TypeOK
  <1>8. CASE CommitRefresh(r)
    <2> DEFINE kept == IF req[r].reset THEN ConfirmationReset(row) ELSE row
               new == [kept EXCEPT !.status = "READY_FOR_REVIEW", !.convertible = TRUE]
    <2>1. req[r].op = "refresh" /\ req[r].line \in Line /\ c \in Carts /\ row \in CartRow
      BY <1>1, <1>8, RequestByOp, PendingType DEF CommitRefresh, RefreshRequest
    <2>2. kept \in CartRow
      BY <2>1, RowType
    <2> HIDE DEF kept
    <2>3. new \in CartRow
      BY <2>2, <1>2, RowType
    <2>4. Write(r, new)
      BY <1>8 DEF CommitRefresh, kept
    <2>5. <<req[r].line>> \in Seq(Line)
      BY <2>1
    <2>6. (items \in [Carts -> Seq(Line)])'
      BY <1>8, <2>1, <2>5 DEF CommitRefresh, TypeOK
    <2> HIDE DEF new
    <2> QED
      BY <2>3, <2>4, <2>6, WriteType DEF TypeOK
  <1>9. CASE CommitInsert(r)
    <2>1. req[r].origin \in Origin /\ req[r].line \in Line
      BY <1>1, <1>9, RequestByOp DEF CommitInsert, InsertRequest
    <2>2. [origin |-> req[r].origin,
           status |-> IF req[r].origin = "manual" THEN "DRAFT" ELSE "READY_FOR_REVIEW",
           confirmed |-> {}, convertible |-> TRUE, order |-> NoOrder] \in CartRow
      BY <1>2, <2>1 DEF CartRow
    <2>3. <<req[r].line>> \in Seq(Line)
      BY <2>1
    <2>4. (carts \in [Carts -> CartRow])' /\ (items \in [Carts -> Seq(Line)])'
      BY <1>9, <2>2, <2>3 DEF CommitInsert, TypeOK
    <2> QED
      BY <1>9, <2>4 DEF CommitInsert, TypeOK
  <1>10. CASE CommitCatalogLine(r)
    <2>1. /\ req[r].op = "catalogLine" /\ req[r].line \in Line /\ req[r].reset \in BOOLEAN
          /\ c \in Carts /\ items[c] \in Seq(Line)
      BY <1>1, <1>10, RequestByOp, PendingType DEF CommitCatalogLine, LineRequest
    <2>2. [op |-> "catalogCart", cart |-> c, reset |-> req[r].reset, created |-> req[r].at = 0]
             \in TouchRequest
      BY <2>1 DEF TouchRequest
    <2>3. Append(items[c], req[r].line) \in Seq(Line)
      BY <2>1, AppendProperties
    <2>4. req[r].at \in DOMAIN items[c] => [items[c] EXCEPT ![req[r].at] = req[r].line] \in Seq(Line)
      BY <2>1, ExceptSeq, LenProperties
    <2>5. \/ items' = [items EXCEPT ![c] = Append(items[c], req[r].line)]
          \/ req[r].at \in DOMAIN items[c]
             /\ items' = [items EXCEPT ![c] = [items[c] EXCEPT ![req[r].at] = req[r].line]]
      BY <1>10 DEF CommitCatalogLine
    <2>6. (items \in [Carts -> Seq(Line)])'
      BY <2>1, <2>3, <2>4, <2>5 DEF TypeOK
    <2>7. (req \in [Requests -> Request \cup {Idle}])'
      BY <1>10, <2>2 DEF CommitCatalogLine, TypeOK, Request
    <2> QED
      BY <1>10, <2>6, <2>7 DEF CommitCatalogLine, TypeOK
  <1>11. CASE CommitCatalogCart(r)
    <2> DEFINE new == IF req[r].reset THEN ConfirmationReset(row)
                      ELSE IF req[r].created THEN [row EXCEPT !.status = "READY_FOR_REVIEW"]
                      ELSE row
    <2>1. req[r].op = "catalogCart" /\ Write(r, new)
      BY <1>11 DEF CommitCatalogCart
    <2>2. new \in CartRow
      BY <2>1, <1>2, PendingType, RowType
    <2> HIDE DEF new
    <2> QED
      BY <1>11, <2>1, <2>2, WriteType DEF CommitCatalogCart, TypeOK
  <1>12. CASE CommitConvert(r)
    <2>1. req[r].op = "convert" /\ req[r].priced \in Seq(Line)
      BY <1>1, <1>12, RequestByOp DEF CommitConvert, ConvertRequest
    <2>2. c \in Carts /\ row \in CartRow /\ items[c] \in Seq(Line)
      BY <2>1, PendingType
    <2>3. (req \in [Requests -> Request \cup {Idle}])'
      BY <1>12 DEF CommitConvert, TypeOK
    <2>4. (carts \in [Carts -> CartRow])'
      <3>1. ASSUME NEW o \in Orders, carts' = [carts EXCEPT ![c].status = "CONVERTED_TO_ORDER",
                                                            ![c].order = o]
            PROVE  (carts \in [Carts -> CartRow])'
        <4>1. [row EXCEPT !.status = "CONVERTED_TO_ORDER", !.order = o] \in CartRow
          BY <1>2, <2>2, RowType
        <4>2. carts' = [carts EXCEPT ![c] = [row EXCEPT !.status = "CONVERTED_TO_ORDER", !.order = o]]
          BY <3>1, <2>2 DEF TypeOK
        <4> QED
          BY <2>2, <4>1, <4>2 DEF TypeOK
      <3> QED
        BY <1>12, <3>1 DEF CommitConvert, TypeOK, FreeOrders
    <2>5. (orders \subseteq OrderRow)'
      <3>1. \A o \in Orders :
              [id |-> o, cart |-> c, priced |-> req[r].priced, lines |-> items[c]] \in OrderRow
        BY <2>1, <2>2 DEF OrderRow
      <3> QED
        BY <1>12, <3>1 DEF CommitConvert, TypeOK, FreeOrders
    <2>6. (conflicts \subseteq Carts)'
      BY <1>12, <2>2 DEF CommitConvert, TypeOK
    <2> QED
      BY <1>12, <2>3, <2>4, <2>5, <2>6 DEF CommitConvert, TypeOK
  <1> QED
    BY <1>3, <1>4, <1>5, <1>6, <1>7, <1>8, <1>9, <1>10, <1>11, <1>12 DEF CommitStep

\* The empty tables are well typed.
LEMMA InitType ==
    ASSUME Init
    PROVE  TypeOK
  <1>1. Absent \in CartRow
    BY DEF Absent, CartRow, Origin
  <1>2. << >> \in Seq(Line)
    BY EmptySeq
  <1> QED
    BY <1>1, <1>2 DEF Init, TypeOK

\* Every variable keeps its type, whatever the handlers overlap.
THEOREM TypeCorrect == Spec => []TypeOK
  <1>1. Init => TypeOK
    BY InitType
  <1>2. TypeOK /\ [Next]_vars => TypeOK'
    <2> SUFFICES ASSUME TypeOK, [Next]_vars PROVE TypeOK'
      OBVIOUS
    <2>1. CASE UNCHANGED vars
      BY <2>1 DEF vars, TypeOK
    <2>2. ASSUME NEW r \in Requests, Fail(r) PROVE TypeOK'
      BY <2>2 DEF Fail, TypeOK
    <2> QED
      BY <2>1, <2>2, BeginType, CommitType DEF Next
  <1> QED
    BY <1>1, <1>2, PTL DEF Spec

-----------------------------------------------------------------------------
(***************************************************************************)
(* Safety.  The three invariants are inductive once it is known that a row *)
(* that is in the table has lines, that a row that is not is as Absent,    *)
(* that a pending write names a row of the table (rows are never deleted), *)
(* and that a pending confirmation writes its own side's status or both    *)
(* sides'.                                                                 *)
(***************************************************************************)
RowsSane ==
    \A c \in Carts : /\ carts[c].status = "ABSENT" => carts[c] = Absent
                     /\ carts[c].status # "ABSENT" => items[c] # <<>>

PendingSane ==
    \A r \in Requests :
        /\ req[r].op \notin {"idle", "insert"} => carts[req[r].cart].status # "ABSENT"
        /\ req[r].op = "confirm" => req[r].next \in {ConfirmedBy(req[r].side), BOTH}

IInv == TypeOK /\ RowsSane /\ PendingSane
          /\ OneOrderPerCart /\ OrderLinesConvertible /\ ConfirmedStatusBacked

\* What ConfirmedStatusBacked asks of one row.
Backed(row) ==
    /\ \A side \in Sides : row.status = ConfirmedBy(side) => side \in row.confirmed
    /\ row.status = BOTH => row.confirmed # {}

\* The pending requests after a step that moves only r.
LEMMA PendingStep ==
    ASSUME TypeOK, PendingSane, NEW r \in Requests, NEW q, req' = [req EXCEPT ![r] = q],
           \A c \in Carts : carts[c].status # "ABSENT" => carts'[c].status # "ABSENT",
           q.op \notin {"idle", "insert"} => carts'[q.cart].status # "ABSENT",
           q.op = "confirm" => q.next \in {ConfirmedBy(q.side), BOTH}
    PROVE  PendingSane'
  <1> SUFFICES ASSUME NEW x \in Requests
               PROVE  /\ req'[x].op \notin {"idle", "insert"} => carts'[req'[x].cart].status # "ABSENT"
                      /\ req'[x].op = "confirm" => req'[x].next \in {ConfirmedBy(req'[x].side), BOTH}
    BY DEF PendingSane
  <1>1. CASE x = r
    BY <1>1 DEF TypeOK
  <1>2. CASE x # r
    <2>1. req'[x] = req[x]
      BY <1>2 DEF TypeOK
    <2>2. req[x].op \notin {"idle", "insert"} => req[x].cart \in Carts
      BY PendingType
    <2> QED
      BY <2>1, <2>2 DEF PendingSane
  <1> QED
    BY <1>1, <1>2

\* Writing a row that keeps the order, and is backed, keeps the invariant.
LEMMA WriteKeeps ==
    ASSUME IInv, TypeOK', NEW r \in Requests, NEW row, Write(r, row),
           req[r].op \notin {"idle", "insert"},
           row.status # "ABSENT", row.order = carts[req[r].cart].order, Backed(row),
           items'[req[r].cart] # <<>>,
           \A d \in Carts \ {req[r].cart} : items'[d] = items[d]
    PROVE  IInv'
  <1> DEFINE c == req[r].cart
  <1>1. /\ c \in Carts /\ carts'[c] = row
        /\ \A d \in Carts \ {c} : carts'[d] = carts[d]
        /\ orders' = orders
    BY PendingType DEF Write, IInv, TypeOK
  <1>2. RowsSane'
    BY <1>1 DEF IInv, RowsSane
  <1>3. PendingSane'
    <2>1. req' = [req EXCEPT ![r] = Idle]
      BY DEF Write
    <2>2. Idle.op = "idle"
      BY DEF Idle
    <2> QED
      BY <1>1, <2>1, <2>2, PendingStep DEF IInv
  <1>4. OneOrderPerCart'
    <2>1. \A d \in Carts : carts'[d].order = carts[d].order
      BY <1>1
    <2>2. \A x \in orders : x.cart \in Carts
      BY DEF IInv, TypeOK, OrderRow
    <2> QED
      BY <1>1, <2>1, <2>2 DEF IInv, OneOrderPerCart
  <1>5. OrderLinesConvertible'
    BY <1>1 DEF IInv, OrderLinesConvertible
  <1>6. ConfirmedStatusBacked'
    BY <1>1 DEF IInv, ConfirmedStatusBacked, Backed
  <1> QED
    BY <1>2, <1>3, <1>4, <1>5, <1>6 DEF IInv


\* Holding a snapshot of a row of the table keeps the invariant.
LEMMA HoldKeeps ==
    ASSUME IInv, TypeOK', NEW r \in Requests, NEW q, Hold(r, q),
           q.op \notin {"idle", "insert"} => carts[q.cart].status # "ABSENT",
           q.op = "confirm" => q.next \in {ConfirmedBy(q.side), BOTH}
    PROVE  IInv'
  <1>1. UNCHANGED <<carts, items, orders>> /\ req' = [req EXCEPT ![r] = q]
    BY DEF Hold
  <1>2. PendingSane'
    BY <1>1, PendingStep DEF IInv
  <1>3. RowsSane' /\ OneOrderPerCart' /\ OrderLinesConvertible' /\ ConfirmedStatusBacked'
    BY <1>1 DEF IInv, RowsSane, OneOrderPerCart, OrderLinesConvertible, ConfirmedStatusBacked
  <1> QED
    BY <1>2, <1>3 DEF IInv

\* A read half keeps the invariant: it only names a row it has read.
LEMMA BeginKeeps ==
    ASSUME IInv, NEW r \in Requests, BeginStep(r)
    PROVE  IInv'
  <1>0. TypeOK'
    BY BeginType DEF IInv
  <1>1. ASSUME NEW c \in Carts, BeginReview(r, c)
        PROVE  IInv'
    BY <1>0, <1>1, HoldKeeps DEF BeginReview
  <1>2. ASSUME NEW c \in Carts, NEW side \in Sides, BeginConfirm(r, c, side)
        PROVE  IInv'
    <2> DEFINE q == [op |-> "confirm", cart |-> c, side |-> side,
                     next |-> ConfirmStatus(carts[c], side)]
    <2>1. Hold(r, q) /\ carts[c].status # "ABSENT"
      BY <1>2 DEF BeginConfirm, MayConfirm, Preparation, ConfirmedBy
    <2>2. /\ q.op \notin {"idle", "insert"} => carts[q.cart].status # "ABSENT"
          /\ q.op = "confirm" => q.next \in {ConfirmedBy(q.side), BOTH}
      BY <2>1, ConfirmStatusType
    <2> HIDE DEF q
    <2> QED
      BY <1>0, <2>1, <2>2, HoldKeeps
  <1>3. ASSUME NEW c \in Carts, BeginLock(r, c)
        PROVE  IInv'
    BY <1>0, <1>3, HoldKeeps DEF BeginLock, MayLock, BOTH
  <1>4. ASSUME NEW c \in Carts, BeginExpire(r, c)
        PROVE  IInv'
    BY <1>0, <1>4, HoldKeeps DEF BeginExpire
  <1>5. ASSUME NEW c \in Carts, BeginReject(r, c)
        PROVE  IInv'
    BY <1>0, <1>5, HoldKeeps DEF BeginReject
  <1>6. ASSUME NEW c \in Carts, BeginConvert(r, c)
        PROVE  IInv'
    BY <1>0, <1>6, HoldKeeps DEF BeginConvert, MayConvert
  <1>7. ASSUME NEW p \in Products, NEW valid \in BOOLEAN, BeginCatalog(r, p, valid)
        PROVE  IInv'
    <2>1. ASSUME NEW line, Hold(r, [op |-> "insert", origin |-> "manual", line |-> line])
          PROVE  IInv'
      BY <1>0, <2>1, HoldKeeps
    <2>2. ASSUME NEW c \in MergeTargets, NEW at, NEW reset, NEW line,
                 Hold(r, [op |-> "catalogLine", cart |-> c, at |-> at, reset |-> reset,
                          line |-> line])
          PROVE  IInv'
      <3>1. carts[c].status # "ABSENT"
        BY DEF MergeTargets, Mergeable, Preparation, Confirmed, BOTH
      <3> QED
        BY <1>0, <2>2, <3>1, HoldKeeps
    <2> QED
      BY <1>7, <2>1, <2>2 DEF BeginCatalog
  <1>8. ASSUME NEW origin, NEW line, BeginMaterialize(r, origin, line)
        PROVE  IInv'
    <2>1. ASSUME Hold(r, [op |-> "insert", origin |-> origin, line |-> line])
          PROVE  IInv'
      BY <1>0, <2>1, HoldKeeps
    <2>2. ASSUME NEW c \in FoundFor(origin), NEW reset,
                 Hold(r, [op |-> "refresh", cart |-> c, reset |-> reset, line |-> line])
          PROVE  IInv'
      <3>1. carts[c].status # "ABSENT"
        BY DEF FoundFor
      <3> QED
        BY <1>0, <2>2, <3>1, HoldKeeps
    <2> QED
      BY <1>8, <2>1, <2>2 DEF BeginMaterialize
  <1> QED
    BY <1>1, <1>2, <1>3, <1>4, <1>5, <1>6, <1>7, <1>8 DEF BeginStep

\* A write half that is one `update where id` keeps the invariant.
LEMMA UpdateKeeps ==
    ASSUME IInv, NEW r \in Requests,
           \/ CommitReview(r) \/ CommitConfirm(r) \/ CommitLock(r) \/ CommitExpire(r)
           \/ CommitReject(r) \/ CommitRefresh(r) \/ CommitCatalogCart(r)
    PROVE  IInv'
  <1> DEFINE c == req[r].cart
             row == carts[c]
  <1>0. /\ TypeOK /\ TypeOK'
        /\ req[r].op \notin {"idle", "insert"}
    BY CommitType DEF IInv, CommitStep, CommitReview, CommitConfirm, CommitLock, CommitExpire,
                      CommitReject, CommitRefresh, CommitCatalogCart
  <1>1. c \in Carts /\ row \in CartRow /\ row.status # "ABSENT" /\ items[c] # <<>> /\ Backed(row)
    BY <1>0, PendingType DEF IInv, PendingSane, RowsSane, ConfirmedStatusBacked, Backed
  <1>2. ASSUME NEW new, Write(r, new), UNCHANGED items,
               new.status # "ABSENT", new.order = row.order, Backed(new)
        PROVE  IInv'
    BY <1>0, <1>1, <1>2, WriteKeeps
  <1>3. \A st \in {"READY_FOR_REVIEW", "LOCKED_FOR_ORDER", "EXPIRED", "REJECTED"} :
          /\ st # "ABSENT" /\ st # BOTH
          /\ \A side \in Sides : st # ConfirmedBy(side)
    BY DEF BOTH, ConfirmedBy
  <1>4. CASE CommitReview(r)
    <2> DEFINE new == [row EXCEPT !.status = "READY_FOR_REVIEW"]
    <2>1. Write(r, new) /\ UNCHANGED items
      BY <1>4 DEF CommitReview
    <2>2. new.status = "READY_FOR_REVIEW" /\ new.order = row.order
      BY <1>1 DEF CartRow
    <2> QED
      BY <2>1, <2>2, <1>2, <1>3 DEF Backed
  <1>5. CASE CommitLock(r)
    <2> DEFINE new == [row EXCEPT !.status = "LOCKED_FOR_ORDER"]
    <2>1. Write(r, new) /\ UNCHANGED items
      BY <1>5 DEF CommitLock
    <2>2. new.status = "LOCKED_FOR_ORDER" /\ new.order = row.order
      BY <1>1 DEF CartRow
    <2> QED
      BY <2>1, <2>2, <1>2, <1>3 DEF Backed
  <1>6. CASE CommitExpire(r)
    <2> DEFINE new == [row EXCEPT !.status = "EXPIRED"]
    <2>1. Write(r, new) /\ UNCHANGED items
      BY <1>6 DEF CommitExpire
    <2>2. new.status = "EXPIRED" /\ new.order = row.order
      BY <1>1 DEF CartRow
    <2> QED
      BY <2>1, <2>2, <1>2, <1>3 DEF Backed
  <1>7. CASE CommitReject(r)
    <2> DEFINE new == [row EXCEPT !.status = "REJECTED", !.convertible = FALSE]
    <2>1. Write(r, new) /\ UNCHANGED items
      BY <1>7 DEF CommitReject
    <2>2. new.status = "REJECTED" /\ new.order = row.order
      BY <1>1 DEF CartRow
    <2> QED
      BY <2>1, <2>2, <1>2, <1>3 DEF Backed
  <1>8. CASE CommitConfirm(r)
    <2> DEFINE next == req[r].next
               side == req[r].side
               new == [row EXCEPT !.status = next, !.confirmed = row.confirmed \cup {side}]
    <2>1. Write(r, new) /\ UNCHANGED items /\ req[r].op = "confirm"
      BY <1>8 DEF CommitConfirm
    <2>2. new.status = next /\ new.confirmed = row.confirmed \cup {side} /\ new.order = row.order
      BY <1>1 DEF CartRow
    <2>3. next \in {ConfirmedBy(side), BOTH} /\ side \in Sides
      <3>1. req[r] \in Request \cup {Idle}
        BY <1>0 DEF TypeOK
      <3> QED
        BY <2>1, <3>1, RequestByOp DEF IInv, PendingSane, ConfirmRequest
    <2>4. Backed(new) /\ new.status # "ABSENT"
      BY <2>2, <2>3 DEF Backed, ConfirmedBy, BOTH, Sides
    <2> HIDE DEF new
    <2> QED
      BY <2>1, <2>2, <2>4, <1>2
  <1>9. CASE CommitRefresh(r)
    <2> DEFINE kept == IF req[r].reset THEN ConfirmationReset(row) ELSE row
               new == [kept EXCEPT !.status = "READY_FOR_REVIEW", !.convertible = TRUE]
    <2>1. Write(r, new) /\ items' = [items EXCEPT ![c] = <<req[r].line>>]
      BY <1>9 DEF CommitRefresh
    <2>2. new.status = "READY_FOR_REVIEW" /\ new.order = row.order
      BY <1>1 DEF CartRow, ConfirmationReset
    <2>3. items'[c] # <<>> /\ \A d \in Carts \ {c} : items'[d] = items[d]
      BY <2>1, <1>0, <1>1 DEF TypeOK
    <2> HIDE DEF new
    <2>4. Backed(new) /\ new.status # "ABSENT"
      BY <2>2, <1>3 DEF Backed
    <2> QED
      BY <2>1, <2>2, <2>3, <2>4, <1>0, WriteKeeps
  <1>10. CASE CommitCatalogCart(r)
    <2> DEFINE new == IF req[r].reset THEN ConfirmationReset(row)
                      ELSE IF req[r].created THEN [row EXCEPT !.status = "READY_FOR_REVIEW"]
                      ELSE row
    <2>1. Write(r, new) /\ UNCHANGED items
      BY <1>10 DEF CommitCatalogCart
    <2>2. new = row \/ (new.status = "READY_FOR_REVIEW" /\ new.order = row.order)
      BY <1>1 DEF CartRow, ConfirmationReset
    <2> HIDE DEF new
    <2>3. Backed(new) /\ new.status # "ABSENT" /\ new.order = row.order
      BY <2>2, <1>1, <1>3 DEF Backed
    <2> QED
      BY <2>1, <2>3, <1>2
  <1> QED
    BY <1>4, <1>5, <1>6, <1>7, <1>8, <1>9, <1>10

\* Inserting a cart keeps the invariant: the row was Absent and had no order.
LEMMA InsertKeeps ==
    ASSUME IInv, NEW r \in Requests, CommitInsert(r)
    PROVE  IInv'
  <1>0. TypeOK /\ TypeOK'
    BY CommitType DEF IInv, CommitStep
  <1>1. PICK c \in Carts :
          /\ carts[c].status = "ABSENT"
          /\ carts' = [carts EXCEPT ![c] =
                [origin |-> req[r].origin,
                 status |-> IF req[r].origin = "manual" THEN "DRAFT" ELSE "READY_FOR_REVIEW",
                 confirmed |-> {}, convertible |-> TRUE, order |-> NoOrder]]
          /\ items' = [items EXCEPT ![c] = <<req[r].line>>]
    BY DEF CommitInsert
  <1>2. /\ carts[c].order = NoOrder
        /\ carts'[c].order = NoOrder
        /\ carts'[c].status \in {"DRAFT", "READY_FOR_REVIEW"}
        /\ items'[c] # <<>>
        /\ \A d \in Carts \ {c} : carts'[d] = carts[d] /\ items'[d] = items[d]
        /\ orders' = orders
    BY <1>0, <1>1 DEF IInv, RowsSane, Absent, CommitInsert, TypeOK
  <1>3. RowsSane'
    BY <1>2 DEF IInv, RowsSane
  <1>4. PendingSane'
    <2>1. req' = [req EXCEPT ![r] = Idle] /\ Idle.op = "idle"
      BY DEF CommitInsert, Idle
    <2>2. \A d \in Carts : carts[d].status # "ABSENT" => carts'[d].status # "ABSENT"
      BY <1>2
    <2> QED
      BY <1>0, <2>1, <2>2, PendingStep DEF IInv
  <1>5. OneOrderPerCart'
    <2>1. \A d \in Carts : carts'[d].order = carts[d].order
      BY <1>2
    <2>2. \A x \in orders : x.cart \in Carts
      BY <1>0 DEF TypeOK, OrderRow
    <2> QED
      BY <1>2, <2>1, <2>2 DEF IInv, OneOrderPerCart
  <1>6. OrderLinesConvertible'
    BY <1>2 DEF IInv, OrderLinesConvertible
  <1>7. ConfirmedStatusBacked'
    BY <1>2 DEF IInv, ConfirmedStatusBacked, ConfirmedBy, BOTH
  <1> QED
    BY <1>0, <1>3, <1>4, <1>5, <1>6, <1>7 DEF IInv

\* The catalogue's item write keeps the invariant: a cart never loses its lines.
LEMMA CatalogLineKeeps ==
    ASSUME IInv, NEW r \in Requests, CommitCatalogLine(r)
    PROVE  IInv'
  <1> DEFINE c == req[r].cart
  <1>0. TypeOK /\ TypeOK'
    BY CommitType DEF IInv, CommitStep
  <1>1. /\ req[r].op = "catalogLine" /\ c \in Carts
        /\ items[c] \in Seq(Line) /\ carts[c].status # "ABSENT"
        /\ UNCHANGED <<carts, orders>>
    BY <1>0, PendingType DEF CommitCatalogLine, IInv, PendingSane
  <1>2. req[r].line \in Line
    <2>1. req[r] \in Request \cup {Idle}
      BY <1>0 DEF TypeOK
    <2> QED
      BY <1>1, <2>1, RequestByOp DEF LineRequest
  <1>3. items'[c] # <<>> /\ \A d \in Carts \ {c} : items'[d] = items[d]
    <2>1. CASE items' = [items EXCEPT ![c] = Append(items[c], req[r].line)]
      <3>1. Append(items[c], req[r].line) # <<>>
        BY <1>1, <1>2, AppendProperties
      <3> QED
        BY <2>1, <3>1, <1>0, <1>1 DEF TypeOK
    <2>2. CASE /\ req[r].at \in DOMAIN items[c]
               /\ items' = [items EXCEPT ![c] = [items[c] EXCEPT ![req[r].at] = req[r].line]]
      <3> DEFINE s == [items[c] EXCEPT ![req[r].at] = req[r].line]
      <3>1. items'[c] = s /\ \A d \in Carts \ {c} : items'[d] = items[d]
        BY <2>2, <1>0, <1>1 DEF TypeOK
      <3>2. items[c] # <<>> /\ DOMAIN items[c] = 1..Len(items[c])
        BY <1>1, LenProperties DEF IInv, RowsSane
      <3>3. Len(s) = Len(items[c])
        BY <1>1, <1>2, <2>2, <3>2, ExceptSeq
      <3>4. Len(items[c]) # 0
        BY <1>1, <3>2, EmptySeq
      <3> HIDE DEF s
      <3>5. s # <<>>
        BY <3>3, <3>4, EmptySeq
      <3> QED
        BY <3>1, <3>5
    <2> QED
      BY <2>1, <2>2 DEF CommitCatalogLine
  <1>4. RowsSane'
    BY <1>1, <1>3 DEF IInv, RowsSane
  <1>5. PendingSane'
    <2> DEFINE q == [op |-> "catalogCart", cart |-> c, reset |-> req[r].reset,
                     created |-> req[r].at = 0]
    <2>1. req' = [req EXCEPT ![r] = q]
      BY DEF CommitCatalogLine
    <2>2. carts'[q.cart].status # "ABSENT" /\ q.op = "catalogCart"
      BY <1>1
    <2> HIDE DEF q
    <2> QED
      BY <1>0, <1>1, <2>1, <2>2, PendingStep DEF IInv
  <1>6. OneOrderPerCart' /\ OrderLinesConvertible' /\ ConfirmedStatusBacked'
    BY <1>1 DEF IInv, OneOrderPerCart, OrderLinesConvertible, ConfirmedStatusBacked
  <1> QED
    BY <1>0, <1>4, <1>5, <1>6 DEF IInv

\* The conversion keeps the invariant: its transaction has just seen that the cart
\* has no order and that its lines are convertible, and its order is a new one.
LEMMA ConvertKeeps ==
    ASSUME IInv, NEW r \in Requests, CommitConvert(r)
    PROVE  IInv'
  <1> DEFINE c == req[r].cart
  <1>0. TypeOK /\ TypeOK'
    BY CommitType DEF IInv, CommitStep
  <1>1. /\ c \in Carts /\ carts[c] \in CartRow
        /\ carts[c].order = NoOrder
        /\ carts[c].status = "LOCKED_FOR_ORDER"
        /\ LinesConvertible(items[c])
        /\ items[c] # <<>>
    BY <1>0, PendingType DEF CommitConvert, MayConvert, IInv, RowsSane
  <1>2. req' = [req EXCEPT ![r] = Idle] /\ UNCHANGED items /\ Idle.op = "idle"
    BY DEF CommitConvert, Idle
  <1>3. CASE UNCHANGED <<carts, orders>>
    <2>1. PendingSane'
      BY <1>0, <1>2, <1>3, PendingStep DEF IInv
    <2>2. RowsSane' /\ OneOrderPerCart' /\ OrderLinesConvertible' /\ ConfirmedStatusBacked'
      BY <1>2, <1>3
         DEF IInv, RowsSane, OneOrderPerCart, OrderLinesConvertible, ConfirmedStatusBacked
    <2> QED
      BY <1>0, <2>1, <2>2 DEF IInv
  <1>4. ASSUME NEW o \in FreeOrders,
               carts' = [carts EXCEPT ![c].status = "CONVERTED_TO_ORDER", ![c].order = o],
               orders' = orders \cup
                  {[id |-> o, cart |-> c, priced |-> req[r].priced, lines |-> items[c]]}
        PROVE  IInv'
    <2> DEFINE new == [id |-> o, cart |-> c, priced |-> req[r].priced, lines |-> items[c]]
    <2>1. /\ o \in Orders /\ o # NoOrder
          /\ \A x \in orders : x.id # o
      BY CartAssumption DEF FreeOrders
    <2>2. /\ carts'[c].status = "CONVERTED_TO_ORDER" /\ carts'[c].order = o
          /\ \A d \in Carts \ {c} : carts'[d] = carts[d]
      BY <1>0, <1>1, <1>4 DEF TypeOK, CartRow
    <2>3. RowsSane'
      BY <1>1, <1>2, <2>2 DEF IInv, RowsSane
    <2>4. PendingSane'
      <3>1. \A d \in Carts : carts[d].status # "ABSENT" => carts'[d].status # "ABSENT"
        BY <2>2
      <3> QED
        BY <1>0, <1>2, <3>1, PendingStep DEF IInv
    <2>5. OneOrderPerCart'
      <3>1. \A x \in orders : x.cart \in Carts /\ x.cart # c
        BY <1>0, <1>1, CartAssumption DEF IInv, OneOrderPerCart, TypeOK, OrderRow
      <3>2. \A x \in orders' : x \in orders \/ x = new
        BY <1>4
      <3>3. new.cart = c /\ new.id = o /\ new \in orders'
        BY <1>4
      <3>4. \A x, y \in orders' : x.cart = y.cart => x = y
        BY <3>1, <3>2, <3>3 DEF IInv, OneOrderPerCart
      <3>5. \A x \in orders' : carts'[x.cart].order = x.id
        BY <2>2, <3>1, <3>2, <3>3 DEF IInv, OneOrderPerCart
      <3>6. ASSUME NEW d \in Carts, carts'[d].order # NoOrder
            PROVE  \E x \in orders' : x.cart = d /\ x.id = carts'[d].order
        <4>1. CASE d = c
          BY <2>2, <3>3, <4>1
        <4>2. CASE d # c
          <5>1. carts[d].order # NoOrder /\ carts'[d].order = carts[d].order
            BY <2>2, <3>6, <4>2
          <5>2. PICK x \in orders : x.cart = d /\ x.id = carts[d].order
            BY <5>1 DEF IInv, OneOrderPerCart
          <5>3. x \in orders'
            BY <1>4
          <5> QED
            BY <5>1, <5>2, <5>3
        <4> QED
          BY <4>1, <4>2
      <3> QED
        BY <3>4, <3>5, <3>6 DEF OneOrderPerCart
    <2>6. OrderLinesConvertible'
      BY <1>1, <1>4 DEF IInv, OrderLinesConvertible
    <2>7. ConfirmedStatusBacked'
      BY <2>2 DEF IInv, ConfirmedStatusBacked, ConfirmedBy, BOTH
    <2> QED
      BY <1>0, <2>3, <2>4, <2>5, <2>6, <2>7 DEF IInv
  <1> QED
    BY <1>3, <1>4 DEF CommitConvert

\* Every reachable state satisfies the inductive invariant.
THEOREM Inductive == Spec => []IInv
  <1>1. Init => IInv
    <2> SUFFICES ASSUME Init PROVE IInv
      OBVIOUS
    <2>1. TypeOK
      BY InitType
    <2>2. RowsSane /\ PendingSane
      BY DEF Init, RowsSane, PendingSane, Absent, Idle
    <2>3. OneOrderPerCart /\ OrderLinesConvertible
      BY DEF Init, OneOrderPerCart, OrderLinesConvertible, Absent
    <2>4. ConfirmedStatusBacked
      BY DEF Init, ConfirmedStatusBacked, Absent, ConfirmedBy, BOTH
    <2> QED
      BY <2>1, <2>2, <2>3, <2>4 DEF IInv
  <1>2. IInv /\ [Next]_vars => IInv'
    <2> SUFFICES ASSUME IInv, [Next]_vars PROVE IInv'
      OBVIOUS
    <2>1. CASE UNCHANGED vars
      BY <2>1 DEF vars, IInv, TypeOK, RowsSane, PendingSane, OneOrderPerCart,
                  OrderLinesConvertible, ConfirmedStatusBacked
    <2>2. ASSUME NEW r \in Requests, CommitStep(r) PROVE IInv'
      BY <2>2, UpdateKeeps, InsertKeeps, CatalogLineKeeps, ConvertKeeps DEF CommitStep
    <2>3. ASSUME NEW r \in Requests, Fail(r) PROVE IInv'
      <3>1. TypeOK' /\ req' = [req EXCEPT ![r] = Idle] /\ UNCHANGED <<carts, items, orders>>
        BY <2>3 DEF Fail, IInv, TypeOK
      <3>2. PendingSane'
        BY <3>1, PendingStep DEF IInv, Idle
      <3>3. RowsSane' /\ OneOrderPerCart' /\ OrderLinesConvertible' /\ ConfirmedStatusBacked'
        BY <3>1 DEF IInv, RowsSane, OneOrderPerCart, OrderLinesConvertible, ConfirmedStatusBacked
      <3> QED
        BY <3>1, <3>2, <3>3 DEF IInv
    <2> QED
      BY <2>1, <2>2, <2>3, BeginKeeps DEF Next
  <1> QED
    BY <1>1, <1>2, PTL DEF Spec

\* A cart becomes at most one order, and the two point at each other.
THEOREM OneOrder == Spec => []OneOrderPerCart
  <1>1. IInv => OneOrderPerCart
    BY DEF IInv
  <1> QED
    BY <1>1, Inductive, PTL

\* The lines of an order were convertible when they were copied.
THEOREM LinesOfOrders == Spec => []OrderLinesConvertible
  <1>1. IInv => OrderLinesConvertible
    BY DEF IInv
  <1> QED
    BY <1>1, Inductive, PTL

\* A status that says a side confirmed is backed by a confirmation column.
THEOREM StatusBacked == Spec => []ConfirmedStatusBacked
  <1>1. IInv => ConfirmedStatusBacked
    BY DEF IInv
  <1> QED
    BY <1>1, Inductive, PTL

-----------------------------------------------------------------------------
\* Refinement: what a step does to the abstract variables depends only on what it
\* does to the convertible flag and the order of each cart.

\* A step that moves neither is a stutter.
LEMMA StutterStep ==
    ASSUME \A c \in Carts : /\ carts'[c].convertible = carts[c].convertible
                            /\ carts'[c].order = carts[c].order
    PROVE  UNCHANGED Materialization!matVars
  BY DEF Materialization!matVars

\* A step that leaves every order, and every flag but that of c, opens or closes c.
LEMMA FlagStep ==
    ASSUME NEW c \in Carts, carts'[c].convertible \in BOOLEAN,
           \A d \in Carts : carts'[d].order = carts[d].order,
           \A d \in Carts \ {c} : carts'[d].convertible = carts[d].convertible
    PROVE  Materialization!MatNext
  <1>1. CASE carts'[c].convertible = TRUE
    <2>1. Materialization!Open(c)
      BY <1>1 DEF Materialization!Open
    <2> QED
      BY <2>1 DEF Materialization!MatNext
  <1>2. CASE carts'[c].convertible = FALSE
    <2>1. Materialization!Close(c)
      BY <1>2 DEF Materialization!Close
    <2> QED
      BY <2>1 DEF Materialization!MatNext
  <1> QED
    BY <1>1, <1>2

\* The committed conversion materialises an order no cart has.
LEMMA ConvertStep ==
    ASSUME IInv, NEW r \in Requests, CommitConvert(r)
    PROVE  [Materialization!MatNext]_(Materialization!matVars)
  <1> DEFINE c == req[r].cart
  <1>1. TypeOK /\ c \in Carts /\ carts[c] \in CartRow /\ MayConvert(carts[c], items[c])
    BY PendingType DEF CommitConvert, IInv
  <1>2. CASE UNCHANGED carts
    BY <1>2, StutterStep
  <1>3. ASSUME NEW o \in FreeOrders,
               carts' = [carts EXCEPT ![c].status = "CONVERTED_TO_ORDER", ![c].order = o]
        PROVE  Materialization!MatNext
    <2>1. \A d \in Carts : carts[d].order # o
      BY CartAssumption DEF IInv, OneOrderPerCart, FreeOrders
    <2>2. /\ carts'[c].order = o /\ carts'[c].convertible = carts[c].convertible
          /\ \A d \in Carts \ {c} : carts'[d] = carts[d]
      BY <1>1, <1>3 DEF TypeOK, CartRow
    <2>3. carts[c].convertible /\ carts[c].order = NoOrder
      BY <1>1 DEF MayConvert
    <2>4. Materialization!Materialize(c, o)
      BY <1>1, <2>1, <2>2, <2>3 DEF Materialization!Materialize
    <2> QED
      BY <1>1, <2>4 DEF Materialization!MatNext, FreeOrders
  <1> QED
    BY <1>2, <1>3 DEF CommitConvert

\* Every other write leaves the orders alone, and the flags of the other carts.
LEMMA OtherStep ==
    ASSUME IInv, NEW r \in Requests, CommitStep(r), ~ CommitConvert(r)
    PROVE  [Materialization!MatNext]_(Materialization!matVars)
  <1> DEFINE c == req[r].cart
             row == carts[c]
  <1>0. TypeOK /\ TypeOK'
    BY CommitType DEF IInv
  <1>1. req[r].op \notin {"idle", "insert"} => c \in Carts /\ row \in CartRow
    BY <1>0, PendingType
  <1>2. ASSUME NEW new, Write(r, new), req[r].op \notin {"idle", "insert"}, new.order = row.order
        PROVE  Materialization!MatNext
    <2>1. /\ c \in Carts /\ carts'[c] = new
          /\ \A d \in Carts \ {c} : carts'[d] = carts[d]
      BY <1>0, <1>1, <1>2 DEF Write, TypeOK
    <2>2. carts'[c].convertible \in BOOLEAN
      BY <1>0, <2>1 DEF TypeOK, CartRow
    <2> QED
      BY <1>2, <2>1, <2>2, FlagStep
  <1>3. CASE CommitReview(r)
    BY <1>1, <1>2, <1>3 DEF CommitReview, CartRow
  <1>4. CASE CommitConfirm(r)
    BY <1>1, <1>2, <1>4 DEF CommitConfirm, CartRow
  <1>5. CASE CommitLock(r)
    BY <1>1, <1>2, <1>5 DEF CommitLock, CartRow
  <1>6. CASE CommitExpire(r)
    BY <1>1, <1>2, <1>6 DEF CommitExpire, CartRow
  <1>7. CASE CommitReject(r)
    BY <1>1, <1>2, <1>7 DEF CommitReject, CartRow
  <1>8. CASE CommitRefresh(r)
    <2> DEFINE kept == IF req[r].reset THEN ConfirmationReset(row) ELSE row
               new == [kept EXCEPT !.status = "READY_FOR_REVIEW", !.convertible = TRUE]
    <2>1. Write(r, new) /\ req[r].op = "refresh"
      BY <1>8 DEF CommitRefresh
    <2>2. new.order = row.order
      BY <1>1, <2>1 DEF CartRow, ConfirmationReset
    <2> HIDE DEF new
    <2> QED
      BY <1>2, <2>1, <2>2
  <1>9. CASE CommitCatalogCart(r)
    <2> DEFINE new == IF req[r].reset THEN ConfirmationReset(row)
                      ELSE IF req[r].created THEN [row EXCEPT !.status = "READY_FOR_REVIEW"]
                      ELSE row
    <2>1. Write(r, new) /\ req[r].op = "catalogCart"
      BY <1>9 DEF CommitCatalogCart
    <2>2. new.order = row.order
      BY <1>1, <2>1 DEF CartRow, ConfirmationReset
    <2> HIDE DEF new
    <2> QED
      BY <1>2, <2>1, <2>2
  <1>10. CASE CommitCatalogLine(r)
    BY <1>10, StutterStep DEF CommitCatalogLine
  <1>11. CASE CommitInsert(r)
    <2>1. PICK i \in Carts :
            /\ carts[i].status = "ABSENT"
            /\ carts' = [carts EXCEPT ![i] =
                  [origin |-> req[r].origin,
                   status |-> IF req[r].origin = "manual" THEN "DRAFT" ELSE "READY_FOR_REVIEW",
                   confirmed |-> {}, convertible |-> TRUE, order |-> NoOrder]]
      BY <1>11 DEF CommitInsert
    <2>2. /\ carts[i].order = NoOrder
          /\ carts'[i].order = NoOrder /\ carts'[i].convertible = TRUE
          /\ \A d \in Carts \ {i} : carts'[d] = carts[d]
      BY <1>0, <2>1 DEF IInv, RowsSane, Absent, TypeOK
    <2> QED
      BY <2>2, FlagStep
  <1> QED
    BY <1>3, <1>4, <1>5, <1>6, <1>7, <1>8, <1>9, <1>10, <1>11 DEF CommitStep

\* The carts keep the promise of OrderMaterialization: an order is made only of a
\* cart no party has rejected since it was last materialised, and is kept for good.
THEOREM Refinement == Spec => Implements
  <1>1. Init => Materialization!MatInit
    BY DEF Init, Absent, Materialization!MatInit
  <1>2. IInv /\ [Next]_vars => [Materialization!MatNext]_(Materialization!matVars)
    <2> SUFFICES ASSUME IInv, [Next]_vars
                 PROVE  [Materialization!MatNext]_(Materialization!matVars)
      OBVIOUS
    <2>1. CASE UNCHANGED vars
      BY <2>1, StutterStep DEF vars
    <2>2. ASSUME NEW r \in Requests, BeginStep(r)
          PROVE  UNCHANGED Materialization!matVars
      BY <2>2, BeginHolds, StutterStep
    <2>3. ASSUME NEW r \in Requests, Fail(r)
          PROVE  UNCHANGED Materialization!matVars
      BY <2>3, StutterStep DEF Fail
    <2> QED
      BY <2>1, <2>2, <2>3, ConvertStep, OtherStep DEF Next
  <1> QED
    BY <1>1, <1>2, Inductive, PTL DEF Spec, Implements, Materialization!MatSpec

-----------------------------------------------------------------------------
\* If order.create's nested connect sets convertedOrderId, as Prisma documents for
\* the side holding the key, the updateMany that follows matches nothing: no
\* conversion ever leaves an order.
THEOREM ConnectDefeatsConversion == Spec => [](ConnectLinksCart => orders = {})
  <1> DEFINE Inv == ConnectLinksCart => orders = {}
  <1>1. Init => Inv
    BY DEF Init
  <1>2. Inv /\ [Next]_vars => Inv'
    <2> SUFFICES ASSUME ConnectLinksCart, [Next]_vars PROVE orders' = orders
      OBVIOUS
    <2>1. CASE UNCHANGED vars
      BY <2>1 DEF vars
    <2>2. ASSUME NEW r \in Requests, CommitConvert(r) PROVE orders' = orders
      <3>1. \A o \in FreeOrders : o # NoOrder
        BY CartAssumption DEF FreeOrders
      <3> QED
        BY <2>2, <3>1 DEF CommitConvert
    <2>3. ASSUME NEW r \in Requests, CommitStep(r), ~ CommitConvert(r) PROVE orders' = orders
      BY <2>3 DEF CommitStep, CommitReview, CommitConfirm, CommitLock, CommitExpire, CommitReject,
                  CommitRefresh, CommitInsert, CommitCatalogLine, CommitCatalogCart, Write
    <2> QED
      BY <2>1, <2>2, <2>3, BeginHolds DEF Next, Fail
  <1> QED
    BY <1>1, <1>2, PTL DEF Spec

-----------------------------------------------------------------------------
(***************************************************************************)
(* One request per cart.  No handler locks the cart it has read, and two    *)
(* that overlap on one cart break the agreement of status and confirmation  *)
(* columns, the attestation of the lines, and the silence of a closed cart. *)
(* While each cart is served by one request at a time, whatever happens on  *)
(* other carts, what a pending write was decided on is still true (Current).*)
(***************************************************************************)
\* q names a cart it will write.
Holding(q) == q.op \notin {"idle", "insert"}

\* Hypothesis: no two requests hold the same cart.
OneHandlerPerCart ==
    \A r, s \in Requests :
        r # s /\ Holding(req[r]) /\ Holding(req[s]) => req[r].cart # req[s].cart

\* What the status of a row says of its confirmation columns.
Agreed(row) ==
    /\ row.status \in Preparation => row.confirmed = {}
    /\ \A side \in Sides : row.status = ConfirmedBy(side) => row.confirmed = {side}
    /\ row.status \in {BOTH, "LOCKED_FOR_ORDER"} => row.confirmed = Sides

\* What q was decided on is true of the row it will write, and of the row's lines.
Current(q, row, lines) ==
    /\ q.op = "review" => row.status = "DRAFT"
    /\ q.op = "confirm" => MayConfirm(row, q.side) /\ q.next = ConfirmStatus(row, q.side)
    /\ q.op = "lock" => MayLock(row, lines)
    /\ q.op \in {"refresh", "catalogLine", "catalogCart"} => q.reset = NeedsReset(row)
    /\ q.op \in {"catalogLine", "catalogCart"} => row.status \in Mergeable

SerialInv ==
    /\ IInv
    /\ \A c \in Carts : Agreed(carts[c])
    /\ \A r \in Requests : Holding(req[r]) =>
          Current(req[r], carts[req[r].cart], items[req[r].cart])

\* A line of c is written, and its cart row is not yet.
Touching(c) == \E r \in Requests : req[r].op = "catalogCart" /\ req[r].cart = c

\* A standing confirmation is about the lines of the cart, unless the cart is being changed.
Attested ==
    \A c \in Carts, side \in Sides :
        side \in carts[c].confirmed /\ ~Touching(c) => attested[c][side] = items[c]

AttestInv == SerialInv /\ Attested

\* A step of r, when what the others hold is left alone.
LEMMA SerialStep ==
    ASSUME SerialInv, IInv', NEW r \in Requests, NEW q, req' = [req EXCEPT ![r] = q],
           \A c \in Carts : Agreed(carts'[c]),
           \A s \in Requests \ {r} : Holding(req[s]) =>
              carts'[req[s].cart] = carts[req[s].cart] /\ items'[req[s].cart] = items[req[s].cart],
           Holding(q) => Current(q, carts'[q.cart], items'[q.cart])
    PROVE  SerialInv'
  <1>1. req'[r] = q /\ \A s \in Requests \ {r} : req'[s] = req[s]
    BY DEF SerialInv, IInv, TypeOK
  <1>2. ASSUME NEW s \in Requests, Holding(req'[s])
        PROVE  Current(req'[s], carts'[req'[s].cart], items'[req'[s].cart])
    <2>1. CASE s = r
      BY <1>1, <1>2, <2>1
    <2>2. CASE s # r
      <3>1. req'[s] = req[s]
        BY <1>1, <2>2
      <3>2. Current(req[s], carts[req[s].cart], items[req[s].cart])
        BY <1>2, <3>1 DEF SerialInv
      <3> QED
        BY <1>2, <2>2, <3>1, <3>2
    <2> QED
      BY <2>1, <2>2
  <1> QED
    BY <1>2 DEF SerialInv

\* A write to the row of r's cart, and perhaps to its lines.
LEMMA RowWritten ==
    ASSUME SerialInv, IInv', OneHandlerPerCart, NEW r \in Requests, Holding(req[r]),
           NEW row, NEW q, Agreed(row), ~Holding(q),
           carts' = [carts EXCEPT ![req[r].cart] = row], req' = [req EXCEPT ![r] = q],
           \A d \in Carts \ {req[r].cart} : items'[d] = items[d]
    PROVE  SerialInv'
  <1> DEFINE c == req[r].cart
  <1>1. TypeOK /\ c \in Carts
    BY PendingType DEF SerialInv, IInv, Holding
  <1>2. carts'[c] = row /\ \A d \in Carts \ {c} : carts'[d] = carts[d]
    BY <1>1 DEF TypeOK
  <1>3. \A d \in Carts : Agreed(carts'[d])
    BY <1>2 DEF SerialInv
  <1>4. ASSUME NEW s \in Requests \ {r}, Holding(req[s])
        PROVE  carts'[req[s].cart] = carts[req[s].cart] /\ items'[req[s].cart] = items[req[s].cart]
    <2>1. req[s].cart \in Carts \ {c}
      BY <1>1, <1>4, PendingType DEF OneHandlerPerCart, Holding
    <2> QED
      BY <1>2, <2>1
  <1> QED
    BY <1>3, <1>4, SerialStep

\* A read half of a handler decides on the row as it is.
LEMMA BeginCurrent ==
    ASSUME SerialInv, IInv', NEW r \in Requests, BeginStep(r)
    PROVE  SerialInv'
  <1>1. \A c \in Carts : Agreed(carts[c])
    BY DEF SerialInv
  <1>2. ASSUME NEW q, Hold(r, q), Holding(q) => Current(q, carts[q.cart], items[q.cart])
        PROVE  SerialInv'
    <2>1. req' = [req EXCEPT ![r] = q] /\ carts' = carts /\ items' = items
      BY <1>2 DEF Hold
    <2> QED
      BY <1>1, <1>2, <2>1, SerialStep
  <1>3. ASSUME NEW c \in Carts, BeginReview(r, c)
        PROVE  SerialInv'
    <2> DEFINE q == [op |-> "review", cart |-> c]
    <2>1. Hold(r, q) /\ Current(q, carts[q.cart], items[q.cart])
      BY <1>3 DEF BeginReview, Current
    <2> QED
      BY <1>2, <2>1
  <1>4. ASSUME NEW c \in Carts, NEW side \in Sides, BeginConfirm(r, c, side)
        PROVE  SerialInv'
    <2> DEFINE q == [op |-> "confirm", cart |-> c, side |-> side,
                     next |-> ConfirmStatus(carts[c], side)]
    <2>1. Hold(r, q) /\ Current(q, carts[q.cart], items[q.cart])
      BY <1>4 DEF BeginConfirm, Current
    <2> HIDE DEF q
    <2> QED
      BY <1>2, <2>1
  <1>5. ASSUME NEW c \in Carts, BeginLock(r, c)
        PROVE  SerialInv'
    <2> DEFINE q == [op |-> "lock", cart |-> c]
    <2>1. Hold(r, q) /\ Current(q, carts[q.cart], items[q.cart])
      BY <1>5 DEF BeginLock, Current
    <2> HIDE DEF q
    <2> QED
      BY <1>2, <2>1
  <1>6. ASSUME NEW q, q.op \in {"expire", "reject", "convert", "insert"}, Hold(r, q)
        PROVE  SerialInv'
    BY <1>2, <1>6 DEF Current
  <1>7. ASSUME NEW c \in Carts, BeginExpire(r, c) \/ BeginReject(r, c) \/ BeginConvert(r, c)
        PROVE  SerialInv'
    <2>1. \E q : q.op \in {"expire", "reject", "convert"} /\ Hold(r, q)
      BY <1>7 DEF BeginExpire, BeginReject, BeginConvert
    <2> QED
      BY <1>6, <2>1
  <1>8. ASSUME NEW origin, NEW line, Hold(r, [op |-> "insert", origin |-> origin, line |-> line])
        PROVE  SerialInv'
    BY <1>6, <1>8
  <1>9. ASSUME NEW p \in Products, NEW valid \in BOOLEAN, BeginCatalog(r, p, valid)
        PROVE  SerialInv'
    <2>1. ASSUME NEW c \in MergeTargets, NEW at, NEW line,
                 Hold(r, [op |-> "catalogLine", cart |-> c, at |-> at,
                          reset |-> NeedsReset(carts[c]), line |-> line])
          PROVE  SerialInv'
      <3> DEFINE q == [op |-> "catalogLine", cart |-> c, at |-> at,
                       reset |-> NeedsReset(carts[c]), line |-> line]
      <3>1. Current(q, carts[q.cart], items[q.cart]) /\ Hold(r, q)
        BY <2>1 DEF Current, MergeTargets
      <3> HIDE DEF q
      <3> QED
        BY <1>2, <3>1
    <2> QED
      BY <1>8, <1>9, <2>1 DEF BeginCatalog
  <1>10. ASSUME NEW origin, NEW line, BeginMaterialize(r, origin, line)
         PROVE  SerialInv'
    <2>1. ASSUME NEW c \in FoundFor(origin),
                 Hold(r, [op |-> "refresh", cart |-> c, reset |-> NeedsReset(carts[c]), line |-> line])
          PROVE  SerialInv'
      <3> DEFINE q == [op |-> "refresh", cart |-> c, reset |-> NeedsReset(carts[c]), line |-> line]
      <3>1. Current(q, carts[q.cart], items[q.cart]) /\ Hold(r, q)
        BY <2>1 DEF Current
      <3> HIDE DEF q
      <3> QED
        BY <1>2, <3>1
    <2> QED
      BY <1>8, <1>10, <2>1 DEF BeginMaterialize
  <1> QED
    BY <1>3, <1>4, <1>5, <1>7, <1>9, <1>10 DEF BeginStep

\* The statuses that say nothing of the confirmations.
LEMMA AgreedCases ==
    ASSUME NEW row
    PROVE  /\ row.status \in {"EXPIRED", "REJECTED", "CONVERTED_TO_ORDER", "ABSENT"} => Agreed(row)
           /\ row.status \in Preparation /\ row.confirmed = {} => Agreed(row)
           /\ row.status = BOTH /\ row.confirmed = Sides => Agreed(row)
           /\ row.status = "LOCKED_FOR_ORDER" /\ row.confirmed = Sides => Agreed(row)
           /\ \A side \in Sides :
                 row.status = ConfirmedBy(side) /\ row.confirmed = {side} => Agreed(row)
  BY DEF Agreed, Preparation, ConfirmedBy, BOTH, Sides

\* A confirmation decided on a row that agrees leaves one that agrees.
LEMMA ConfirmAgrees ==
    ASSUME NEW row \in CartRow, NEW side \in Sides, Agreed(row), MayConfirm(row, side),
           NEW new \in CartRow, new.status = ConfirmStatus(row, side),
           new.confirmed = row.confirmed \cup {side}
    PROVE  Agreed(new)
  <1>1. Other(side) \in Sides /\ Sides = {side, Other(side)} /\ side # Other(side)
    BY DEF Other, Sides
  <1>2. CASE row.status \in Preparation
    <2>1. row.confirmed = {} /\ row.status # ConfirmedBy(Other(side))
      BY <1>1, <1>2 DEF Agreed, Preparation, ConfirmedBy
    <2>2. new.status = ConfirmedBy(side) /\ new.confirmed = {side}
      BY <2>1 DEF ConfirmStatus
    <2> QED
      BY <2>2, AgreedCases
  <1>3. CASE row.status = ConfirmedBy(Other(side))
    <2>1. row.confirmed = {Other(side)}
      BY <1>1, <1>3 DEF Agreed
    <2>2. new.status = BOTH /\ new.confirmed = Sides
      BY <1>1, <1>3, <2>1 DEF ConfirmStatus
    <2> QED
      BY <2>2, AgreedCases
  <1>4. row.status # ConfirmedBy(side)
    BY DEF Agreed, MayConfirm
  <1>5. ConfirmedBy("buyer") \in {ConfirmedBy(side), ConfirmedBy(Other(side))}
        /\ ConfirmedBy("seller") \in {ConfirmedBy(side), ConfirmedBy(Other(side))}
    BY <1>1 DEF Sides, Other
  <1> QED
    BY <1>2, <1>3, <1>4, <1>5 DEF MayConfirm

\* A row that asks for no reset has no confirmation, and is in no confirmed status.
LEMMA ResetUnneeded ==
    ASSUME NEW row \in CartRow, ~NeedsReset(row)
    PROVE  row.confirmed = {} /\ (row.status \in Mergeable => row.status \in Preparation)
  BY DEF NeedsReset, Mergeable

\* A write half of a cart served alone.
LEMMA CommitCurrent ==
    ASSUME SerialInv, IInv', OneHandlerPerCart, NEW r \in Requests, CommitStep(r)
    PROVE  SerialInv'
  <1> DEFINE c == req[r].cart
             row == carts[c]
  <1>0. /\ TypeOK /\ IInv /\ \A d \in Carts : Agreed(carts[d])
        /\ Holding(req[r]) => /\ c \in Carts /\ row \in CartRow /\ Agreed(row)
                              /\ Current(req[r], row, items[c])
        /\ req[r] \in Request \cup {Idle} /\ ~Holding(Idle)
    BY PendingType DEF SerialInv, IInv, Holding, TypeOK, Idle
  <1>1. ASSUME NEW new, Agreed(new), Write(r, new), Holding(req[r]),
               \A d \in Carts \ {c} : items'[d] = items[d]
        PROVE  SerialInv'
    BY <1>0, <1>1, RowWritten DEF Write
  <1>2. CASE CommitReview(r)
    <2>1. /\ Holding(req[r]) /\ Current(req[r], row, items[c]) /\ row.status = "DRAFT"
      BY <1>0, <1>2 DEF CommitReview, Holding, Current
    <2> DEFINE new == [row EXCEPT !.status = "READY_FOR_REVIEW"]
    <2>2. new.status \in Preparation /\ new.confirmed = {}
      BY <1>0, <2>1 DEF Agreed, Preparation, CartRow
    <2>3. Write(r, new) /\ items' = items
      BY <1>2 DEF CommitReview
    <2> HIDE DEF new
    <2> QED
      BY <1>1, <2>1, <2>2, <2>3, AgreedCases
  <1>3. CASE CommitConfirm(r)
    <2> DEFINE new == [row EXCEPT !.status = req[r].next, !.confirmed = row.confirmed \cup {req[r].side}]
    <2>1. Holding(req[r]) /\ req[r].side \in Sides /\ req[r].next \in Confirmed
      BY <1>0, <1>3, RequestByOp DEF CommitConfirm, Holding, ConfirmRequest
    <2>2. MayConfirm(row, req[r].side) /\ req[r].next = ConfirmStatus(row, req[r].side)
      BY <1>0, <1>3, <2>1 DEF CommitConfirm, Current
    <2>3. row.confirmed \cup {req[r].side} \in SUBSET Sides /\ req[r].next \in Status
      BY <1>0, <2>1 DEF CartRow, Status, Mergeable
    <2>4. /\ new \in CartRow
          /\ new.status = req[r].next /\ new.confirmed = row.confirmed \cup {req[r].side}
      BY <1>0, <2>1, <2>3 DEF CartRow
    <2>5. Write(r, new) /\ items' = items
      BY <1>3 DEF CommitConfirm
    <2> HIDE DEF new
    <2>6. Agreed(new)
      BY <1>0, <2>1, <2>2, <2>4, ConfirmAgrees
    <2> QED
      BY <1>1, <2>1, <2>5, <2>6
  <1>4. CASE CommitLock(r)
    <2>1. Holding(req[r]) /\ MayLock(row, items[c])
      BY <1>0, <1>4 DEF CommitLock, Holding, Current
    <2> DEFINE new == [row EXCEPT !.status = "LOCKED_FOR_ORDER"]
    <2>2. new.status = "LOCKED_FOR_ORDER" /\ new.confirmed = Sides
      BY <1>0, <2>1 DEF MayLock, CartRow
    <2>3. Write(r, new) /\ items' = items
      BY <1>4 DEF CommitLock
    <2> HIDE DEF new
    <2> QED
      BY <1>1, <2>1, <2>2, <2>3, AgreedCases
  <1>5. CASE CommitExpire(r) \/ CommitReject(r)
    <2>1. PICK new \in {[row EXCEPT !.status = "EXPIRED"],
                        [row EXCEPT !.status = "REJECTED", !.convertible = FALSE]} :
             Write(r, new) /\ items' = items
      BY <1>5 DEF CommitExpire, CommitReject
    <2>2. Holding(req[r])
      BY <1>5 DEF CommitExpire, CommitReject, Holding
    <2>3. new.status \in {"EXPIRED", "REJECTED"}
      BY <1>0, <2>1, <2>2 DEF CartRow
    <2> QED
      BY <1>1, <2>1, <2>2, <2>3, AgreedCases
  <1>6. CASE CommitRefresh(r)
    <2> DEFINE kept == IF req[r].reset THEN ConfirmationReset(row) ELSE row
               new == [kept EXCEPT !.status = "READY_FOR_REVIEW", !.convertible = TRUE]
    <2>1. Holding(req[r]) /\ req[r].reset = NeedsReset(row)
      BY <1>0, <1>6 DEF CommitRefresh, Holding, Current
    <2>2. kept \in CartRow /\ kept.confirmed = {}
      <3>1. CASE req[r].reset
        BY <1>0, <2>1, <3>1, RowType DEF ConfirmationReset, CartRow
      <3>2. CASE ~req[r].reset
        BY <1>0, <2>1, <3>2, ResetUnneeded
      <3> QED
        BY <3>1, <3>2
    <2>3. Write(r, new) /\ \A d \in Carts \ {c} : items'[d] = items[d]
      BY <1>0, <1>6, <2>1 DEF CommitRefresh, TypeOK
    <2> HIDE DEF kept
    <2>4. new.status \in Preparation /\ new.confirmed = {}
      BY <2>2 DEF CartRow, Preparation
    <2> HIDE DEF new
    <2> QED
      BY <1>1, <2>1, <2>3, <2>4, AgreedCases
  <1>7. CASE CommitInsert(r)
    <2>1. PICK d \in Carts :
             /\ carts[d].status = "ABSENT"
             /\ carts' = [carts EXCEPT ![d] =
                  [origin |-> req[r].origin,
                   status |-> IF req[r].origin = "manual" THEN "DRAFT" ELSE "READY_FOR_REVIEW",
                   confirmed |-> {}, convertible |-> TRUE, order |-> NoOrder]]
             /\ items' = [items EXCEPT ![d] = <<req[r].line>>]
      BY <1>7 DEF CommitInsert
    <2>2. /\ \A e \in Carts \ {d} : carts'[e] = carts[e] /\ items'[e] = items[e]
          /\ carts'[d].status \in Preparation /\ carts'[d].confirmed = {}
      BY <1>0, <2>1 DEF TypeOK, Preparation
    <2>3. \A e \in Carts : Agreed(carts'[e])
      BY <1>0, <2>2, AgreedCases
    <2>4. ASSUME NEW s \in Requests \ {r}, Holding(req[s])
          PROVE  req[s].cart \in Carts \ {d}
      BY <1>0, <2>1, <2>4, PendingType DEF IInv, PendingSane, Holding
    <2>5. req' = [req EXCEPT ![r] = Idle]
      BY <1>7 DEF CommitInsert
    <2> QED
      BY <1>0, <2>2, <2>3, <2>4, <2>5, SerialStep
  <1>8. CASE CommitCatalogLine(r)
    <2> DEFINE q == [op |-> "catalogCart", cart |-> c, reset |-> req[r].reset, created |-> req[r].at = 0]
    <2>1. Holding(req[r]) /\ Current(req[r], row, items[c]) /\ req[r].op = "catalogLine"
      BY <1>0, <1>8 DEF CommitCatalogLine, Holding
    <2>2. req' = [req EXCEPT ![r] = q] /\ carts' = carts
      BY <1>8 DEF CommitCatalogLine
    <2>3. \A d \in Carts \ {c} : items'[d] = items[d]
      BY <1>0, <1>8, <2>1 DEF CommitCatalogLine, TypeOK
    <2>4. q.cart = c /\ Current(q, row, items'[c])
      BY <2>1 DEF Current
    <2> HIDE DEF q
    <2>5. ASSUME NEW s \in Requests \ {r}, Holding(req[s])
          PROVE  req[s].cart \in Carts \ {c}
      BY <1>0, <2>1, <2>5, PendingType DEF OneHandlerPerCart, Holding
    <2> QED
      BY <1>0, <2>2, <2>3, <2>4, <2>5, SerialStep
  <1>9. CASE CommitCatalogCart(r)
    <2> DEFINE new == IF req[r].reset THEN ConfirmationReset(row)
                      ELSE IF req[r].created THEN [row EXCEPT !.status = "READY_FOR_REVIEW"]
                      ELSE row
    <2>1. Holding(req[r]) /\ req[r].reset = NeedsReset(row) /\ row.status \in Mergeable
      BY <1>0, <1>9 DEF CommitCatalogCart, Holding, Current
    <2>2. new.status \in Preparation /\ new.confirmed = {}
      <3>1. CASE req[r].reset
        BY <1>0, <2>1, <3>1 DEF ConfirmationReset, CartRow, Preparation
      <3>2. CASE ~req[r].reset
        <4>1. row.confirmed = {} /\ row.status \in Preparation
          BY <1>0, <2>1, <3>2, ResetUnneeded
        <4> QED
          BY <1>0, <2>1, <3>2, <4>1 DEF CartRow, Preparation
      <3> QED
        BY <3>1, <3>2
    <2>3. Write(r, new) /\ items' = items
      BY <1>9 DEF CommitCatalogCart
    <2> HIDE DEF new
    <2> QED
      BY <1>1, <2>1, <2>2, <2>3, AgreedCases
  <1>10. CASE CommitConvert(r)
    <2>1. Holding(req[r]) /\ req' = [req EXCEPT ![r] = Idle] /\ items' = items
      BY <1>10 DEF CommitConvert, Holding
    <2>2. CASE carts' = carts
      BY <1>0, <2>1, <2>2, SerialStep
    <2>3. ASSUME NEW o, carts' = [carts EXCEPT ![c].status = "CONVERTED_TO_ORDER", ![c].order = o]
          PROVE  SerialInv'
      <3> DEFINE new == [row EXCEPT !.status = "CONVERTED_TO_ORDER", !.order = o]
      <3>1. carts' = [carts EXCEPT ![c] = new] /\ new.status = "CONVERTED_TO_ORDER"
        BY <1>0, <2>1, <2>3 DEF TypeOK, CartRow
      <3> HIDE DEF new
      <3> QED
        BY <1>0, <2>1, <3>1, AgreedCases, RowWritten
    <2> QED
      BY <1>10, <2>2, <2>3 DEF CommitConvert
  <1> QED
    BY <1>2, <1>3, <1>4, <1>5, <1>6, <1>7, <1>8, <1>9, <1>10 DEF CommitStep

LEMMA SerialInductive ==
    /\ Init /\ IInv => SerialInv
    /\ SerialInv /\ IInv' /\ OneHandlerPerCart /\ [Next]_vars => SerialInv'
  <1>1. ASSUME Init, IInv PROVE SerialInv
    <2>1. \A c \in Carts : Agreed(carts[c])
      BY <1>1, AgreedCases DEF Init, Absent
    <2>2. \A r \in Requests : ~Holding(req[r])
      BY <1>1 DEF Init, Idle, Holding
    <2> QED
      BY <1>1, <2>1, <2>2 DEF SerialInv
  <1>2. ASSUME SerialInv, IInv', OneHandlerPerCart, [Next]_vars PROVE SerialInv'
    <2>1. CASE UNCHANGED vars
      BY <1>2, <2>1 DEF vars, SerialInv
    <2>2. ASSUME NEW r \in Requests, Fail(r) PROVE SerialInv'
      <3>1. /\ req' = [req EXCEPT ![r] = Idle] /\ carts' = carts /\ items' = items
            /\ ~Holding(Idle) /\ \A c \in Carts : Agreed(carts[c])
        BY <1>2, <2>2 DEF Fail, Holding, Idle, SerialInv
      <3> QED
        BY <1>2, <3>1, SerialStep
    <2> QED
      BY <1>2, <2>1, <2>2, BeginCurrent, CommitCurrent DEF Next
  <1> QED
    BY <1>1, <1>2

LEMMA SerialAlways == Spec /\ []OneHandlerPerCart => []SerialInv
  BY SerialInductive, Inductive, PTL DEF Spec

\* A cart that both sides confirmed says so, and only such a cart, for any carts and requests,
\* while no two requests hold the same cart.
THEOREM AgreeWhenSerial == Spec /\ []OneHandlerPerCart => []ConfirmationsAgree
  <1>1. ASSUME SerialInv PROVE ConfirmationsAgree
    <2>1. ASSUME NEW c \in Carts, carts[c].status \in Confirmed
          PROVE  carts[c].status = BOTH <=> carts[c].confirmed = Sides
      <3>1. Agreed(carts[c])
        BY <1>1 DEF SerialInv
      <3>2. CASE carts[c].status = BOTH
        BY <3>1, <3>2 DEF Agreed
      <3>3. ASSUME NEW side \in Sides, carts[c].status = ConfirmedBy(side)
            PROVE  carts[c].status # BOTH /\ carts[c].confirmed # Sides
        BY <3>1, <3>3 DEF Agreed, ConfirmedBy, BOTH, Sides
      <3> QED
        BY <2>1, <3>2, <3>3 DEF Confirmed, ConfirmedBy, Sides
    <2> QED
      BY <2>1 DEF ConfirmationsAgree
  <1> QED
    BY <1>1, SerialAlways, PTL

-----------------------------------------------------------------------------
\* What a step does to the lines and the confirmations of one cart, when no request dies
\* between its two writes.
LEMMA ContentStep ==
    ASSUME SerialInv, ~MayCrash, [Next]_vars, NEW c \in Carts
    PROVE  \/ carts'[c].confirmed = {}
           \/ ~Touching(c) /\ items'[c] = items[c]
           \/ Touching(c)'
  <1>0. /\ TypeOK /\ \A d \in Carts : Agreed(carts[d]) /\ carts[d] \in CartRow
        /\ \A r \in Requests : Holding(req[r]) =>
              req[r].cart \in Carts /\ Current(req[r], carts[req[r].cart], items[req[r].cart])
    BY PendingType DEF SerialInv, IInv, TypeOK, Holding
  <1>1. CASE UNCHANGED vars
    BY <1>1 DEF vars, Touching
  <1>2. ASSUME NEW r \in Requests, BeginStep(r) \/ CommitStep(r) \/ Fail(r),
               req[r].op # "catalogCart", Touching(c)
        PROVE  Touching(c)'
    <2>1. \A s \in Requests \ {r} : req'[s] = req[s]
      <3>1. \E q : req' = [req EXCEPT ![r] = q]
        BY <1>2 DEF BeginStep, CommitStep, Fail, BeginReview, BeginConfirm, BeginLock, BeginExpire,
              BeginReject, BeginConvert, BeginCatalog, BeginMaterialize, Hold, CommitReview,
              CommitConfirm, CommitLock, CommitExpire, CommitReject, CommitRefresh, CommitInsert,
              CommitCatalogLine, CommitCatalogCart, CommitConvert, Write
      <3> QED
        BY <1>0, <3>1 DEF TypeOK
    <2> QED
      BY <1>2, <2>1 DEF Touching
  <1>3. ASSUME NEW r \in Requests, BeginStep(r) \/ CommitStep(r) \/ Fail(r),
               req[r].op = "catalogCart"
        PROVE  CommitCatalogCart(r)
    BY <1>3 DEF BeginStep, CommitStep, Fail, BeginReview, BeginConfirm, BeginLock, BeginExpire,
          BeginReject, BeginConvert, BeginCatalog, BeginMaterialize, Hold, CommitReview,
          CommitConfirm, CommitLock, CommitExpire, CommitReject, CommitRefresh, CommitInsert,
          CommitCatalogLine, CommitConvert, Idle
  <1>4. ASSUME NEW r \in Requests, CommitCatalogCart(r)
        PROVE  IF req[r].cart = c THEN carts'[c].confirmed = {}
               ELSE items'[c] = items[c] /\ (Touching(c) => Touching(c)')
    <2>1. /\ Holding(req[r]) /\ req[r].reset = NeedsReset(carts[req[r].cart]) /\ items' = items
          /\ req' = [req EXCEPT ![r] = Idle]
      BY <1>0, <1>4 DEF CommitCatalogCart, Holding, Current, Write
    <2>2. CASE req[r].cart = c
      <3> DEFINE new == IF req[r].reset THEN ConfirmationReset(carts[c])
                        ELSE IF req[r].created THEN [carts[c] EXCEPT !.status = "READY_FOR_REVIEW"]
                        ELSE carts[c]
      <3>1. new.confirmed = {}
        BY <1>0, <2>1, <2>2, ResetUnneeded DEF ConfirmationReset, CartRow
      <3>2. carts' = [carts EXCEPT ![c] = new]
        BY <1>4, <2>2 DEF CommitCatalogCart, Write
      <3> HIDE DEF new
      <3> QED
        BY <1>0, <2>2, <3>1, <3>2 DEF TypeOK
    <2>3. CASE req[r].cart # c
      BY <1>0, <2>1, <2>3 DEF Touching, TypeOK
    <2> QED
      BY <2>2, <2>3
  <1>5. ASSUME NEW r \in Requests, CommitRefresh(r), req[r].cart = c
        PROVE  carts'[c].confirmed = {}
    <2> DEFINE kept == IF req[r].reset THEN ConfirmationReset(carts[c]) ELSE carts[c]
               new == [kept EXCEPT !.status = "READY_FOR_REVIEW", !.convertible = TRUE]
    <2>1. req[r].reset = NeedsReset(carts[c])
      BY <1>0, <1>5 DEF CommitRefresh, Holding, Current
    <2>2. kept \in CartRow /\ kept.confirmed = {}
      <3>1. carts[c] \in CartRow /\ ConfirmationReset(carts[c]) \in CartRow
        BY <1>0, RowType
      <3>2. ConfirmationReset(carts[c]).confirmed = {}
        BY <3>1 DEF ConfirmationReset, CartRow
      <3>3. ~req[r].reset => carts[c].confirmed = {}
        BY <2>1, <3>1, ResetUnneeded
      <3> QED
        BY <3>1, <3>2, <3>3
    <2>3. carts' = [carts EXCEPT ![c] = new]
      BY <1>5 DEF CommitRefresh, Write
    <2> HIDE DEF kept
    <2>4. new.confirmed = {}
      BY <2>2 DEF CartRow
    <2> HIDE DEF new
    <2> QED
      BY <1>0, <2>3, <2>4 DEF TypeOK
  <1>6. ASSUME NEW r \in Requests, CommitInsert(r)
        PROVE  carts'[c].confirmed = {} \/ items'[c] = items[c]
    BY <1>0, <1>6 DEF CommitInsert, TypeOK
  <1>7. ASSUME NEW r \in Requests, CommitCatalogLine(r), req[r].cart = c
        PROVE  Touching(c)'
    <2>1. req'[r] = [op |-> "catalogCart", cart |-> c, reset |-> req[r].reset, created |-> req[r].at = 0]
      BY <1>0, <1>7 DEF CommitCatalogLine, TypeOK
    <2> QED
      BY <2>1 DEF Touching
  <1>8. ASSUME NEW r \in Requests, CommitRefresh(r) \/ CommitCatalogLine(r), req[r].cart # c
        PROVE  items'[c] = items[c]
    BY <1>0, <1>8 DEF CommitRefresh, CommitCatalogLine, TypeOK
  <1>9. ASSUME NEW r \in Requests, BeginStep(r) \/ CommitStep(r) \/ Fail(r),
               ~CommitRefresh(r), ~CommitCatalogLine(r), ~CommitInsert(r)
        PROVE  items' = items
    BY <1>9, BeginHolds DEF CommitStep, Fail, CommitReview, CommitConfirm, CommitLock, CommitExpire,
          CommitReject, CommitCatalogCart, CommitConvert
  <1>10. ASSUME NEW r \in Requests, BeginStep(r) \/ CommitStep(r) \/ Fail(r)
         PROVE  \/ carts'[c].confirmed = {}
                \/ ~Touching(c) /\ items'[c] = items[c]
                \/ Touching(c)'
    <2>1. CASE CommitCatalogCart(r)
      BY <1>4, <2>1
    <2>2. CASE ~CommitCatalogCart(r)
      <3>1. Touching(c) => Touching(c)'
        BY <1>2, <1>3, <1>10, <2>2
      <3>2. carts'[c].confirmed = {} \/ items'[c] = items[c] \/ Touching(c)'
        BY <1>5, <1>6, <1>7, <1>8, <1>9, <1>10
      <3> QED
        BY <3>1, <3>2
    <2> QED
      BY <2>1, <2>2
  <1> QED
    BY <1>1, <1>10 DEF Next

\* A cart locked for order is locked on the lines both sides confirmed, for any carts, lines
\* and requests, while no two requests hold the same cart and none dies half way.
THEOREM LockedOnAttested ==
    AttestSpec /\ []OneHandlerPerCart => [](~MayCrash => LockedContentAttested)
  <1>1. AttestInit /\ IInv => AttestInv
    BY SerialInductive DEF AttestInit, AttestInv, Attested, Init, Absent
  <1>2. ASSUME ~MayCrash, AttestInv, IInv', OneHandlerPerCart, [AttestNext]_<<vars, attested>>
        PROVE  AttestInv'
    <2>1. [Next]_vars
      BY <1>2 DEF AttestNext
    <2>2. SerialInv'
      BY <1>2, <2>1, SerialInductive DEF AttestInv
    <2>3. CASE UNCHANGED <<vars, attested>>
      BY <1>2, <2>2, <2>3 DEF vars, AttestInv, Attested, Touching
    <2>4. CASE AttestNext
      <3>1. ASSUME NEW c \in Carts, NEW side \in Sides, side \in carts'[c].confirmed, ~Touching(c)'
            PROVE  attested'[c][side] = items'[c]
        <4>1. ~Touching(c) /\ items'[c] = items[c]
          BY <1>2, <2>1, <3>1, ContentStep DEF AttestInv
        <4>2. attested'[c][side] = IF side \in carts[c].confirmed THEN attested[c][side] ELSE items[c]
          BY <2>4, <3>1 DEF AttestNext
        <4>3. side \in carts[c].confirmed => attested[c][side] = items[c]
          BY <1>2, <4>1 DEF AttestInv, Attested
        <4> QED
          BY <4>1, <4>2, <4>3
      <3> QED
        BY <2>2, <3>1 DEF AttestInv, Attested
    <2> QED
      BY <1>2, <2>3, <2>4
  <1>3. ASSUME AttestInv PROVE LockedContentAttested
    <2>1. ASSUME NEW c \in Carts, carts[c].status = "LOCKED_FOR_ORDER", NEW side \in Sides
          PROVE  side \in carts[c].confirmed /\ attested[c][side] = items[c]
      <3>1. side \in carts[c].confirmed
        BY <1>3, <2>1 DEF AttestInv, SerialInv, Agreed
      <3>2. ~Touching(c)
        <4>1. ASSUME NEW r \in Requests, req[r].op = "catalogCart", req[r].cart = c
              PROVE  FALSE
          <5>1. carts[c].status \in Mergeable
            BY <1>3, <4>1 DEF AttestInv, SerialInv, Holding, Current
          <5> QED
            BY <2>1, <5>1 DEF Mergeable, Preparation, Confirmed, BOTH
        <4> QED
          BY <4>1 DEF Touching
      <3> QED
        BY <1>3, <3>1, <3>2 DEF AttestInv, Attested
    <2> QED
      BY <2>1 DEF LockedContentAttested
  <1>4. AttestSpec => Spec
    <2>1. AttestInit => Init
      BY DEF AttestInit
    <2>2. [AttestNext]_<<vars, attested>> => [Next]_vars
      BY DEF AttestNext
    <2> QED
      BY <2>1, <2>2, PTL DEF AttestSpec, Spec
  <1>5. CASE MayCrash
    BY <1>5, PTL
  <1>6. CASE ~MayCrash
    <2>1. AttestInv /\ IInv' /\ OneHandlerPerCart /\ [AttestNext]_<<vars, attested>> => AttestInv'
      BY <1>2, <1>6
    <2>2. AttestInv => (~MayCrash => LockedContentAttested)
      BY <1>3
    <2> QED
      BY <1>1, <1>4, <2>1, <2>2, Inductive, PTL DEF AttestSpec
  <1> QED
    BY <1>5, <1>6

=============================================================================
