----------------------------- MODULE RelationalCart -----------------------------
(***************************************************************************)
(* The relational cart of the core domain service: the carts of one        *)
(* buyer/seller corridor, their lines, and the orders they are converted   *)
(* to (relational-cart.service.ts, relational-cart-conversion.service.ts). *)
(*                                                                         *)
(* Each handler reads a row, decides on what it read, and writes the row   *)
(* by id in a later statement, with awaits in between.  A handler is two   *)
(* actions here: Begin... takes the snapshot and keeps in req[r] what the  *)
(* write will use; Commit... is the write.  Anything may happen between    *)
(* the two.  Only the conversion re-reads in a transaction.                *)
(*                                                                         *)
(* What a handler asks of others between the two (feature flags, the       *)
(* participant check, the corridor policy, prices) may refuse at any time: *)
(* that is Fail, which also stands for a database error or a dead process. *)
(***************************************************************************)
EXTENDS Naturals, Sequences

CONSTANTS
    Carts,              \* rows of relational_carts
    Orders,             \* rows of orders
    NoOrder,            \* convertedOrderId is null
    Products,
    Requests,           \* handler invocations that may be in flight together
    MaxQty,             \* bound: largest quantity of a line
    MaxLines,           \* bound: no line is added to a cart of this many
    MayCrash,           \* may a request die between its two writes?
    ConnectLinksCart    \* does order.create's nested connect write the cart's
                        \* convertedOrderId, as Prisma does for the side that
                        \* holds the foreign key?

ASSUME CartAssumption ==
    /\ NoOrder \notin Orders
    /\ MaxQty \in Nat \ {0}
    /\ MaxLines \in Nat \ {0}
    /\ MayCrash \in BOOLEAN
    /\ ConnectLinksCart \in BOOLEAN

VARIABLES
    carts,      \* carts[c]: the row; status ABSENT while it is not inserted
    items,      \* items[c]: the rows of relational_cart_items of c, by createdAt
    orders,     \* the orders created, with the lines copied into them
    conflicts,  \* carts whose conversion answered relational_cart_conversion_race
    req         \* req[r]: what request r has read and is about to write

vars == <<carts, items, orders, conflicts, req>>

-----------------------------------------------------------------------------
Sides == {"buyer", "seller"}

Other(side) == IF side = "buyer" THEN "seller" ELSE "buyer"

ConfirmedBy(side) == IF side = "buyer" THEN "CONFIRMED_BY_BUYER" ELSE "CONFIRMED_BY_SELLER"

BOTH == "CONFIRMED_BY_BOTH_PARTIES"

Preparation == {"DRAFT", "READY_FOR_REVIEW"}

Confirmed == {"CONFIRMED_BY_BUYER", "CONFIRMED_BY_SELLER", BOTH}

\* The statuses a direct catalogue line may be merged into.
Mergeable == Preparation \cup Confirmed

Status == Mergeable \cup
          {"LOCKED_FOR_ORDER", "CONVERTED_TO_ORDER", "REJECTED", "EXPIRED"}

\* Which keys the row carries: a negotiation cart has a negotiationId, a draft
\* cart a negotiationId and a threadId, a manual cart (direct catalogue) none.
Origin == {"negotiation", "draft", "manual"}

\* valid: lineValidationStatus is VALIDATED or SYMBOLIC_STOCK_ONLY.
Line == [product : Products, qty : 1..MaxQty, valid : BOOLEAN]

\* confirmed: the sides whose ...ConfirmedAt is set.  conversionBlockedReason
\* is left out: no code ever sets it.
CartRow == [origin : Origin, status : Status \cup {"ABSENT"}, confirmed : SUBSET Sides,
            convertible : BOOLEAN, order : Orders \cup {NoOrder}]

\* priced: the lines totalAmount was summed over; lines: the order items.
OrderRow == [id : Orders, cart : Carts, priced : Seq(Line), lines : Seq(Line)]

\* The snapshot a pending write uses, by operation.
PlainRequest   == [op : {"review", "lock", "expire", "reject"}, cart : Carts]
ConfirmRequest == [op : {"confirm"}, cart : Carts, side : Sides, next : Confirmed]
ConvertRequest == [op : {"convert"}, cart : Carts, priced : Seq(Line)]
InsertRequest  == [op : {"insert"}, origin : Origin, line : Line]
RefreshRequest == [op : {"refresh"}, cart : Carts, reset : BOOLEAN, line : Line]
LineRequest    == [op : {"catalogLine"}, cart : Carts, reset : BOOLEAN, line : Line, at : Nat]
TouchRequest   == [op : {"catalogCart"}, cart : Carts, reset : BOOLEAN, created : BOOLEAN]

Idle == [op |-> "idle"]

Request == PlainRequest \cup ConfirmRequest \cup ConvertRequest \cup InsertRequest
             \cup RefreshRequest \cup LineRequest \cup TouchRequest

\* The value of a row that is not inserted yet.
Absent == [origin |-> "manual", status |-> "ABSENT", confirmed |-> {},
           convertible |-> FALSE, order |-> NoOrder]

-----------------------------------------------------------------------------
\* Lines that may become order lines: assertLinesConvertible.
LinesConvertible(lines) == \A i \in DOMAIN lines : lines[i].valid

\* Mutants of the operators below.
NeedsResetOnlyOnceBoth(row) == row.status = BOTH

ConfirmationResetKeepsStatus(row) == [row EXCEPT !.confirmed = {}]

ConfirmStatusIgnoresOther(row, side) == ConfirmedBy(side)

\* needsConfirmationResetBecauseContentChanged.
NeedsReset(row) == row.confirmed # {} \/ row.status \in Confirmed

\* confirmationResetPrismaFragment.
ConfirmationReset(row) == [row EXCEPT !.confirmed = {}, !.status = "READY_FOR_REVIEW"]

\* The status a confirmation by side leads to, from the row it read.
ConfirmStatus(row, side) ==
    IF \/ row.status = ConfirmedBy(Other(side))
       \/ row.status \in Preparation /\ Other(side) \in row.confirmed
    THEN BOTH
    ELSE ConfirmedBy(side)

\* Not rejected by confirmCartBuyer/Seller, and not its idempotent replay.
MayConfirm(row, side) ==
    /\ row.status \in Preparation \cup {ConfirmedBy("buyer"), ConfirmedBy("seller")}
    /\ ~(row.status = ConfirmedBy(side) /\ side \in row.confirmed)

MayLock(row, lines) ==
    /\ row.status = BOTH
    /\ row.confirmed = Sides
    /\ lines # <<>>
    /\ LinesConvertible(lines)

\* Mutants of MayConvert: cartConvertibleToOrder, or the lines, are not looked at.
MayConvertRejected(row, lines) ==
    row.order = NoOrder /\ row.status = "LOCKED_FOR_ORDER" /\ LinesConvertible(lines)

MayConvertAnyLine(row, lines) ==
    row.order = NoOrder /\ row.status = "LOCKED_FOR_ORDER" /\ row.convertible

\* What convertCartToOrder asks of the row, before and inside its transaction.
MayConvert(row, lines) ==
    /\ row.order = NoOrder
    /\ row.status = "LOCKED_FOR_ORDER"
    /\ row.convertible
    /\ LinesConvertible(lines)

\* The carts createCartFromNegotiation / createCartFromConversationalDraft find:
\* by negotiationId or by threadId, whatever their status.
FoundFor(origin) ==
    {c \in Carts : /\ carts[c].status # "ABSENT"
                   /\ carts[c].origin \in (IF origin = "draft" THEN {"draft"}
                                           ELSE {"negotiation", "draft"})}

\* The carts addFromDirectCatalog may merge into.
MergeTargets == {c \in Carts : carts[c].origin = "manual" /\ carts[c].status \in Mergeable}

\* The first line of c with product p, or 0.
MatchLine(c, p) ==
    LET matching == {i \in DOMAIN items[c] : items[c][i].product = p}
    IN  IF matching = {} THEN 0 ELSE CHOOSE i \in matching : \A j \in matching : i <= j

\* Mutant: a new line starts from quantityBefore.
AddedQtyBefore(lines, at) == IF at = 0 THEN 0 ELSE lines[at].qty

\* Quantity written for an addition of one unit: nextQty, or the new line's.
AddedQty(lines, at) == IF at = 0 THEN 1 ELSE lines[at].qty + 1

FreeOrders == {o \in Orders : \A x \in orders : x.id # o}

-----------------------------------------------------------------------------
Init ==
    /\ carts = [c \in Carts |-> Absent]
    /\ items = [c \in Carts |-> <<>>]
    /\ orders = {}
    /\ conflicts = {}
    /\ req = [r \in Requests |-> Idle]

\* The read half of a handler: r has decided and holds q for its write.
Hold(r, q) ==
    /\ req[r] = Idle
    /\ req' = [req EXCEPT ![r] = q]
    /\ UNCHANGED <<carts, items, orders, conflicts>>

\* The write half: `update where id`, unconditional, row replacing the current one.
Write(r, row) ==
    /\ carts' = [carts EXCEPT ![req[r].cart] = row]
    /\ req' = [req EXCEPT ![r] = Idle]
    /\ UNCHANGED <<orders, conflicts>>

BeginReview(r, c) ==
    /\ carts[c].status = "DRAFT"
    /\ Hold(r, [op |-> "review", cart |-> c])

CommitReview(r) ==
    /\ req[r].op = "review"
    /\ Write(r, [carts[req[r].cart] EXCEPT !.status = "READY_FOR_REVIEW"])
    /\ UNCHANGED items

\* confirmCartBuyer and confirmCartSeller: the next status is decided on the read.
BeginConfirm(r, c, side) ==
    /\ MayConfirm(carts[c], side)
    /\ Hold(r, [op |-> "confirm", cart |-> c, side |-> side,
                next |-> ConfirmStatus(carts[c], side)])

CommitConfirm(r) ==
    /\ req[r].op = "confirm"
    /\ Write(r, [carts[req[r].cart] EXCEPT !.status = req[r].next,
                                           !.confirmed = @ \cup {req[r].side}])
    /\ UNCHANGED items

BeginLock(r, c) ==
    /\ MayLock(carts[c], items[c])
    /\ Hold(r, [op |-> "lock", cart |-> c])

CommitLock(r) ==
    /\ req[r].op = "lock"
    /\ Write(r, [carts[req[r].cart] EXCEPT !.status = "LOCKED_FOR_ORDER"])
    /\ UNCHANGED items

BeginExpire(r, c) ==
    /\ carts[c].status \notin {"ABSENT", "CONVERTED_TO_ORDER", "EXPIRED"}
    /\ Hold(r, [op |-> "expire", cart |-> c])

CommitExpire(r) ==
    /\ req[r].op = "expire"
    /\ Write(r, [carts[req[r].cart] EXCEPT !.status = "EXPIRED"])
    /\ UNCHANGED items

BeginReject(r, c) ==
    /\ carts[c].status \notin {"ABSENT", "CONVERTED_TO_ORDER", "REJECTED"}
    /\ Hold(r, [op |-> "reject", cart |-> c])

CommitReject(r) ==
    /\ req[r].op = "reject"
    /\ Write(r, [carts[req[r].cart] EXCEPT !.status = "REJECTED", !.convertible = FALSE])
    /\ UNCHANGED items

-----------------------------------------------------------------------------
\* createCartFromNegotiation and createCartFromConversationalDraft: whichever
\* cart findFirst returns is refreshed; with none, one is created.
BeginMaterialize(r, origin, line) ==
    \/ /\ FoundFor(origin) = {}
       /\ Hold(r, [op |-> "insert", origin |-> origin, line |-> line])
    \/ \E c \in FoundFor(origin) :
          Hold(r, [op |-> "refresh", cart |-> c, reset |-> NeedsReset(carts[c]), line |-> line])

\* One statement with its nested item writes: the lines are replaced.
CommitRefresh(r) ==
    /\ req[r].op = "refresh"
    /\ LET row == carts[req[r].cart]
            kept == IF req[r].reset THEN ConfirmationReset(row) ELSE row
       IN  Write(r, [kept EXCEPT !.status = "READY_FOR_REVIEW", !.convertible = TRUE])
    /\ items' = [items EXCEPT ![req[r].cart] = <<req[r].line>>]

\* relationalCart.create, by any of the three sources.  No unique constraint
\* covers the key, so nothing is looked up again.
CommitInsert(r) ==
    /\ req[r].op = "insert"
    /\ \E c \in Carts :
          /\ carts[c].status = "ABSENT"
          /\ carts' = [carts EXCEPT ![c] =
                [origin |-> req[r].origin,
                 status |-> IF req[r].origin = "manual" THEN "DRAFT" ELSE "READY_FOR_REVIEW",
                 confirmed |-> {}, convertible |-> TRUE, order |-> NoOrder]]
          /\ items' = [items EXCEPT ![c] = <<req[r].line>>]
    /\ req' = [req EXCEPT ![r] = Idle]
    /\ UNCHANGED <<orders, conflicts>>

\* addFromDirectCatalog, one unit of product p judged valid or not: the line to
\* write is computed from the lines read.  Bounded by MaxQty and MaxLines.
BeginCatalog(r, p, valid) ==
    \/ /\ MergeTargets = {}
       /\ Hold(r, [op |-> "insert", origin |-> "manual",
                   line |-> [product |-> p, qty |-> 1, valid |-> valid]])
    \/ \E c \in MergeTargets :
          LET at == MatchLine(c, p)
              qty == AddedQty(items[c], at)
          IN  /\ qty <= MaxQty
              /\ at = 0 => Len(items[c]) < MaxLines
              /\ Hold(r, [op |-> "catalogLine", cart |-> c, at |-> at,
                          reset |-> NeedsReset(carts[c]),
                          line |-> [product |-> p, qty |-> qty, valid |-> valid]])

\* First write: the item row.  The cart's status is not looked at again.
CommitCatalogLine(r) ==
    /\ req[r].op = "catalogLine"
    /\ LET c == req[r].cart
            at == req[r].at
       IN  /\ \/ at = 0 /\ items' = [items EXCEPT ![c] = Append(@, req[r].line)]
              \/ at \in DOMAIN items[c] /\ items' = [items EXCEPT ![c][at] = req[r].line]
           /\ req' = [req EXCEPT ![r] = [op |-> "catalogCart", cart |-> c,
                                         reset |-> req[r].reset, created |-> at = 0]]
    /\ UNCHANGED <<carts, orders, conflicts>>

\* Second write: the cart row, its confirmations reset if the row read had any.
CommitCatalogCart(r) ==
    /\ req[r].op = "catalogCart"
    /\ LET row == carts[req[r].cart]
       IN  Write(r, IF req[r].reset THEN ConfirmationReset(row)
                    ELSE IF req[r].created THEN [row EXCEPT !.status = "READY_FOR_REVIEW"]
                    ELSE row)
    /\ UNCHANGED items

-----------------------------------------------------------------------------
\* convertCartToOrder before its transaction: the subtotal is that of the lines
\* read here.
BeginConvert(r, c) ==
    /\ MayConvert(carts[c], items[c])
    /\ items[c] # <<>>
    /\ Hold(r, [op |-> "convert", cart |-> c, priced |-> items[c]])

\* Mutant: the write trusts the first read, with neither the re-read nor updateMany's
\* condition.
CommitConvertTrusting(r) ==
    /\ req[r].op = "convert"
    /\ \E o \in FreeOrders :
          /\ carts' = [carts EXCEPT ![req[r].cart].status = "CONVERTED_TO_ORDER",
                                    ![req[r].cart].order = o]
          /\ orders' = orders \cup {[id |-> o, cart |-> req[r].cart, priced |-> req[r].priced,
                                     lines |-> items[req[r].cart]]}
    /\ req' = [req EXCEPT ![r] = Idle]
    /\ UNCHANGED <<items, conflicts>>

\* The serializable transaction.  The order is created, connected to the cart, and
\* given the lines as they are now; updateMany then asks for convertedOrderId null.
\* If the connect has just set it, no row matches and everything is rolled back.
CommitConvert(r) ==
    /\ req[r].op = "convert"
    /\ LET c == req[r].cart
       IN  /\ MayConvert(carts[c], items[c])
           /\ \E o \in FreeOrders :
                 LET link == IF ConnectLinksCart THEN o ELSE carts[c].order
                 IN  IF link = NoOrder
                     THEN /\ carts' = [carts EXCEPT ![c].status = "CONVERTED_TO_ORDER",
                                                    ![c].order = o]
                          /\ orders' = orders \cup
                               {[id |-> o, cart |-> c, priced |-> req[r].priced, lines |-> items[c]]}
                          /\ UNCHANGED conflicts
                     ELSE /\ conflicts' = conflicts \cup {c}
                          /\ UNCHANGED <<carts, orders>>
    /\ req' = [req EXCEPT ![r] = Idle]
    /\ UNCHANGED items

\* A later guard refuses, the database fails, or the process dies: nothing is
\* written.  Between the two writes of addFromDirectCatalog only a crash stops r.
Fail(r) ==
    /\ req[r] # Idle
    /\ req[r].op = "catalogCart" => MayCrash
    /\ req' = [req EXCEPT ![r] = Idle]
    /\ UNCHANGED <<carts, items, orders, conflicts>>

BeginStep(r) ==
    \/ \E c \in Carts : \/ BeginReview(r, c)
                         \/ \E side \in Sides : BeginConfirm(r, c, side)
                         \/ BeginLock(r, c)
                         \/ BeginExpire(r, c)
                         \/ BeginReject(r, c)
                         \/ BeginConvert(r, c)
    \/ \E p \in Products, valid \in BOOLEAN :
          \/ BeginCatalog(r, p, valid)
          \/ \E origin \in {"negotiation", "draft"} :
                BeginMaterialize(r, origin, [product |-> p, qty |-> 1, valid |-> valid])

CommitStep(r) ==
    \/ CommitReview(r)
    \/ CommitConfirm(r)
    \/ CommitLock(r)
    \/ CommitExpire(r)
    \/ CommitReject(r)
    \/ CommitRefresh(r)
    \/ CommitInsert(r)
    \/ CommitCatalogLine(r)
    \/ CommitCatalogCart(r)
    \/ CommitConvert(r)

Next == \E r \in Requests : BeginStep(r) \/ CommitStep(r) \/ Fail(r)

Spec == Init /\ [][Next]_vars

-----------------------------------------------------------------------------
\* Every variable keeps its type, whatever the handlers overlap.
TypeOK ==
    /\ carts \in [Carts -> CartRow]
    /\ items \in [Carts -> Seq(Line)]
    /\ orders \subseteq OrderRow
    /\ conflicts \subseteq Carts
    /\ req \in [Requests -> Request \cup {Idle}]

\* However conversions, late locks and refreshes of a converted cart overlap, a cart
\* becomes at most one order, and an order's cart points back at it
\* (convertedOrderId is never lost, replaced or left dangling).
OneOrderPerCart ==
    /\ \A x, y \in orders : x.cart = y.cart => x = y
    /\ \A x \in orders : carts[x.cart].order = x.id
    /\ \A c \in Carts : carts[c].order # NoOrder =>
          \E x \in orders : x.cart = c /\ x.id = carts[c].order

\* An order has lines, and each was convertible when it was copied, even if the
\* catalogue wrote a line after the cart was locked (assertLinesConvertible runs
\* again inside the transaction).
OrderLinesConvertible ==
    \A x \in orders : x.lines # <<>> /\ LinesConvertible(x.lines)

\* A status that says a side confirmed is backed by a confirmation column: a stale
\* write never leaves CONFIRMED_BY_BUYER without buyerConfirmedAt, nor
\* CONFIRMED_BY_BOTH_PARTIES with neither.
ConfirmedStatusBacked ==
    \A c \in Carts : LET row == carts[c] IN
        /\ \A side \in Sides : row.status = ConfirmedBy(side) => side \in row.confirmed
        /\ row.status = BOTH => row.confirmed # {}

\* The carts keep the promise of OrderMaterialization: an order is made only from a
\* cart no party has rejected since it was last materialised, and is kept for good.
Materialization ==
    INSTANCE OrderMaterialization WITH
        phase <- [c \in Carts |-> IF carts[c].convertible THEN "open" ELSE "closed"],
        orderOf <- [c \in Carts |-> carts[c].order]

Implements == Materialization!MatSpec

\* Serial runs only: a cart that both sides confirmed says so, and only such a cart.
ConfirmationsAgree ==
    \A c \in Carts : carts[c].status \in Confirmed =>
        (carts[c].status = BOTH <=> carts[c].confirmed = Sides)

=============================================================================
