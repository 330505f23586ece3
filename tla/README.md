# VENEXT: a TLA+ model of the commerce core

This directory models the part of VENEXT that moves an order: the corridor
between two organizations, the negotiation and the cart they agree on, the order
it becomes, the order's execution, its fulfillment and reception with their
incidents, and the wallets' money; and beside it the review of strategic scenarios
and the queue a phone replays when it is online again. The modules are written
from the sources under `services/core-domain-service/src`, `prisma/schema.prisma`
and, for the queue, `packages/commerce-offline-foundation`; `PROJECT.json` maps
every definition to the lines it stands for.

All but the queue is NestJS handlers over one PostgreSQL database through Prisma. The
hard behaviour is the same everywhere: a handler reads a row, awaits other
services (feature flags, participants, the corridor, prices), and then writes
by id, or in a transaction at the default isolation READ COMMITTED. Between any
two statements another handler may commit, and the process may die. The models
keep each such gap.

## 1. Inventory

| component | state | operations | asks of, or writes to | what is hard | what makes it correct |
|---|---|---|---|---|---|
| Relational cart (`relational-cart`) | `relational_carts`, `relational_cart_items`, `orders`, `order_items` | materialise from a negotiation or draft, add from the catalogue, review, confirm, lock, expire, reject, convert | negotiation, catalogue, corridor; creates the order | stale snapshots, write by id, two writes of one handler, conversion races | one order per cart, orders made of valid agreed lines, confirmations not lost or invented |
| Order execution (`relational-orders`) | `orders.relationalOrderExecutionStatus`, `..._execution_events` | applyTransition | corridor; creates the fulfillment record | re-check and update are two statements | only policy edges, a journal that explains the status |
| Fulfillment and reception (`relational-fulfillment`) | `relational_fulfillment_records`, proofs, incidents | advance, submit proof, validate, partial, reject, report, complete | reads execution, tasks, incidents | late reports overwrite statuses; completion checks four tables | proof before validation, one end, no completion over an open incident |
| Incident resolution | incident rows | propose, accept (each side), then realign | completes the fulfillment | both sides accept at once | resolved only by both |
| Coordination tasks | task rows | create, move, confirm, complete, reopen | block completion | stale confirmations | completed only when confirmed |
| Wallet transactions (`transaction-engine`, `wallet-platform`) | `wallets.balance`, `transactions` | initiate (payment, transfer), top-up | payment provider | check outside the transaction, provider inside it, retries, deadlocks | the ledger explains the balances, a key pays once |
| Corridor governance (`relationship-governance`, `graph/relationship`) | `business_relationships.status`, `.corridorState`, touches in memory | accept, reject, block, back-office patch; mirror, touch timer, health computation, matrix transition | refuses operations of all the above; follows the relationship | work left behind by a request, a check long before an unconditional write, two paths with different rules | matrix edges, protected states kept, a block reaches the corridor |
| Sponsored conversation (`sponsored-conversation`) | the window, its relationship requests | link, sync after a decision, apply the outcome, announce, expire | the corridor; clients | several syncs of one decision, a claim and its consequences apart | an acceptance announced once, requests that say what the window says |
| Negotiation engine | `negotiations`, its carts | propose, accept, reject, convert | creates the cart without waiting for it | status not re-checked, a promise nobody awaits | an accepted negotiation gets one cart of the terms accepted last |
| Scenario review (`relational-scenario-review`) | boards, their events, metadata | create, approve, reject, re-evaluate, archive, executive validation, attach a plan | orchestration | metadata written back whole, reopened boards, a search apart from its insertion | one chain of decisions, the approvals a board requires, one open board |
| Offline queue (client) | a list in local storage | enqueue, discard, replay, mark | BFF | list overwritten after awaits, two tabs, no answer taken for success | order kept, no action lost, none posted more often than its attempts |
| Recommendations, orchestration | recommendation and orchestration rows | generate, expire, plan | one another | writes outside the transaction | one plan per board |
| Commercial graph | derived edges and scores | rebuild | read the relationship | stale by design | idempotent rebuild |
| Realtime fan-out, API gateway | sockets | push a signal | clients | lost signals | nothing depends on a signal |
| Commerce BFF, AI gateway, stub services | none that lasts | proxy, mock, constant answers | core service | a fallback shown for live data | not behaviour of the core |
| Intelligence, observatory and economic modules | derived rows | rebuild from core tables | read the core | stale by design | idempotent rebuild |
| Client packages and applications | page state | rendering, gating, demo data | BFF | local stores | views |

`PROJECT.json` lists every component with its sources and the reason when it is
not modelled, and the hazards with the properties that watch them.

**How the parts interact.** An accepted negotiation, a draft or a catalogue pick
creates or refreshes a cart. When both sides have confirmed, the cart is locked,
then converted: one transaction makes the order. `applyTransition` moves the
order's execution status, and on reaching READY_FOR_DISPATCH or DISPATCHED makes
the fulfillment record in the same transaction. Reception handlers move the
record, incidents block it, tasks block its completion, and completion asks that
the order is RECEIVED or COMPLETED. Every operation first asks the
corridor, whose state follows the status of the relationship by a mirror after each
decision, by a timer for what was touched, and by the outcome of a sponsored
conversation. Money is independent of orders today: a transaction names no order.

## 2. Modules

| module | models | state and actions |
|---|---|---|
| `OrderMaterialization` | abstract: a cart, open or closed, becomes at most one order, for good | `phase`, `orderOf`; Open, Close, Materialize |
| `RelationalCart` | `relational-cart.service`, `-conversion.service` | `carts`, `items`, `orders`, `req`; a `Begin...`/`Commit...` pair for each handler, two commits for `addFromDirectCatalog` (line, then cart), one serializable `CommitConvert` |
| `CartAttestation` | RelationalCart and a history variable: what each side confirmed | `attested` |
| `OrderExecution` | `relational-order-execution.service` and its policy | `execution`, `record`; BeginTransition (read), CheckTransition (re-check), CommitTransition (update) |
| `ExecutionJournal` | OrderExecution with its event rows | `journal` |
| `FulfillmentTasks` | `relational-fulfillment-coordination.service` | `tasks`; create, move, complete |
| `ReceptionOutcome` | abstract: a reception ends once, completed only when proved | `proved`, `outcome` |
| `Fulfillment` | fulfillment, policy and resolution services; EXTENDS OrderExecution, INSTANCEs FulfillmentTasks | `proof`, `incidents`, `tasks`, `record`; each handler split at each read a later write depends on |
| `FulfillmentHistory`, `OrderHistory` | Fulfillment with history variables, which name the overlaps the code does not keep out | `crossed`, `late`; `overwritten` |
| `TransactionEngine` | `transaction-orchestrator.service`, the mock provider, `topup` | `balance`, `row`, `mirror`, `req`, `writes`, `charged`; lookup, check, INSERT, provider, UPDATEs, commit, abort |
| `CorridorGovernance` | `relationship.service`, `relationship-governance(-policy).service`, the back office's patch | `status`, `corridor`, `touched`, `task`; AcceptRead/Write, Decide, PatchRelationship; SyncRead/Mirror, TouchRelationship/FlushTouches, ComputeRead/Write, MoveRead/Write; QueryFails, Crash |
| `SponsoredSync` | `sponsored-relationship-sync`, `-commercial-flow`, `-conversation-expiration`; EXTENDS CorridorGovernance, whose calls it shares | `window`, `names`, `requests`, `asked`, `due`; RequestAgain, LinkWindow, Sync, SyncOther, Claim, UpdateRequests, ApplyOutcome, Announce, ExpireWindow |
| `Negotiation` | `negotiation-engine.service`, `createCartFromNegotiation`, `createCartFromConversationalDraft` | `negotiation`, `cart`, `call`; a Read and a Write for proposals and acceptances, the message of an acceptance (Announce), the creation in three steps, DraftLook/DraftWrite, Fail, Restart |
| `ScenarioReview` | `relational-scenario-review.service` and its policy | `board`, `events`, `call`; CreateRead/Write, DecisionRead/Write, ValidationWrite, Attach |
| `OfflineQueue` | `commerce-offline-queue`, `-sync`, `-storage` and the hook that starts a replay, `useCommerceOffline` | `queue`, `replay`, `marked`; Enqueue, Discard, Begin, Post, Answer..., Finish, Close, Invalidate |
| `RelationalCartProofs`, `ExecutionJournalProofs`, `TransactionEngineProofs`, `SponsoredSyncProofs` (the corridor's too), `NegotiationProofs`, `ScenarioReviewProofs`, `FulfillmentProofs`, `OfflineQueueProofs` | theorems | |
| `MC...` | symmetry sets and constant definitions for TLC | |

`req[r]` (`task[t]`, `call[c]`, `replay[r]` in the later modules) is the local state of one
handler invocation, with the promises it leaves behind: what it has read and will use. `Requests` is the number of invocations in flight together; in the cart,
execution and fulfillment an invocation that ends makes room for another, so
behaviours are unbounded in length. In `TransactionEngine` a request runs once.

**Abstractions.** `Fail` (and `Refuse`, `Abort`) stands for every refusal by a
flag, participant or corridor check, every error and every crash: it may happen
whenever a request holds something. Payloads, timestamps, diagnostics, realtime
signals and read views are left out. A cart line keeps its product, quantity and
whether its validation status allows conversion. An incident keeps its status,
whether its type or flag blocks, and who accepted. All payment types but TRANSFER
are one, since the code tells no others apart; a request that is not a transfer
has its own wallet as destination. The idempotency index and row locks are those
of PostgreSQL, modelled from what the code relies on (external). The state the health
figures suggest for a corridor is any state they can suggest. Quantity and price
of a negotiation are one value, and the search for an accepted relationship finds any of
those of the two organizations, or none, since they change at any time. A draft of a
negotiation's thread is in `Negotiation`; one of a thread without a negotiation names
whichever its caller gives and is left out. In
`SponsoredSync` the second relationship asked of a window has its syncs up to its own corridor. What the orchestration plans for an approved board,
and what a server answers to a replayed action, are choices.
History variables (`attested`, `crossed`, `late`, `overwritten`, `overlapped`, `taken`, `lost`,
`raced`, `beside`, `erased`, `posts`, `announced`) remember what happened for a property to speak of and are read
by no action's guard.

**Two readings the code leaves open.** (a) `order.create` has a nested connect of
the cart; whether it writes `convertedOrderId` is the constant
`ConnectLinksCart`. Prisma writes it, and then every conversion fails (theorem
`ConnectDefeatsConversion`); the runs take FALSE, so
that the rest of the conversion is checked as it was meant. (b) `initiate` does
not check that an amount is positive; the theorems assume integers only, except
`OverdraftsExplained`, which needs amounts that are not negative; the run takes positive ones.

## 3. Runs

| run | question | bounds | distinct states |
|---|---|---|---|
| `cart_concurrent` | do any two handlers keep one order per cart, valid order lines, backed statuses, and implement OrderMaterialization? | 1 cart, 2 orders, 2 products, 2 lines, 2 requests, crashes | 315,330 |
| `cart_serial` | one handler at a time: are locked lines those both sides confirmed, do statuses and confirmations agree? | 1 request, quantity 2, no crash | 18,357 |
| `execution` | do two transitions leave a journal that explains the status, the whole chain before RECEIVED, and a record after dispatch? | 2 requests, 10 of the 12 targets | 314,725 |
| `fulfillment` | proof before validation, resolution by both, two acceptances that resolve, no completion beside a blocking incident, one end of a reception, under any two handlers | 2 requests, 1 incident, the shortest completing order, no task | 1,589,261 |
| `fulfillment_order` | under any two handlers, has the order of a completed fulfillment been received, and a completed task its confirmations? | 2 requests, 1 blocking task, no incident, an order up to its return review | 1,597,864 |
| `wallet` | ledger against balances, one row and one charge per key, overdrafts only by a stale or missing check | 3 requests, 2 wallets, 1 key, amount 1 | 2,435,387 |
| `corridor` | does the corridor leave its matrix or a protected state only by the mirror or a stale writer, and does a block somebody noticed reach it? | 2 calls, 1 restart, 1 failed query | 463,880 |
| `sponsored` | is an acceptance announced once, and do the requests say what the window says? | 2 calls, 2 decisions, a second relationship asked for before the last decision, no restart | 4,169,743 |
| `negotiation` | has an accepted negotiation at rest a cart with the terms accepted last, is there one cart of each source and relationship, and does what an acceptance has still to do reach one? | 2 terms and a draft's, 2 relationships, 1 thread, 2 carts, 2 calls | 1,709,337 |
| `review` | is the journal one chain, has an approved board what it requires, is one board open? | 2 boards, 2 calls, 2 organizations, 3 decisions | 1,324,718 |
| `review_dual` | does a dual validation always have two organizations? violated, with one call | 1 board, 1 call | |
| `offline` | is order kept, is an action untouched by an overwrite neither lost nor revived, are its posts bounded, does the mark silence the phone? | 3 actions, queue of 2, 2 attempts, 2 replays, 1 tab closed | 619,000 |

**Why the bounds are enough.** Every race here is between the read and the write
of one handler and the write of another, which two overlapping requests show;
handlers repeat without bound, so any sequence can precede the race. One cart is
enough where handlers name one cart, except for orders shared between carts, and
that is proved for any number. Two lines and two products give a line merged, a
line added and a line that is not convertible. The wallet run has three requests:
a first attempt, its retry and a stranger; two wallets give opposite transfers.
A payment of 1 against a balance of 1 is the boundary of the check. `execution`
leaves out ARRIVED's rejection and BLOCKED, which end an order as CANCELLED does;
`TargetsAssumption` lets the proofs take all.
`fulfillment` has the targets that lead to a completion
(PARTIALLY_FULFILLED, COMPLETED); `fulfillment_order` has the long way, with the move
to RETURN_REVIEW that an order can still make while its fulfillment is completed.
In both, a request that inserts an incident begins only while a row is left for one
(`RowLeft`): without one it could not commit, and would hold a request for nothing.
In `corridor` and `sponsored` two calls show a stale writer, the two mirrors of two
decisions and the two syncs of one decision; a second restart adds nothing that a
first does not, since it forgets everything in memory. In `sponsored` two relationships show
a window linked again after a sync; restarts, and a relationship asked for again while the
window names it, are in the theorems. In `negotiation` a second
creation or relationship is enough to insert a second cart, and two rows hold one of each. `review` has three decisions: the two
approvals of a dual validation and a re-evaluation between or after them. `offline`
has a queue of two for fifty, so that the third action drops the oldest, and two attempts
for three. The theorems of section 4 hold without these bounds.
In the cart, execution, fulfillment, wallet, review and queue runs
a state with nothing to do is not an error: deadlock is not checked there (terminal
statuses, used-up rows, ended requests). It is checked in `corridor`, `sponsored` and
`negotiation`, whose calls come back for ever.

**Fairness.** A handler is the answer to a call, and nothing makes a caller call
again: cart, execution, fulfillment, wallet and review assume no fairness. Where the
code itself goes on, it is assumed to:

* `OfflineQueue`: WF of a running replay's steps. Its loop awaits only a fetch, which
  the browser settles. `MarkSilences` needs it: a replay that was running when the mark
  was set must end.
* `CorridorGovernance`: WF of the steps of a call in progress, promises that the event loop
  resumes; SF of the flush of touches, a timer. The timer needs strong fairness
  only because the model makes it wait for one of `Tasks`, a bound the code has not.
  A crash or a failed query is never fair.
* `Negotiation`: WF of what an acceptance has still to do: its message, then the creation it
  leaves behind. A failed message and a process that ends are never fair.

`SponsoredSync` states safety only.

**Observations.** The one run that must fail is `review_dual` (`findings` in `PROJECT.json`
has the quote): a review under dual validation that was sent back to analysis is then approved
by one organization. The following were met while modelling and have
no run of their own; the properties allow for them explicitly, by name.

*Cart.* A confirmation recorded between a content change's read and its write
survives the change, so that lines nobody agreed to are locked. A catalogue line can land
in a cart locked or converted meanwhile. The nested connect defeats the
`convertedOrderId: null` condition (`ConnectDefeatsConversion`).
`relational-cart-and-order-conversion.md` lets a cart be converted when
CONFIRMED_BY_BOTH_PARTIES, the code asks for LOCKED_FOR_ORDER; it says (line 129) that direct
lines go to DRAFT and READY_FOR_REVIEW carts, the code also takes CONFIRMED_* ones and
resets them, as line 154 of the same document expects; an order's total is summed before the transaction, its lines are
copied inside.

*Execution and fulfillment.* Two transitions can both pass the re-check, and the later
one then leaves a terminal status, which `relational-order-execution.md` calls terminal. An incident
report before arrival opens a way to validation without arrival. A report that goes in
while a completion is about to write leaves a completed record with a blocking
incident (`late`); it may also put back an arrival status, so that a partial validation
adds one. Two resolutions of one incident can each write over what the other did, and leave it
accepted by both and open (`crossed`).

*Corridor.* The health computation checks the protected states on a corridor read
many queries before its unconditional write: a corridor blocked in between is
reopened, until the next touch. A failed query ends the mirror after a decision, and the health
computation after a touch, with a log line: nothing tries again. The mirror follows no matrix. The back office's patch
is not mirrored: a relationship it accepts keeps its corridor INVITED. RESTRICTED and
PENDING_REVIEW are never written by the code at this commit, except to be read.

*Sponsored conversation.* A window can be asked for a relationship again, whatever became
of the first: it then names the second, an accepted first one finds no window when its outcome is
applied, and is not announced. A process that ends between the claim of a window and
its outcome leaves "already_synced" for good: the corridor is not moved and nothing is
announced. With a corridor left INVITED the activation is denied by the matrix
and the acceptance is never announced either.

*Negotiation.* An acceptance whose message cannot be written has
accepted the negotiation and starts no creation, with the process alive: nothing makes the cart
until somebody asks (`lost`). The search for an existing cart is by relationship, so a negotiation has a
cart in each relationship a creation has found; a draft of its thread overwrites the cart it
finds, the one made by the acceptance included (`taken`). A rejected negotiation keeps a cart that can be converted. Where the
unawaited creation throws, the rejection is unhandled and ends the process, with every
other creation in progress.

*Review.* The event of an executive validation may record a status the
board no longer has; it changes none, and is left out of the chain.

*Hazards without a property.* Those that remain in `PROJECT.json` have a note. Left out of its list,
which has the graver ones: acceptances kept across proposals of a resolution, a
completion nobody retries, a top-up without idempotency key, a lost replay answer
counted as delivered, and a task created on a terminal record.

## 4. Proofs

What is proved holds for every value of the constants, under the named assumptions
of the modules: `CartAssumption` (NoOrder is no order, bounds are positive),
`TargetsAssumption` (targets are statuses), `AmountsAssumption` (integers),
`KeysAssumption` (NoKey is no key), `NeedsAssumption` (a task needs confirmations of sides and blocks or not),
`TermsAssumption` and `CartsAssumption` (a draft's terms, no terms, no thread and no cart are none of the others),
and those of the later modules' headers.

* **RelationalCartProofs.** `TypeCorrect`; `Inductive`, with
  `IInv == TypeOK /\ RowsSane /\ PendingSane /\ OneOrderPerCart /\
  OrderLinesConvertible /\ ConfirmedStatusBacked`. The three properties are not
  inductive alone: a pending write could bring an absent row back, or write a
  confirmed status without its column. `PendingSane` says that the cart of a
  request exists and that a pending confirmation writes its own side's status or both
  sides', `RowsSane` that an absent row is empty and an existing cart has lines. From it: `OneOrder`,
  `LinesOfOrders`, `StatusBacked`, and `Refinement`, that each step is a step of
  OrderMaterialization or a stutter. `ConnectDefeatsConversion`: with
  ConnectLinksCart no order is ever made.
  `AgreeWhenSerial` and `LockedOnAttested` need
  `[]OneHandlerPerCart`: no two requests hold the same cart at a time, while requests
  on different carts overlap as they like. `SerialInv` then says that what a request
  has read of its cart is still so (`Current`), hence that a status and the
  confirmation columns written from it agree (`Agreed`); `AttestInv` adds that each
  recorded confirmation is one of the lines there are. LockedOnAttested also asks that
  no process dies between the two writes of `addFromDirectCatalog`.
* **ExecutionJournalProofs.** `JournalInv` adds to the properties that what a request
  has read was reached (`RequestsExplained`) and that a reached dispatch status made
  the record (`EnsuredWhenReached`). From it: `JournalTypeCorrect`, `JournalExplains`,
  `ReceivedOnlyThroughChain`, `DispatchAlwaysHasRecord`. The chain follows from the
  edges alone: each of its statuses has one predecessor by the policy.
* **TransactionEngineProofs.** `WalletTypeCorrect`; `KeyHeldOnce`, the invariant
  `KeyInv`: a key is claimed, by a written row, committed or not, by one request at
  most; a committed row belongs to an ended request; a charged request claims its key or was
  rolled back. From it `OneTransactionPerKey` and `DuplicatesNeverCharge`. `LockInv`
  says what the row locks give: no wallet is written by two transactions, and what a
  transaction has written is the balance there is plus what it has moved, so a covered
  check explains the outcome unless the balance has changed since
  (`OverdraftsExplained`). `LedgerExplains` is for finite `Requests`, since no other set
  has a sum. `LedgerInv` says that what an open transaction has written is the balance there is plus
  the effect of its row so far (`Posted`), and that a mirror belongs to a request that
  has ended (`MirrorsEnded`). A commit then changes one term of the sum, by exactly what it writes to
  the balances (`SumChanges`); that the sum is the one the fold computes is
  `SumUnique`, by well-founded induction over finite sets.
* **FulfillmentProofs.** Every handler writes what it decided on an earlier read;
  `RequestsHeld` says what of that reading is still true: a proof once on file stays, acceptances
  only grow, a task keeps what it needs, and a validated proof is withdrawn only by
  the rejection that ends the reception (`Warranted`), so a status put back by a late
  report, or a completion begun before, is still warranted. From it
  `FulfillmentTypeCorrect`, `ProofAlwaysBefore`, `BothResolve`, `TasksConfirmed` and
  `ReceptionRefinement`: each step is a step of ReceptionOutcome or a stutter.
  `AcceptedResolves`, `CompletedUnblocked` and `CompletesReceived` are of every behaviour, however the
  handlers overlap; what the code does not keep out is in the properties, as history
  variables. `ResolutionInv` says that a resolution's incident exists.
  `CompletionInv`: while a completion is about to write, and ever after, no incident
  blocks, as long as no resolution crossed another and no report came late; a
  report that was there before is seen by one of the completion's two reads. `ReceiptInv`: from the
  moment a completion has read the order (`Examining`), every transition still
  to come leads from RECEIVED or COMPLETED to where such an order may go, unless one overwrites
  a status it had not read.
* **SponsoredSyncProofs, the corridor.** `CorridorTypeCorrect`, and `CorridorLegalOrStale` from
  `CorridorInv`, which adds `WritersLegal`: what a writer is about to write is a legal
  move out of what it has read, and a computation never read a protected state it is about
  to leave. A write is therefore legal, or the row is no longer what was read.
* **SponsoredSyncProofs, the window.** An acceptance is announced once because each announcement is paid for
  (`AnnouncementsPaid`): a window not yet accepted is worth one, the sync that claims it takes
  that over, and only a claim as rejected makes it worth one again. The sum is over
  cardinalities of the sets of calls. `ClaimsHeld` says that a sync between its two
  updates has claimed the window, unless it expired or was linked again since. A window asked for
  again is worth nothing to a relationship it no longer names, and `LinkedFirst` says that
  nothing is synchronised for one it does not name yet. From them `AnnouncedOnlyOnce` and `RequestsAgree`.
* **ScenarioReviewProofs.** `ReviewInductive`, with `ApprovalsOwed` (what the status of a
  board owes its journal) and `CallsCurrent`: a decision whose status is
  still the one read is as good as one that reads now, although the metadata it carries may be old.
  From it `JournalExplains`, `ApprovedOnlyAsRequired` and `OneBoardOpen`.
* **NegotiationProofs.** `NegotiationInv` says where the terms accepted last are: in an acceptance
  whose message is to be written or a creation that has yet to write them (`Pending`), or in a
  cart that no creation on its way will write over with others (`Kept`). `OneRow` and
  `LooksCurrent` hold while no cart was written between the readings and the write
  of another: one row of each source and relationship, and a call about to write has found the row
  there is. From it `AcceptedHasCart` and `OneCartOfEachSource`.
* **OfflineQueueProofs.** A replay works on a copy and overwrites the list with it at the end.
  `CopiesAgree` says that, for an action nobody else touched (not in `raced`), each running
  replay holds it exactly when the list does, and no two replays do; so storing the copy
  loses and revives nothing else (`NoneLostOrRevived`, `ReplayInOrder`). `PostsPaid` pays for each
  post of an action with an attempt its copy has counted, with one post not yet written
  down, or with a tab closed (`PostsBounded`). What `Without` and the concatenations do to
  a sequence are lemmas. `Without` is a recursive function on lengths, which a proof can unfold;
  the induction takes the smallest length at which a fact would fail
  (`SmallestOfNat`), because the library's induction theorems have operators for parameters.

Every safety invariant and every action property of a passing run is stated by one of these
theorems. `cart_serial` checks with one request what the theorems say of any number under
`[]OneHandlerPerCart`. The strengthenings were checked with TLC on two requests before they were
proved.

Only model-checked: the liveness properties `BlockReachesCorridor`, `AcceptanceReachesCart` and
`MarkSilences`, since ENABLED and fairness are beyond the prover;
`TwoOrganizationsApprove` is violated. No module uses a RECURSIVE operator.

## 5. Plan

Done: the cart, execution with its journal, fulfillment with tasks, wallet transactions,
the corridor with the sponsored conversation, negotiation, scenario review, the offline queue.
In order of importance, what is left:

1. CorridorGovernance composed with execution in place of a nondeterministic refusal.
2. The versions of the negotiation drafts and the commercial graph's rebuild, as modules of
   their own.

**Not modelled.** The order and fulfillment models take a corridor's refusal as a
failure that may come at any time, which allows every corridor behaviour and so loses no
safety property. The drafts themselves (their lines and versions), the reservation intent and the messages of a
thread append rows no other operation modelled here reads back. Payments, group
buying and QR commerce are constants or single-row upserts at this commit. Recommendations
and orchestration hang on the intelligence figures, which are derived.
Not planned: the derived and dashboard modules, client packages and applications, and
the stub services, for the reasons given in PROJECT.json.
