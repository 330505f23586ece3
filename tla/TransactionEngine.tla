--------------------------- MODULE TransactionEngine ---------------------------
(***************************************************************************)
(* The wallets' money: TransactionOrchestratorService.initiate and the     *)
(* top-up of WalletPlatformService.  A request looks its idempotency key up *)
(* and checks the balance outside any transaction; then one transaction    *)
(* (READ COMMITTED) creates the row, calls the payment provider, updates   *)
(* one or two wallets and completes the row.  An UPDATE locks its wallet    *)
(* until the transaction ends, and computes the new balance from the last   *)
(* committed one: writes[r] holds those uncommitted balances, and a wallet *)
(* of its domain is locked by r.                                           *)
(*                                                                         *)
(* A request is one invocation and runs once; a retry is another request   *)
(* with the same key.  Organizations, currencies, signatures, nonces and    *)
(* the in-memory event list are left out.                                  *)
(***************************************************************************)
EXTENDS Integers, FiniteSets, Folds

CONSTANTS
    Requests,   \* bound: the invocations of a behaviour
    Wallets,
    Keys,       \* idempotency keys
    NoKey,      \* a request without one
    Amounts,    \* bound: the amounts asked for; their sign is not checked by initiate
    Opening     \* the balance of every wallet at the start

ASSUME AmountsAssumption == Amounts \subseteq Int /\ Opening \in Int
ASSUME KeysAssumption == NoKey \notin Keys

VARIABLES
    balance,    \* wallets.balance
    row,        \* row[r]: the transactions row r has committed, or NoRow
    mirror,     \* the requests whose mirror CREDIT row is committed
    req,        \* req[r]: the progress of r, its input and the balance it has read
    writes,     \* writes[r]: the balances r has written and not committed
    charged     \* the requests whose intent the provider has executed

walletVars == <<balance, row, mirror, req, writes, charged>>

\* PAYMENT stands for every type but TRANSFER: the code tells no others apart.
\* to is counterpartyWalletId, looked at for a TRANSFER only: a PAYMENT has its own wallet there.
Input == [wallet : Wallets, type : {"TRANSFER", "PAYMENT"}, direction : {"INBOUND", "OUTBOUND"},
          amount : Amounts, key : Keys \cup {NoKey}, to : Wallets]

InTransaction == {"open", "accepted", "refused", "debited", "done"}

Phases == {"idle", "looked", "checked", "ended", "aborted"} \cup InTransaction

Status == {"SUCCESS", "FAILED", "POSTED"}

NoRow == [status |-> "ABSENT"]

Row == [status : Status, input : Input]

\* Input of a request that has not begun.
NoInput == [key |-> NoKey]

NoWrites == [w \in {} |-> 0]

\* r leaves phase from for phase to.
Proceed(r, from, to) ==
    /\ req[r].phase = from
    /\ req' = [req EXCEPT ![r].phase = to]

-----------------------------------------------------------------------------
WalletInit ==
    /\ balance = [w \in Wallets |-> Opening]
    /\ row = [r \in Requests |-> NoRow]
    /\ mirror = {}
    /\ req = [r \in Requests |-> [phase |-> "idle", input |-> NoInput, topup |-> FALSE, read |-> 0]]
    /\ writes = [r \in Requests |-> NoWrites]
    /\ charged = {}

\* A committed row has key k.
KeyTaken(k) == \E s \in Requests : row[s] # NoRow /\ row[s].input.key = k

\* Feature flags and the lookup of the key, which returns a row that has it.
Initiate(r, i) ==
    /\ req[r].phase = "idle"
    /\ req' = [req EXCEPT ![r].input = i,
                          ![r].phase = IF i.key # NoKey /\ KeyTaken(i.key) THEN "ended" ELSE "looked"]
    /\ UNCHANGED <<balance, row, mirror, writes, charged>>

\* Mutant: every payment is let through.
CoversAlways(i) == TRUE

\* insufficient_balance, asked of an OUTBOUND request only.
Covers(i) == i.direction = "OUTBOUND" => balance[i.wallet] >= i.amount

\* The wallet and the counterparty are read; the balance must cover the amount.
CheckWallet(r) ==
    /\ req[r].phase = "looked"
    /\ Covers(req[r].input)
    /\ req' = [req EXCEPT ![r].phase = "checked", ![r].read = balance[req[r].input.wallet]]
    /\ UNCHANGED <<balance, row, mirror, writes, charged>>

\* A flag is off, the wallet is missing or not operational, the balance short,
\* the unique key refused, or the process dies before the transaction writes.
Refuse(r) ==
    /\ \E p \in {"looked", "checked"} : Proceed(r, p, "ended")
    /\ UNCHANGED <<balance, row, mirror, writes, charged>>

-----------------------------------------------------------------------------
\* r's uncommitted row has key k: an INSERT of the same key waits for r.
KeyHeld(r, k) ==
    /\ req[r].phase \in InTransaction
    /\ req[r].input.key = k

\* Mutant: the column is not unique.
KeyFreeAlways(r) == TRUE

\* Mutant: only committed rows count.
KeyFreeOfCommitted(r) ==
    \/ req[r].input.key = NoKey
    \/ ~KeyTaken(req[r].input.key)

\* idempotencyKey @unique.
KeyFree(r) ==
    \/ req[r].input.key = NoKey
    \/ /\ ~KeyTaken(req[r].input.key)
       /\ \A s \in Requests \ {r} : ~KeyHeld(s, req[r].input.key)

\* transaction.create, then the update to PROCESSING.
CreateRow(r) ==
    /\ Proceed(r, "checked", "open")
    /\ KeyFree(r)
    /\ UNCHANGED <<balance, row, mirror, writes, charged>>

\* mock.execute, which may take its delayMs and answer not ok.
CallProvider(r) ==
    \/ /\ Proceed(r, "open", "accepted")
       /\ charged' = charged \cup {r}
       /\ UNCHANGED <<balance, row, mirror, writes>>
    \/ /\ Proceed(r, "open", "refused")
       /\ UNCHANGED <<balance, row, mirror, writes, charged>>

\* Mutant: an UPDATE locks nothing.
WalletFreeAlways(r, w) == TRUE

\* No other transaction has written w.
WalletFree(r, w) == \A s \in Requests \ {r} : w \notin DOMAIN writes[s]

\* wallet.update with increment (or decrement): amount is added to what r sees.
AddToWallet(r, w, amount) ==
    LET seen == IF w \in DOMAIN writes[r] THEN writes[r][w] ELSE balance[w]
    IN  /\ WalletFree(r, w)
        /\ writes' = [writes EXCEPT ![r] = [v \in DOMAIN writes[r] \cup {w} |->
                                              IF v = w THEN seen + amount ELSE writes[r][v]]]

Debit(r) ==
    LET i == req[r].input
    IN  /\ req[r].phase = "accepted"
        /\ i.type = "TRANSFER" \/ i.direction = "OUTBOUND"
        /\ Proceed(r, "accepted", IF i.type = "TRANSFER" THEN "debited" ELSE "done")
        /\ AddToWallet(r, i.wallet, -i.amount)
        /\ UNCHANGED <<balance, row, mirror, charged>>

\* The destination of a transfer, or the wallet of an inbound payment.
Credit(r) ==
    LET i == req[r].input
    IN  /\ \/ /\ Proceed(r, "debited", "done")
              /\ AddToWallet(r, i.to, i.amount)
           \/ /\ Proceed(r, "accepted", "done")
              /\ i.type # "TRANSFER" /\ i.direction = "INBOUND"
              /\ AddToWallet(r, i.wallet, i.amount)
        /\ UNCHANGED <<balance, row, mirror, charged>>

-----------------------------------------------------------------------------
\* topup: no key and no provider call; its transaction opens at once.
Topup(r, w, amount) ==
    /\ amount > 0
    /\ req[r].phase = "idle"
    /\ req' = [req EXCEPT ![r] = [phase |-> "accepted", topup |-> TRUE, read |-> 0,
                                  input |-> [wallet |-> w, type |-> "PAYMENT", direction |-> "INBOUND",
                                             amount |-> amount, key |-> NoKey, to |-> w]]]
    /\ UNCHANGED <<balance, row, mirror, writes, charged>>

\* Mutant: the update that completes the row is forgotten.
RowOfProcessing(r, status) ==
    [status |-> IF status = "SUCCESS" THEN "PROCESSING" ELSE status, input |-> req[r].input]

RowOf(r, status) == [status |-> status, input |-> req[r].input]

\* The row and the balances become visible together, and the locks are released.
Commit(r) ==
    /\ \/ /\ Proceed(r, "done", "ended")
          /\ row' = [row EXCEPT ![r] = RowOf(r, IF req[r].topup THEN "POSTED" ELSE "SUCCESS")]
          /\ mirror' = IF req[r].input.type = "TRANSFER" THEN mirror \cup {r} ELSE mirror
       \/ /\ Proceed(r, "refused", "ended")
          /\ row' = [row EXCEPT ![r] = RowOf(r, "FAILED")]
          /\ UNCHANGED mirror
    /\ balance' = [w \in Wallets |-> IF w \in DOMAIN writes[r] THEN writes[r][w] ELSE balance[w]]
    /\ writes' = [writes EXCEPT ![r] = NoWrites]
    /\ UNCHANGED charged

\* The victim of a deadlock, the five seconds of an
\* interactive transaction over, or a crash: everything is rolled back, except
\* what the provider has executed.
Abort(r) ==
    /\ \E p \in InTransaction : Proceed(r, p, "aborted")
    /\ writes' = [writes EXCEPT ![r] = NoWrites]
    /\ UNCHANGED <<balance, row, mirror, charged>>

WalletStep(r) ==
    \/ \E i \in Input : Initiate(r, i) /\ (i.type = "PAYMENT" => i.to = i.wallet)
    \/ \E w \in Wallets, a \in Amounts : Topup(r, w, a)
    \/ CheckWallet(r)
    \/ Refuse(r)
    \/ CreateRow(r)
    \/ CallProvider(r)
    \/ Debit(r)
    \/ Credit(r)
    \/ Commit(r)
    \/ Abort(r)

WalletNext == \E r \in Requests : WalletStep(r)

WalletSpec == WalletInit /\ [][WalletNext]_walletVars

-----------------------------------------------------------------------------
\* Rows, requests, balances and uncommitted balances are of their types.
WalletTypeOK ==
    /\ balance \in [Wallets -> Int]
    /\ row \in [Requests -> Row \cup {NoRow}]
    /\ mirror \subseteq Requests
    /\ req \in [Requests -> [phase : Phases, input : Input \cup {NoInput}, topup : BOOLEAN, read : Int]]
    /\ \A r \in Requests : req[r].phase # "idle" => req[r].input \in Input
    /\ writes = [r \in Requests |-> writes[r]]
    /\ \A r \in Requests :
          DOMAIN writes[r] \subseteq Wallets /\ writes[r] \in [DOMAIN writes[r] -> Int]
    /\ charged \subseteq Requests

\* What the committed rows of request r say of wallet w, to a reader of the ledger.
Explained(r, w) ==
    LET i == row[r].input
        own == IF row[r] = NoRow \/ row[r].status = "FAILED" \/ i.wallet # w THEN 0
               ELSE IF i.type = "TRANSFER" \/ i.direction = "OUTBOUND" THEN -i.amount ELSE i.amount
        mirrored == IF r \in mirror /\ i.to = w THEN i.amount ELSE 0
    IN  own + mirrored

\* No payment is lost, applied twice or half applied: every balance is the opening
\* balance and the effects of the committed rows, however transactions interleave
\* or abort ("no balance mutation until SUCCESS").
LedgerExplainsBalance ==
    \A w \in Wallets : balance[w] = Opening + MapThenFoldSet(+, 0, LAMBDA r : Explained(r, w),
                                                             LAMBDA S : CHOOSE r \in S : TRUE, Requests)

\* An idempotency key has at most one transaction, whatever races for it.
OneRowPerKey ==
    \A r, s \in Requests :
        /\ r # s /\ row[r] # NoRow /\ row[s] # NoRow
        /\ row[r].input.key = row[s].input.key
        => row[r].input.key = NoKey

\* The provider is called twice for one key only after the first transaction was
\* rolled back: the key is held before the call, so a duplicate request that
\* overlaps never charges again.
KeyChargedOnce ==
    \A r, s \in charged :
        /\ r # s /\ req[r].input.key = req[s].input.key
        => req[r].input.key = NoKey \/ "aborted" \in {req[r].phase, req[s].phase}

\* A payment drives a wallet below zero only if another one has changed the wallet
\* since the balance was checked, or by a transfer asked for as INBOUND, whose
\* balance is not checked.
OverdraftOnlyByStaleCheck ==
    [][\A r \in Requests : row'[r] # row[r] =>
          LET i == req[r].input
          IN  \/ balance'[i.wallet] >= 0 \/ balance'[i.wallet] >= balance[i.wallet]
              \/ req[r].read # balance[i.wallet]
              \/ i.type = "TRANSFER" /\ i.direction = "INBOUND"]_walletVars

=============================================================================
