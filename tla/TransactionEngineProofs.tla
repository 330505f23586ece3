------------------------ MODULE TransactionEngineProofs ------------------------
(***************************************************************************)
(* Proofs about TransactionEngine, for any number of requests, wallets,    *)
(* keys and amounts.  The unique idempotency key is the point: it must be  *)
(* held from the INSERT on, before the provider is called, by at most one  *)
(* request (KeyInv).  And a wallet is written by one transaction at a time, *)
(* from the balance there is (LockInv), so that an overdraft has its cause. *)
(***************************************************************************)
EXTENDS TransactionEngine, FiniteSetTheorems, WellFoundedInduction, TLAPS

\* r holds its key: its row is written, committed or not.
Claims(r) == req[r].phase \in InTransaction \/ row[r] # NoRow

\* A committed row is the row of a request that has ended, with its input.
RowsEnded == \A r \in Requests :
    row[r] # NoRow => req[r].phase = "ended" /\ row[r].input = req[r].input

\* A charged request holds its key, unless it was rolled back.
ChargedClaims == \A r \in charged : req[r].phase = "aborted" \/ Claims(r)

\* A key is held once.
ClaimsUnique == \A r, s \in Requests :
    /\ r # s /\ Claims(r) /\ Claims(s)
    /\ req[r].input.key = req[s].input.key
    => req[r].input.key = NoKey

KeyInv == WalletTypeOK /\ RowsEnded /\ ChargedClaims /\ ClaimsUnique

\* What a request at the end of its transaction has added to its own wallet.
Moved(q) ==
    IF q.input.type = "TRANSFER" /\ q.phase = "done" /\ q.input.to = q.input.wallet THEN 0
    ELSE IF q.input.type = "TRANSFER" \/ q.input.direction = "OUTBOUND" THEN -q.input.amount
    ELSE q.input.amount

\* A request q with uncommitted balances wr: it has written its wallet, from the balance there
\* is, and what goes out was covered by the balance it has read.
Written(q, wr, bal) ==
    /\ q.phase \notin {"debited", "done"} => DOMAIN wr = {}
    /\ q.phase = "debited" => q.input.type = "TRANSFER"
    /\ q.phase \in {"debited", "done"} =>
          q.input.wallet \in DOMAIN wr /\ wr[q.input.wallet] = bal[q.input.wallet] + Moved(q)
    /\ q.phase \in {"checked"} \cup InTransaction /\ q.input.direction = "OUTBOUND" =>
          q.read >= q.input.amount

\* No wallet is written by two transactions.
LocksApart == \A r, s \in Requests : r # s => DOMAIN writes[r] \cap DOMAIN writes[s] = {}

LockInv == WalletTypeOK /\ LocksApart /\ \A r \in Requests : Written(req[r], writes[r], balance)

-----------------------------------------------------------------------------
\* The input a top-up is recorded with is one initiate could have been given.
LEMMA TopupInput ==
    ASSUME NEW w \in Wallets, NEW a \in Amounts
    PROVE  [wallet |-> w, type |-> "PAYMENT", direction |-> "INBOUND",
            amount |-> a, key |-> NoKey, to |-> w] \in Input
BY DEF Input

\* A wallet's uncommitted balance is an integer.
LEMMA WritesTyped ==
    ASSUME WalletTypeOK, NEW r \in Requests, NEW w \in Wallets, NEW a \in Int,
           AddToWallet(r, w, a)
    PROVE  /\ writes' = [s \in Requests |-> writes'[s]]
           /\ \A s \in Requests : /\ DOMAIN writes'[s] \subseteq Wallets
                                  /\ writes'[s] \in [DOMAIN writes'[s] -> Int]
<1> DEFINE seen == IF w \in DOMAIN writes[r] THEN writes[r][w] ELSE balance[w]
           new == [v \in DOMAIN writes[r] \cup {w} |-> IF v = w THEN seen + a ELSE writes[r][v]]
<1>1. seen \in Int
  BY DEF WalletTypeOK
<1>2. DOMAIN new \subseteq Wallets /\ new \in [DOMAIN new -> Int]
  <2>1. DOMAIN new = DOMAIN writes[r] \cup {w}
    OBVIOUS
  <2>2. \A v \in DOMAIN new : new[v] \in Int
    BY <1>1, <2>1 DEF WalletTypeOK
  <2> QED BY <2>1, <2>2 DEF WalletTypeOK
<1>3. writes' = [writes EXCEPT ![r] = new]
  BY DEF AddToWallet
<1> HIDE DEF new
<1>4. writes' = [s \in Requests |-> IF s = r THEN new ELSE writes[s]]
  BY <1>3 DEF WalletTypeOK
<1> QED BY <1>2, <1>4 DEF WalletTypeOK

\* The requests keep their type when r only changes phase.
LEMMA ProceedTyped ==
    ASSUME WalletTypeOK, NEW r \in Requests, NEW p \in Phases \ {"idle"}, NEW q \in Phases,
           Proceed(r, p, q)
    PROVE  /\ req' \in [Requests -> [phase : Phases, input : Input \cup {NoInput},
                                     topup : BOOLEAN, read : Int]]
           /\ \A s \in Requests : req'[s].phase # "idle" => req'[s].input \in Input
           /\ \A s \in Requests : req'[s].input = req[s].input
           /\ \A s \in Requests \ {r} : req'[s] = req[s]
           /\ req'[r].phase = q
           /\ req[r].phase = p
           /\ req[r].input \in Input
BY DEF WalletTypeOK, Proceed

\* The row a commit stores is of the type of rows.
LEMMA RowTyped ==
    ASSUME WalletTypeOK, NEW r \in Requests, req[r].input \in Input, NEW st \in Status
    PROVE  [row EXCEPT ![r] = RowOf(r, st)] \in [Requests -> Row \cup {NoRow}]
BY DEF WalletTypeOK, RowOf, Row

LEMMA TypeInit == WalletInit => WalletTypeOK
<1> SUFFICES ASSUME WalletInit PROVE WalletTypeOK
  OBVIOUS
<1>1. DOMAIN NoWrites \subseteq Wallets /\ NoWrites \in [DOMAIN NoWrites -> Int]
  BY DEF NoWrites
<1>2. req \in [Requests -> [phase : Phases, input : Input \cup {NoInput}, topup : BOOLEAN, read : Int]]
  BY DEF WalletInit, Phases
<1> QED BY <1>1, <1>2, AmountsAssumption DEF WalletInit, WalletTypeOK

LEMMA TypeStep == WalletTypeOK /\ [WalletNext]_walletVars => WalletTypeOK'
<1> SUFFICES ASSUME WalletTypeOK, [WalletNext]_walletVars PROVE WalletTypeOK'
  OBVIOUS
<1>0. DOMAIN NoWrites \subseteq Wallets /\ NoWrites \in [DOMAIN NoWrites -> Int]
  BY DEF NoWrites
<1>1. CASE UNCHANGED walletVars
  BY <1>1 DEF walletVars, WalletTypeOK
<1>2. ASSUME NEW r \in Requests, NEW i \in Input, Initiate(r, i) PROVE WalletTypeOK'
  BY <1>2 DEF Initiate, WalletTypeOK, Phases, InTransaction
<1>3. ASSUME NEW r \in Requests, NEW w \in Wallets, NEW a \in Amounts, Topup(r, w, a)
      PROVE WalletTypeOK'
  <2> DEFINE i == [wallet |-> w, type |-> "PAYMENT", direction |-> "INBOUND",
                   amount |-> a, key |-> NoKey, to |-> w]
  <2>1. i \in Input
    BY TopupInput
  <2>2. req' = [req EXCEPT ![r] = [phase |-> "accepted", topup |-> TRUE, read |-> 0, input |-> i]]
    BY <1>3 DEF Topup
  <2> HIDE DEF i
  <2> QED BY <1>3, <2>1, <2>2 DEF Topup, WalletTypeOK, Phases, InTransaction
<1>4. ASSUME NEW r \in Requests, CheckWallet(r) PROVE WalletTypeOK'
  <2>1. req[r].input \in Input
    BY <1>4 DEF CheckWallet, WalletTypeOK
  <2>2. balance[req[r].input.wallet] \in Int
    BY <2>1 DEF WalletTypeOK, Input
  <2> QED BY <1>4, <2>2 DEF CheckWallet, WalletTypeOK, Phases
<1>5. ASSUME NEW r \in Requests, Refuse(r) PROVE WalletTypeOK'
  BY <1>5, ProceedTyped DEF Refuse, WalletTypeOK, Phases
<1>6. ASSUME NEW r \in Requests, CreateRow(r) PROVE WalletTypeOK'
  BY <1>6, ProceedTyped DEF CreateRow, WalletTypeOK, Phases, InTransaction
<1>7. ASSUME NEW r \in Requests, CallProvider(r) PROVE WalletTypeOK'
  BY <1>7, ProceedTyped DEF CallProvider, WalletTypeOK, Phases, InTransaction
<1>8. ASSUME NEW r \in Requests, Debit(r) PROVE WalletTypeOK'
  <2>1. PICK q \in {"debited", "done"} : Proceed(r, "accepted", q)
    BY <1>8 DEF Debit
  <2>2. "accepted" \in Phases \ {"idle"} /\ q \in Phases
    BY DEF Phases, InTransaction
  <2>3. req[r].input \in Input
    BY <2>1, <2>2, ProceedTyped
  <2>4. req[r].input.wallet \in Wallets /\ -req[r].input.amount \in Int
    <3>1. req[r].input.wallet \in Wallets /\ req[r].input.amount \in Int
      BY <2>3, AmountsAssumption DEF Input
    <3>2. \A x \in Int : -x \in Int
      OBVIOUS
    <3> QED BY <3>1, <3>2, Zenon
  <2> QED BY <1>8, <2>1, <2>2, <2>4, ProceedTyped, WritesTyped DEF Debit, WalletTypeOK
<1>9. ASSUME NEW r \in Requests, Credit(r) PROVE WalletTypeOK'
  <2>1. PICK p \in {"accepted", "debited"} : Proceed(r, p, "done")
    BY <1>9 DEF Credit
  <2>2. p \in Phases \ {"idle"} /\ "done" \in Phases
    BY DEF Phases, InTransaction
  <2>3. req[r].input \in Input
    BY <2>1, <2>2, ProceedTyped
  <2>4. req[r].input.wallet \in Wallets /\ req[r].input.to \in Wallets /\ req[r].input.amount \in Int
    BY <2>3, AmountsAssumption DEF Input
  <2>5. PICK w \in Wallets : AddToWallet(r, w, req[r].input.amount)
    BY <1>9, <2>4 DEF Credit
  <2> QED BY <1>9, <2>1, <2>2, <2>4, <2>5, ProceedTyped, WritesTyped DEF Credit, WalletTypeOK
<1>10. ASSUME NEW r \in Requests, Commit(r) PROVE WalletTypeOK'
  <2>1. PICK p \in {"done", "refused"} : Proceed(r, p, "ended")
    BY <1>10 DEF Commit
  <2>2. p \in Phases \ {"idle"} /\ "ended" \in Phases
    BY DEF Phases, InTransaction
  <2>3. PICK st \in Status : row' = [row EXCEPT ![r] = RowOf(r, st)]
    BY <1>10 DEF Commit, Status
  <2>4. row' \in [Requests -> Row \cup {NoRow}]
    BY <2>1, <2>2, <2>3, RowTyped, ProceedTyped
  <2>5. balance' \in [Wallets -> Int]
    BY <1>10 DEF Commit, WalletTypeOK
  <2>6. mirror' \subseteq Requests
    BY <1>10 DEF Commit, WalletTypeOK
  <2> QED BY <1>10, <1>0, <2>1, <2>2, <2>4, <2>5, <2>6, ProceedTyped DEF Commit, WalletTypeOK
<1>11. ASSUME NEW r \in Requests, Abort(r) PROVE WalletTypeOK'
  <2>1. PICK p \in InTransaction : Proceed(r, p, "aborted")
    BY <1>11 DEF Abort
  <2>2. p \in Phases \ {"idle"} /\ "aborted" \in Phases
    BY DEF Phases, InTransaction
  <2> QED BY <1>11, <1>0, <2>1, <2>2, ProceedTyped DEF Abort, WalletTypeOK
<1> QED BY <1>1, <1>2, <1>3, <1>4, <1>5, <1>6, <1>7, <1>8, <1>9, <1>10, <1>11
        DEF WalletNext, WalletStep

LEMMA KeyInit == WalletInit => RowsEnded /\ ChargedClaims /\ ClaimsUnique
BY DEF WalletInit, RowsEnded, ChargedClaims, ClaimsUnique, Claims, InTransaction, NoRow

\* A step in which only r moves, keeping its input and its claim, and commits nothing.
LEMMA QuietStep ==
    ASSUME KeyInv, NEW r \in Requests, NEW p \in Phases \ {"idle"}, NEW q \in Phases,
           Proceed(r, p, q), row' = row, charged' \subseteq charged \cup {r},
           p \in {"looked", "checked"} \cup InTransaction,
           q \in InTransaction => p \in InTransaction,
           charged' # charged => q \in InTransaction,
           p \in InTransaction => q \in InTransaction \cup {"aborted"}
    PROVE  RowsEnded' /\ ChargedClaims' /\ ClaimsUnique'
<1>1. /\ \A s \in Requests : req'[s].input = req[s].input
      /\ \A s \in Requests \ {r} : req'[s] = req[s]
      /\ req'[r].phase = q /\ req[r].phase = p
  BY ProceedTyped DEF KeyInv
<1>2. row[r] = NoRow
  BY <1>1 DEF KeyInv, RowsEnded, InTransaction
<1>3. \A s \in Requests : Claims(s)' => Claims(s)
  BY <1>1 DEF Claims
<1>4. RowsEnded'
  BY <1>1, <1>2 DEF KeyInv, RowsEnded
<1>5. ClaimsUnique'
  BY <1>1, <1>3 DEF KeyInv, ClaimsUnique
<1>6. ChargedClaims'
  <2> SUFFICES ASSUME NEW s \in charged', req'[s].phase # "aborted" PROVE Claims(s)'
    BY DEF ChargedClaims
  <2>1. s \in Requests
    BY DEF KeyInv, WalletTypeOK
  <2>2. CASE s # r
    BY <1>1, <2>1, <2>2 DEF KeyInv, ChargedClaims, Claims
  <2>3. CASE s = r /\ r \in charged
    <3>1. p \in InTransaction
      BY <1>1, <1>2, <2>3 DEF KeyInv, ChargedClaims, Claims, InTransaction
    <3> QED BY <3>1, <1>1, <2>3 DEF Claims, InTransaction, Proceed
  <2>4. CASE s = r /\ r \notin charged
    BY <1>1, <2>4 DEF Claims
  <2> QED BY <2>2, <2>3, <2>4
<1> QED BY <1>4, <1>5, <1>6

LEMMA KeyStep ==
    KeyInv /\ [WalletNext]_walletVars => RowsEnded' /\ ChargedClaims' /\ ClaimsUnique'
<1> SUFFICES ASSUME KeyInv, [WalletNext]_walletVars
             PROVE  RowsEnded' /\ ChargedClaims' /\ ClaimsUnique'
  OBVIOUS
<1>1. CASE UNCHANGED walletVars
  BY <1>1 DEF walletVars, KeyInv, RowsEnded, ChargedClaims, ClaimsUnique, Claims
<1>2. ASSUME NEW r \in Requests, NEW i \in Input, Initiate(r, i)
      PROVE  RowsEnded' /\ ChargedClaims' /\ ClaimsUnique'
  <2>1. /\ \A s \in Requests \ {r} : req'[s] = req[s]
        /\ req'[r].phase \in {"ended", "looked"}
        /\ row' = row /\ charged' = charged /\ req[r].phase = "idle"
    BY <1>2 DEF Initiate, KeyInv, WalletTypeOK
  <2>2. row[r] = NoRow /\ ~Claims(r)' /\ r \notin charged
    BY <2>1 DEF KeyInv, RowsEnded, ChargedClaims, Claims, InTransaction
  <2>3. RowsEnded'
    BY <2>1, <2>2 DEF KeyInv, RowsEnded
  <2>4. ClaimsUnique'
    BY <2>1, <2>2 DEF KeyInv, ClaimsUnique, Claims
  <2>5. ChargedClaims'
    BY <2>1, <2>2 DEF KeyInv, WalletTypeOK, ChargedClaims, Claims
  <2> QED BY <2>3, <2>4, <2>5
<1>3. ASSUME NEW r \in Requests, NEW w \in Wallets, NEW a \in Amounts, Topup(r, w, a)
      PROVE  RowsEnded' /\ ChargedClaims' /\ ClaimsUnique'
  <2>1. /\ \A s \in Requests \ {r} : req'[s] = req[s]
        /\ req'[r].phase = "accepted" /\ req'[r].input.key = NoKey
        /\ row' = row /\ charged' = charged /\ req[r].phase = "idle"
    BY <1>3 DEF Topup, KeyInv, WalletTypeOK
  <2>2. row[r] = NoRow /\ r \notin charged
    BY <2>1 DEF KeyInv, RowsEnded, ChargedClaims, Claims, InTransaction
  <2>3. RowsEnded'
    BY <2>1, <2>2 DEF KeyInv, RowsEnded
  <2>4. ClaimsUnique'
    BY <2>1, <2>2 DEF KeyInv, ClaimsUnique, Claims
  <2>5. ChargedClaims'
    BY <2>1, <2>2 DEF KeyInv, WalletTypeOK, ChargedClaims, Claims
  <2> QED BY <2>3, <2>4, <2>5
<1>4. ASSUME NEW r \in Requests, CheckWallet(r)
      PROVE  RowsEnded' /\ ChargedClaims' /\ ClaimsUnique'
  <2>1. /\ \A s \in Requests \ {r} : req'[s] = req[s]
        /\ req'[r].phase = "checked" /\ req'[r].input = req[r].input
        /\ row' = row /\ charged' = charged /\ req[r].phase = "looked"
    BY <1>4 DEF CheckWallet, KeyInv, WalletTypeOK
  <2>2. row[r] = NoRow /\ r \notin charged
    BY <2>1 DEF KeyInv, RowsEnded, ChargedClaims, Claims, InTransaction
  <2>3. ~Claims(r)'
    BY <2>1, <2>2 DEF Claims, InTransaction
  <2>4. RowsEnded'
    BY <2>1, <2>2 DEF KeyInv, RowsEnded
  <2>5. ClaimsUnique'
    BY <2>1, <2>3 DEF KeyInv, ClaimsUnique, Claims
  <2>6. ChargedClaims'
    BY <2>1, <2>2 DEF KeyInv, WalletTypeOK, ChargedClaims, Claims
  <2> QED BY <2>4, <2>5, <2>6
<1>5. ASSUME NEW r \in Requests, Refuse(r)
      PROVE  RowsEnded' /\ ChargedClaims' /\ ClaimsUnique'
  <2>1. PICK p \in {"looked", "checked"} : Proceed(r, p, "ended")
    BY <1>5 DEF Refuse
  <2> QED BY <1>5, <2>1, QuietStep DEF Refuse, Phases, InTransaction
<1>6. ASSUME NEW r \in Requests, CreateRow(r)
      PROVE  RowsEnded' /\ ChargedClaims' /\ ClaimsUnique'
  <2>1. Proceed(r, "checked", "open") /\ KeyFree(r) /\ row' = row /\ charged' = charged
    BY <1>6 DEF CreateRow
  <2>2. /\ \A s \in Requests : req'[s].input = req[s].input
        /\ \A s \in Requests \ {r} : req'[s] = req[s]
        /\ req'[r].phase = "open" /\ req[r].phase = "checked"
    BY <2>1, ProceedTyped DEF KeyInv, Phases, InTransaction
  <2>3. row[r] = NoRow
    BY <2>2 DEF KeyInv, RowsEnded
  <2>4. RowsEnded'
    BY <2>1, <2>2, <2>3 DEF KeyInv, RowsEnded
  <2>5. ChargedClaims'
    BY <2>1, <2>2 DEF KeyInv, WalletTypeOK, ChargedClaims, Claims, InTransaction
  <2>6. ASSUME NEW s \in Requests \ {r}, Claims(s), req[s].input.key = req[r].input.key
        PROVE  req[r].input.key = NoKey
    BY <2>1, <2>6 DEF KeyFree, KeyTaken, KeyHeld, Claims, KeyInv, RowsEnded
  <2>7. ClaimsUnique'
    BY <2>1, <2>2, <2>6 DEF KeyInv, ClaimsUnique, Claims
  <2> QED BY <2>4, <2>5, <2>7
<1>7. ASSUME NEW r \in Requests, CallProvider(r)
      PROVE  RowsEnded' /\ ChargedClaims' /\ ClaimsUnique'
  <2>1. PICK q \in {"accepted", "refused"} :
           /\ Proceed(r, "open", q) /\ row' = row
           /\ charged' \subseteq charged \cup {r}
    BY <1>7 DEF CallProvider
  <2> QED BY <2>1, QuietStep DEF Phases, InTransaction
<1>8. ASSUME NEW r \in Requests, Debit(r)
      PROVE  RowsEnded' /\ ChargedClaims' /\ ClaimsUnique'
  <2>1. PICK q \in {"debited", "done"} : Proceed(r, "accepted", q)
    BY <1>8 DEF Debit
  <2> QED BY <1>8, <2>1, QuietStep DEF Debit, Phases, InTransaction
<1>9. ASSUME NEW r \in Requests, Credit(r)
      PROVE  RowsEnded' /\ ChargedClaims' /\ ClaimsUnique'
  <2>1. PICK p \in {"accepted", "debited"} : Proceed(r, p, "done")
    BY <1>9 DEF Credit
  <2> QED BY <1>9, <2>1, QuietStep DEF Credit, Phases, InTransaction
<1>10. ASSUME NEW r \in Requests, Commit(r)
       PROVE  RowsEnded' /\ ChargedClaims' /\ ClaimsUnique'
  <2>1. PICK p \in {"done", "refused"} : Proceed(r, p, "ended")
    BY <1>10 DEF Commit
  <2>2. /\ \A s \in Requests : req'[s].input = req[s].input
        /\ \A s \in Requests \ {r} : req'[s] = req[s]
        /\ req'[r].phase = "ended" /\ req[r].phase = p
    BY <2>1, ProceedTyped DEF KeyInv, Phases, InTransaction
  <2>3. PICK st \in Status : row' = [row EXCEPT ![r] = RowOf(r, st)]
    BY <1>10 DEF Commit, Status
  <2>4. /\ row'[r] = [status |-> st, input |-> req[r].input]
        /\ \A s \in Requests \ {r} : row'[s] = row[s]
    BY <2>3 DEF RowOf, KeyInv, WalletTypeOK
  <2>5. row'[r] # NoRow /\ row'[r].input = req'[r].input
    BY <2>2, <2>4 DEF NoRow
  <2>6. Claims(r)
    BY <2>2 DEF Claims, InTransaction
  <2>7. RowsEnded'
    BY <2>2, <2>4, <2>5 DEF KeyInv, RowsEnded
  <2>8. ClaimsUnique'
    BY <2>2, <2>4, <2>6 DEF KeyInv, ClaimsUnique, Claims
  <2>9. ChargedClaims'
    BY <1>10, <2>2, <2>4, <2>5 DEF Commit, KeyInv, WalletTypeOK, ChargedClaims, Claims
  <2> QED BY <2>7, <2>8, <2>9
<1>11. ASSUME NEW r \in Requests, Abort(r)
       PROVE  RowsEnded' /\ ChargedClaims' /\ ClaimsUnique'
  <2>1. PICK p \in InTransaction : Proceed(r, p, "aborted")
    BY <1>11 DEF Abort
  <2> QED BY <1>11, <2>1, QuietStep DEF Abort, Phases, InTransaction
<1> QED BY <1>1, <1>2, <1>3, <1>4, <1>5, <1>6, <1>7, <1>8, <1>9, <1>10, <1>11
        DEF WalletNext, WalletStep

-----------------------------------------------------------------------------
\* Whatever requests overlap and abort, rows, requests and balances keep their types.
THEOREM WalletTypeCorrect == WalletSpec => []WalletTypeOK
<1>1. WalletTypeOK /\ [WalletNext]_walletVars => WalletTypeOK'
  BY TypeStep
<1> QED BY <1>1, TypeInit, PTL DEF WalletSpec

\* The inductive invariant: one request at most holds a key, from the INSERT of its
\* row to the commit and for ever after it.
THEOREM KeyHeldOnce == WalletSpec => []KeyInv
<1>1. WalletInit => KeyInv
  BY TypeInit, KeyInit DEF KeyInv
<1>2. KeyInv /\ [WalletNext]_walletVars => KeyInv'
  BY TypeStep, KeyStep DEF KeyInv
<1> QED BY <1>1, <1>2, PTL DEF WalletSpec

\* However many requests race for an idempotency key, it has at most one transaction.
THEOREM OneTransactionPerKey == WalletSpec => []OneRowPerKey
<1>1. KeyInv => OneRowPerKey
  BY DEF KeyInv, RowsEnded, ClaimsUnique, Claims, OneRowPerKey
<1> QED BY <1>1, KeyHeldOnce, PTL

\* However many requests race for an idempotency key, the provider is called again
\* only after a call whose transaction was rolled back.
THEOREM DuplicatesNeverCharge == WalletSpec => []KeyChargedOnce
<1>1. KeyInv => KeyChargedOnce
  BY DEF KeyInv, WalletTypeOK, ChargedClaims, ClaimsUnique, KeyChargedOnce
<1> QED BY <1>1, KeyHeldOnce, PTL

-----------------------------------------------------------------------------
\* What adding to a wallet does to the uncommitted balances.
LEMMA Added ==
    ASSUME WalletTypeOK, NEW r \in Requests, NEW w \in Wallets, NEW a \in Int, AddToWallet(r, w, a)
    PROVE  /\ \A s \in Requests \ {r} : w \notin DOMAIN writes[s] /\ writes'[s] = writes[s]
           /\ DOMAIN writes'[r] = DOMAIN writes[r] \cup {w}
           /\ writes'[r][w] = (IF w \in DOMAIN writes[r] THEN writes[r][w] ELSE balance[w]) + a
           /\ \A v \in DOMAIN writes[r] \ {w} : writes'[r][v] = writes[r][v]
<1> DEFINE seen == IF w \in DOMAIN writes[r] THEN writes[r][w] ELSE balance[w]
           new == [v \in DOMAIN writes[r] \cup {w} |-> IF v = w THEN seen + a ELSE writes[r][v]]
<1>1. WalletFree(r, w) /\ writes' = [writes EXCEPT ![r] = new]
  BY DEF AddToWallet
<1>2. /\ DOMAIN new = DOMAIN writes[r] \cup {w} /\ new[w] = seen + a
      /\ \A v \in DOMAIN writes[r] \ {w} : new[v] = writes[r][v]
  OBVIOUS
<1> HIDE DEF new
<1>3. writes'[r] = new /\ \A s \in Requests \ {r} : writes'[s] = writes[s]
  BY <1>1 DEF WalletTypeOK
<1> QED BY <1>1, <1>2, <1>3 DEF WalletFree

\* A step of one request that commits nothing keeps the others.
LEMMA OthersWritten ==
    ASSUME LockInv, WalletTypeOK', NEW r \in Requests, balance' = balance,
           \A s \in Requests \ {r} : req'[s] = req[s] /\ writes'[s] = writes[s],
           \A s \in Requests \ {r} : DOMAIN writes'[r] \cap DOMAIN writes[s] = {},
           Written(req'[r], writes'[r], balance)
    PROVE  LockInv'
<1>1. LocksApart'
  BY DEF LockInv, LocksApart
<1>2. \A s \in Requests : Written(req'[s], writes'[s], balance')
  BY DEF LockInv
<1> QED BY <1>1, <1>2 DEF LockInv

\* A step of one request that writes no wallet.
LEMMA NothingWritten ==
    ASSUME LockInv, WalletTypeOK', NEW r \in Requests, UNCHANGED <<balance, writes>>,
           \A s \in Requests \ {r} : req'[s] = req[s],
           Written(req'[r], writes[r], balance)
    PROVE  LockInv'
BY OthersWritten DEF LockInv, LocksApart

\* The fields of an input.
LEMMA InputFields ==
    ASSUME NEW i \in Input
    PROVE  /\ i.wallet \in Wallets /\ i.to \in Wallets /\ i.amount \in Amounts /\ i.amount \in Int
           /\ i.type \in {"TRANSFER", "PAYMENT"} /\ i.direction \in {"INBOUND", "OUTBOUND"}
BY AmountsAssumption DEF Input

LEMMA LockInit == WalletInit => LockInv
<1> SUFFICES ASSUME WalletInit PROVE LockInv
  OBVIOUS
<1>1. \A r \in Requests : writes[r] = NoWrites /\ req[r].phase = "idle"
  BY DEF WalletInit
<1>2. DOMAIN NoWrites = {}
  BY DEF NoWrites
<1>3. \A r \in Requests : Written(req[r], writes[r], balance)
  BY <1>1, <1>2 DEF Written, InTransaction
<1> QED BY <1>1, <1>2, <1>3, TypeInit DEF LockInv, LocksApart

LEMMA LockStep == LockInv /\ [WalletNext]_walletVars => LockInv'
<1> SUFFICES ASSUME LockInv, [WalletNext]_walletVars PROVE LockInv'
  OBVIOUS
<1>0. WalletTypeOK /\ WalletTypeOK' /\ DOMAIN NoWrites = {}
  BY TypeStep DEF LockInv, NoWrites
<1>1. CASE UNCHANGED walletVars
  BY <1>0, <1>1 DEF walletVars, LockInv, LocksApart
<1>2. ASSUME NEW r \in Requests, NEW i \in Input, Initiate(r, i)
      PROVE  LockInv'
  <2>1. /\ \A s \in Requests \ {r} : req'[s] = req[s]
        /\ req[r].phase = "idle" /\ req'[r].phase \in {"ended", "looked"}
    BY <1>0, <1>2 DEF Initiate, WalletTypeOK
  <2>2. Written(req'[r], writes[r], balance)
    BY <2>1 DEF LockInv, Written, InTransaction
  <2> QED BY <1>0, <1>2, <2>1, <2>2, NothingWritten DEF Initiate
<1>3. ASSUME NEW r \in Requests, NEW w \in Wallets, NEW a \in Amounts, Topup(r, w, a)
      PROVE  LockInv'
  <2>1. /\ \A s \in Requests \ {r} : req'[s] = req[s]
        /\ req[r].phase = "idle" /\ req'[r].phase = "accepted" /\ req'[r].input.direction = "INBOUND"
    BY <1>0, <1>3 DEF Topup, WalletTypeOK
  <2>2. Written(req'[r], writes[r], balance)
    BY <2>1 DEF LockInv, Written
  <2> QED BY <1>0, <1>3, <2>1, <2>2, NothingWritten DEF Topup
<1>4. ASSUME NEW r \in Requests, CheckWallet(r)
      PROVE  LockInv'
  <2>1. /\ \A s \in Requests \ {r} : req'[s] = req[s]
        /\ req[r].phase = "looked" /\ req'[r].phase = "checked" /\ req'[r].input = req[r].input
        /\ req'[r].read = balance[req[r].input.wallet]
    BY <1>0, <1>4 DEF CheckWallet, WalletTypeOK
  <2>2. req'[r].input.direction = "OUTBOUND" => req'[r].read >= req'[r].input.amount
    BY <1>4, <2>1 DEF CheckWallet, Covers
  <2>3. Written(req'[r], writes[r], balance)
    BY <2>1, <2>2 DEF LockInv, Written
  <2> QED BY <1>0, <1>4, <2>1, <2>3, NothingWritten DEF CheckWallet
<1>5. ASSUME NEW r \in Requests, NEW p, NEW q, Proceed(r, p, q), UNCHANGED <<balance, writes>>,
             p \notin {"debited", "done"}, q \notin {"debited", "done"},
             q \in InTransaction => p \in {"checked"} \cup InTransaction, q # "checked"
      PROVE  LockInv'
  <2>1. /\ \A s \in Requests \ {r} : req'[s] = req[s]
        /\ req[r].phase = p /\ req'[r].phase = q
        /\ req'[r].input = req[r].input /\ req'[r].read = req[r].read
    BY <1>0, <1>5 DEF Proceed, WalletTypeOK
  <2>2. Written(req'[r], writes[r], balance)
    BY <1>5, <2>1 DEF LockInv, Written
  <2> QED BY <1>0, <1>5, <2>1, <2>2, NothingWritten
<1>6. ASSUME NEW r \in Requests, Refuse(r) \/ CreateRow(r) \/ CallProvider(r)
      PROVE  LockInv'
  BY <1>5, <1>6 DEF Refuse, CreateRow, CallProvider, InTransaction
<1>7. ASSUME NEW r \in Requests, NEW p \in {"accepted", "debited"}, NEW q \in {"debited", "done"},
             Proceed(r, p, q), NEW w \in Wallets, NEW a \in Int, AddToWallet(r, w, a),
             balance' = balance,
             q = "debited" => req[r].input.type = "TRANSFER",
             p = "accepted" => w = req[r].input.wallet /\ a = Moved(req'[r]),
             p = "debited" => /\ w = req[r].input.to /\ a = req[r].input.amount
                              /\ q = "done" /\ req[r].input.type = "TRANSFER"
      PROVE  LockInv'
  <2> DEFINE i == req[r].input
  <2>1. /\ \A s \in Requests \ {r} : req'[s] = req[s]
        /\ req[r].phase = p /\ req'[r].phase = q
        /\ req'[r].input = i /\ req'[r].read = req[r].read
    BY <1>0, <1>7 DEF Proceed, WalletTypeOK
  <2>2. i \in Input
    BY <1>0, <2>1 DEF WalletTypeOK
  <2>3. /\ i.wallet \in Wallets /\ i.to \in Wallets /\ i.amount \in Int
        /\ balance[i.wallet] \in Int
    BY <1>0, <2>2, InputFields DEF WalletTypeOK
  <2>4. Written(req[r], writes[r], balance)
    BY DEF LockInv
  <2>5. /\ \A s \in Requests \ {r} : w \notin DOMAIN writes[s] /\ writes'[s] = writes[s]
        /\ DOMAIN writes'[r] = DOMAIN writes[r] \cup {w}
        /\ writes'[r][w] = (IF w \in DOMAIN writes[r] THEN writes[r][w] ELSE balance[w]) + a
        /\ \A v \in DOMAIN writes[r] \ {w} : writes'[r][v] = writes[r][v]
    BY <1>0, <1>7, Added
  <2>6. \A s \in Requests \ {r} : DOMAIN writes'[r] \cap DOMAIN writes[s] = {}
    BY <2>5 DEF LockInv, LocksApart
  <2>7. i.wallet \in DOMAIN writes'[r] /\ writes'[r][i.wallet] = balance[i.wallet] + Moved(req'[r])
    <3>1. CASE p = "accepted"
      <4>1. DOMAIN writes[r] = {} /\ w = i.wallet /\ a = Moved(req'[r])
        BY <1>7, <2>1, <2>4, <3>1 DEF Written
      <4> QED BY <2>5, <4>1
    <3>2. CASE p = "debited"
      <4>1. /\ i.wallet \in DOMAIN writes[r]
            /\ writes[r][i.wallet] = balance[i.wallet] - i.amount
        BY <1>7, <2>1, <2>3, <2>4, <3>2 DEF Written, Moved
      <4>2. w = i.to /\ a = i.amount /\ i.type = "TRANSFER" /\ q = "done"
        BY <1>7, <3>2
      <4>3. CASE i.to = i.wallet
        <5>1. Moved(req'[r]) = 0
          BY <2>1, <4>2, <4>3 DEF Moved
        <5>2. writes'[r][i.wallet] = (balance[i.wallet] - i.amount) + i.amount
          BY <2>5, <4>1, <4>2, <4>3
        <5>3. writes'[r][i.wallet] = balance[i.wallet] + 0
          BY <2>3, <5>2
        <5> QED BY <2>5, <4>1, <5>1, <5>3
      <4>4. CASE i.to # i.wallet
        <5>1. Moved(req'[r]) = -i.amount
          BY <2>1, <4>2, <4>4 DEF Moved
        <5>2. writes'[r][i.wallet] = balance[i.wallet] - i.amount
          BY <2>5, <4>1, <4>2, <4>4
        <5>3. writes'[r][i.wallet] = balance[i.wallet] + (-i.amount)
          BY <2>3, <5>2
        <5> QED BY <2>5, <4>1, <5>1, <5>3
      <4> QED BY <4>3, <4>4
    <3> QED BY <1>7, <3>1, <3>2
  <2>8. i.direction = "OUTBOUND" => req[r].read >= i.amount
    BY <1>7, <2>1, <2>4 DEF Written, InTransaction
  <2>9. Written(req'[r], writes'[r], balance)
    BY <1>7, <2>1, <2>7, <2>8 DEF Written
  <2> QED BY <1>0, <1>7, <2>1, <2>5, <2>6, <2>9, OthersWritten
<1>8. ASSUME NEW r \in Requests, Debit(r)
      PROVE  LockInv'
  <2> DEFINE i == req[r].input
             q == IF i.type = "TRANSFER" THEN "debited" ELSE "done"
  <2>1. /\ i.type = "TRANSFER" \/ i.direction = "OUTBOUND"
        /\ Proceed(r, "accepted", q)
        /\ AddToWallet(r, i.wallet, -i.amount) /\ balance' = balance
    BY <1>8 DEF Debit
  <2>2. i \in Input /\ req'[r].input = i /\ req'[r].phase = q
    BY <1>0, <2>1 DEF WalletTypeOK, Proceed
  <2>3. i.wallet \in Wallets /\ i.amount \in Int
    BY <2>2, InputFields
  <2>4. -i.amount = Moved(req'[r])
    BY <2>1, <2>2 DEF Moved
  <2>5. -i.amount \in Int
    <3>1. \A x \in Int : -x \in Int
      OBVIOUS
    <3> QED BY <2>3, <3>1, Zenon
  <2>6. q \in {"debited", "done"} /\ (q = "debited" => i.type = "TRANSFER")
    OBVIOUS
  <2> HIDE DEF q
  <2> QED BY <1>7, <2>1, <2>3, <2>4, <2>5, <2>6
<1>9. ASSUME NEW r \in Requests, Credit(r)
      PROVE  LockInv'
  <2> DEFINE i == req[r].input
  <2>0. balance' = balance
    BY <1>9 DEF Credit
  <2>1. CASE Proceed(r, "debited", "done") /\ AddToWallet(r, i.to, i.amount)
    <3>1. i \in Input /\ i.type = "TRANSFER"
      BY <1>0, <2>1 DEF LockInv, WalletTypeOK, Proceed, Written
    <3>2. i.to \in Wallets /\ i.amount \in Int
      BY <3>1, InputFields
    <3> QED BY <1>7, <2>0, <2>1, <3>1, <3>2
  <2>2. CASE /\ Proceed(r, "accepted", "done") /\ AddToWallet(r, i.wallet, i.amount)
             /\ i.type # "TRANSFER" /\ i.direction = "INBOUND"
    <3>1. i \in Input /\ req'[r].input = i
      BY <1>0, <2>2 DEF WalletTypeOK, Proceed
    <3>2. i.wallet \in Wallets /\ i.amount \in Int
      BY <3>1, InputFields
    <3>3. i.amount = Moved(req'[r])
      BY <2>2, <3>1 DEF Moved
    <3> QED BY <1>7, <2>0, <2>2, <3>2, <3>3
  <2> QED BY <1>9, <2>1, <2>2 DEF Credit
<1>10. ASSUME NEW r \in Requests, Commit(r) \/ Abort(r)
       PROVE  LockInv'
  <2>1. /\ \A s \in Requests \ {r} : req'[s] = req[s] /\ writes'[s] = writes[s]
        /\ req'[r].phase \in {"ended", "aborted"} /\ writes'[r] = NoWrites
    BY <1>0, <1>10 DEF Commit, Abort, Proceed, WalletTypeOK
  <2>2. Written(req'[r], writes'[r], balance')
    BY <1>0, <2>1 DEF Written, InTransaction
  <2>3. ASSUME NEW s \in Requests \ {r}
        PROVE  Written(req'[s], writes'[s], balance')
    <3>1. Written(req[s], writes[s], balance)
      BY DEF LockInv
    <3>2. CASE req[s].phase \in {"debited", "done"}
      <4>1. req[s].input.wallet \in DOMAIN writes[s] \ DOMAIN writes[r]
        BY <3>1, <3>2 DEF Written, LockInv, LocksApart
      <4>2. req[s].input.wallet \in Wallets
        BY <1>0, <4>1 DEF WalletTypeOK
      <4>3. balance'[req[s].input.wallet] = balance[req[s].input.wallet]
        BY <1>10, <4>1, <4>2 DEF Commit, Abort
      <4> QED BY <2>1, <3>1, <4>3 DEF Written
    <3>3. CASE req[s].phase \notin {"debited", "done"}
      BY <2>1, <3>1, <3>3 DEF Written
    <3> QED BY <3>2, <3>3
  <2>4. LocksApart'
    BY <1>0, <2>1 DEF LockInv, LocksApart
  <2> QED BY <1>0, <2>2, <2>3, <2>4 DEF LockInv
<1> QED BY <1>1, <1>2, <1>3, <1>4, <1>6, <1>8, <1>9, <1>10 DEF WalletNext, WalletStep

\* Where no amount is negative (initiate does not check it): a payment drives a wallet below
\* zero only if another one has changed the wallet since its balance was checked, or by a
\* transfer asked for as INBOUND; for any requests, wallets and such amounts.
THEOREM OverdraftsExplained ==
    ASSUME Amounts \subseteq Nat
    PROVE  WalletSpec => OverdraftOnlyByStaleCheck
<1> DEFINE Explains(r) ==
      LET i == req[r].input
      IN  \/ balance'[i.wallet] >= 0 \/ balance'[i.wallet] >= balance[i.wallet]
          \/ req[r].read # balance[i.wallet]
          \/ i.type = "TRANSFER" /\ i.direction = "INBOUND"
<1>1. ASSUME LockInv, WalletNext, NEW r \in Requests, row'[r] # row[r]
      PROVE  Explains(r)
  <2>0. WalletTypeOK /\ Written(req[r], writes[r], balance)
    BY <1>1 DEF LockInv
  <2>1. Commit(r)
    <3>1. PICK s \in Requests : WalletStep(s)
      BY <1>1 DEF WalletNext
    <3>2. Commit(s)
      BY <1>1, <3>1 DEF WalletStep, Initiate, Topup, CheckWallet, Refuse, CreateRow, CallProvider,
                        Debit, Credit, Abort
    <3>3. row' = [row EXCEPT ![s] = row'[s]]
      BY <2>0, <3>2 DEF Commit, WalletTypeOK
    <3>4. s = r
      BY <1>1, <2>0, <3>3 DEF WalletTypeOK
    <3> QED BY <3>2, <3>4
  <2> DEFINE i == req[r].input
  <2>2. req[r].phase \in {"done", "refused"}
    BY <2>1 DEF Commit, Proceed
  <2>3. i \in Input
    BY <2>0, <2>2 DEF WalletTypeOK
  <2>4. /\ i.wallet \in Wallets /\ i.amount \in Nat
        /\ i.type \in {"TRANSFER", "PAYMENT"} /\ i.direction \in {"INBOUND", "OUTBOUND"}
        /\ balance[i.wallet] \in Int
    BY <2>0, <2>3, InputFields DEF WalletTypeOK
  <2>5. balance'[i.wallet] = IF i.wallet \in DOMAIN writes[r] THEN writes[r][i.wallet] ELSE balance[i.wallet]
    BY <2>1, <2>4 DEF Commit
  <2>6. CASE req[r].phase = "refused"
    <3>1. balance'[i.wallet] = balance[i.wallet]
      BY <2>0, <2>5, <2>6 DEF Written
    <3> QED BY <2>4, <3>1
  <2>7. CASE req[r].phase = "done"
    <3>1. /\ balance'[i.wallet] = balance[i.wallet] + Moved(req[r])
          /\ i.direction = "OUTBOUND" => req[r].read >= i.amount
      BY <2>0, <2>5, <2>7 DEF Written, InTransaction
    <3>2. \/ Moved(req[r]) = 0
          \/ Moved(req[r]) = i.amount
          \/ Moved(req[r]) = -i.amount /\ (i.type = "TRANSFER" \/ i.direction = "OUTBOUND")
      BY DEF Moved
    <3>3. CASE i.direction = "OUTBOUND" /\ req[r].read = balance[i.wallet]
      BY <2>4, <3>1, <3>2, <3>3
    <3>4. CASE i.direction = "INBOUND"
      BY <2>4, <3>1, <3>2, <3>4
    <3> QED BY <2>4, <3>3, <3>4
  <2> QED BY <2>2, <2>6, <2>7
<1>2. LockInv /\ [WalletNext]_walletVars =>
        [\A r \in Requests : row'[r] # row[r] => Explains(r)]_walletVars
  BY <1>1
<1>3. LockInv /\ [WalletNext]_walletVars => LockInv'
  BY LockStep
<1> QED BY <1>2, <1>3, LockInit, PTL DEF WalletSpec, OverdraftOnlyByStaleCheck

-----------------------------------------------------------------------------
(* The ledger. *)

\* An amount for every request, and a sum for every set of requests.
Terms == [Requests -> Int]

Totals == [SUBSET Requests -> Int]

\* The element the sum of the ledger takes first.
Pick(S) == CHOOSE r \in S : TRUE

\* it sums e over every set of requests, in the order Pick takes them.
Sums(it, e) == \A S \in SUBSET Requests :
    it[S] = IF S = {} THEN 0 ELSE e[Pick(S)] + it[S \ {Pick(S)}]

\* What the ledger says of w, request by request.
Explanation(w) == [r \in Requests |-> Explained(r, w)]

\* The balance of w is the opening balance and the sum of what the ledger says.
Explains(w) ==
    /\ Explanation(w) \in Terms
    /\ \E it \in Totals :
          Sums(it, Explanation(w)) /\ balance[w] = Opening + it[Requests]

\* What a request with input i, once committed, has done to w.
Effect(i, w) ==
    (IF i.wallet # w THEN 0
     ELSE IF i.type = "TRANSFER" \/ i.direction = "OUTBOUND" THEN -i.amount ELSE i.amount)
    + (IF i.type = "TRANSFER" /\ i.to = w THEN i.amount ELSE 0)

\* A request q with uncommitted balances wr has so far done the first of its updates, or all.
Posted(q, wr, bal) ==
    LET i == q.input
    IN  /\ q.phase \notin {"debited", "done"} => DOMAIN wr = {}
        /\ q.phase = "debited" =>
              i.type = "TRANSFER" /\ DOMAIN wr = {i.wallet} /\ wr[i.wallet] = bal[i.wallet] - i.amount
        /\ q.phase = "done" =>
              /\ DOMAIN wr = {i.wallet} \cup (IF i.type = "TRANSFER" THEN {i.to} ELSE {})
              /\ \A w \in DOMAIN wr : wr[w] = bal[w] + Effect(i, w)

MirrorsEnded == \A r \in mirror : req[r].phase = "ended"

LedgerInv ==
    /\ LockInv /\ KeyInv /\ MirrorsEnded
    /\ \A r \in Requests : Posted(req[r], writes[r], balance)
    /\ \A w \in Wallets : Explains(w)

\* Summing one request differently changes the sum by the difference.
LEMMA SumChanges ==
    ASSUME NEW e \in Terms, NEW f \in Terms, NEW r \in Requests,
           \A s \in Requests \ {r} : f[s] = e[s],
           NEW it \in Totals, Sums(it, e)
    PROVE  \E jt \in Totals :
              Sums(jt, f) /\ jt[Requests] = it[Requests] + (f[r] - e[r])
<1> DEFINE d == f[r] - e[r]
           jt == [S \in SUBSET Requests |-> it[S] + (IF r \in S THEN d ELSE 0)]
<1>1. d \in Int
  BY DEF Terms
<1> HIDE DEF d
<1>2. jt \in Totals
  BY <1>1 DEF Totals
<1>3. Sums(jt, f)
  <2> SUFFICES ASSUME NEW S \in SUBSET Requests
               PROVE  jt[S] = IF S = {} THEN 0 ELSE f[Pick(S)] + jt[S \ {Pick(S)}]
    BY DEF Sums
  <2>1. CASE S = {}
    <3>1. it[S] = 0
      BY <2>1 DEF Sums
    <3>2. jt[S] = it[S] + (IF r \in S THEN d ELSE 0)
      OBVIOUS
    <3> HIDE DEF jt
    <3> QED BY <2>1, <3>1, <3>2
  <2>2. CASE S # {}
    <3> DEFINE p == Pick(S)
               T == S \ {p}
    <3>1. p \in S /\ T \in SUBSET Requests
      BY <2>2 DEF Pick
    <3>2. it[S] = e[p] + it[T] /\ it[S] \in Int /\ it[T] \in Int /\ e[p] \in Int /\ f[p] \in Int
      BY <2>2, <3>1 DEF Sums, Terms, Totals
    <3>3. jt[S] = it[S] + (IF r \in S THEN d ELSE 0) /\ jt[T] = it[T] + (IF r \in T THEN d ELSE 0)
      BY <3>1
    <3> HIDE DEF p, jt
    <3>4. CASE p = r
      <4>1. r \in S /\ r \notin T /\ f[p] = e[p] + d
        BY <3>1, <3>2, <3>4 DEF d
      <4> QED BY <1>1, <2>2, <3>2, <3>3, <4>1 DEF p
    <3>5. CASE p # r
      <4>1. (r \in S <=> r \in T) /\ f[p] = e[p]
        BY <3>1, <3>5
      <4> QED BY <1>1, <2>2, <3>2, <3>3, <4>1 DEF p
    <3> QED BY <3>4, <3>5
  <2> QED BY <2>1, <2>2
<1>4. jt[Requests] = it[Requests] + d
  OBVIOUS
<1> QED BY <1>2, <1>3, <1>4 DEF d

\* Over a finite set there is one sum.
LEMMA SumUnique ==
    ASSUME IsFiniteSet(Requests), NEW e, NEW it, Sums(it, e), NEW jt, Sums(jt, e)
    PROVE  it[Requests] = jt[Requests]
<1> DEFINE Bad == {S \in SUBSET Requests : it[S] # jt[S]}
<1> SUFFICES ASSUME Bad # {} PROVE FALSE
  OBVIOUS
<1>1. IsWellFoundedOn(StrictSubsetOrdering(Requests), SUBSET Requests)
  BY FS_StrictSubsetOrderingWellFounded, FS_FiniteSubsetsOfFinite, Zenon
<1>2. PICK S \in Bad : \A T \in Bad : ~ (<<T, S>> \in StrictSubsetOrdering(Requests))
  <2>1. Bad \subseteq SUBSET Requests
    OBVIOUS
  <2> HIDE DEF Bad
  <2> QED BY <1>1, <2>1, WFMin, Zenon
<1>3. S # {}
  BY DEF Sums
<1> DEFINE T == S \ {Pick(S)}
<1>4. T \in SUBSET Requests /\ T \subseteq S /\ T # S
  BY <1>3 DEF Pick
<1>5. <<T, S>> \in StrictSubsetOrdering(Requests)
  BY <1>4 DEF StrictSubsetOrdering
<1>6. it[T] = jt[T]
  BY <1>2, <1>4, <1>5
<1>7. it[S] = e[Pick(S)] + it[T] /\ jt[S] = e[Pick(S)] + jt[T]
  BY <1>3 DEF Sums
<1> QED BY <1>6, <1>7

\* What the ledger folds over the requests is that sum.
LEMMA LedgerSum ==
    ASSUME IsFiniteSet(Requests), NEW w \in Wallets, NEW it \in Totals,
           Sums(it, Explanation(w))
    PROVE  it[Requests] = MapThenFoldSet(+, 0, LAMBDA r : Explained(r, w),
                                         LAMBDA S : CHOOSE r \in S : TRUE, Requests)
<1> DEFINE Folds1(f) == f = [S \in SUBSET Requests |->
              IF S = {} THEN 0 ELSE Explained(Pick(S), w) + f[S \ {Pick(S)}]]
           fold == CHOOSE f : Folds1(f)
<1>1. MapThenFoldSet(+, 0, LAMBDA r : Explained(r, w), LAMBDA S : CHOOSE r \in S : TRUE, Requests)
        = fold[Requests]
  BY DEF MapThenFoldSet, Pick
<1>2. \A S \in SUBSET Requests : S # {} => Pick(S) \in Requests /\ Explanation(w)[Pick(S)] = Explained(Pick(S), w)
  BY DEF Pick, Explanation
<1>3. Folds1(it)
  <2> HIDE DEF fold
  <2>1. \A S \in SUBSET Requests :
           it[S] = IF S = {} THEN 0 ELSE Explained(Pick(S), w) + it[S \ {Pick(S)}]
    BY <1>2 DEF Sums
  <2>2. it = [S \in SUBSET Requests |-> it[S]]
    BY DEF Totals
  <2> QED BY <2>1, <2>2
<1>4. Folds1(fold)
  <2> HIDE DEF Folds1
  <2> QED BY <1>3
<1> HIDE DEF fold
<1>5. \A S \in SUBSET Requests :
         fold[S] = IF S = {} THEN 0 ELSE Explained(Pick(S), w) + fold[S \ {Pick(S)}]
  BY <1>4, Zenon
<1>6. Sums(fold, Explanation(w))
  BY <1>2, <1>5 DEF Sums
<1> QED BY <1>1, <1>6, SumUnique

\* A step of r that commits nothing.
LEMMA NothingCommitted ==
    ASSUME LedgerInv, NEW r \in Requests, UNCHANGED <<balance, row, mirror>>,
           req[r].phase # "ended",
           \A s \in Requests \ {r} : req'[s] = req[s] /\ writes'[s] = writes[s],
           Posted(req'[r], writes'[r], balance)
    PROVE  /\ MirrorsEnded'
           /\ \A s \in Requests : Posted(req'[s], writes'[s], balance')
           /\ \A w \in Wallets : Explains(w)'
<1>1. MirrorsEnded'
  <2>1. r \notin mirror /\ mirror \subseteq Requests
    BY DEF LedgerInv, MirrorsEnded, LockInv, WalletTypeOK
  <2> QED BY <2>1 DEF LedgerInv, MirrorsEnded
<1>2. \A s \in Requests : Posted(req'[s], writes'[s], balance')
  BY DEF LedgerInv
<1>3. \A w \in Wallets : Explains(w)'
  <2> SUFFICES ASSUME NEW w \in Wallets PROVE Explains(w)'
    OBVIOUS
  <2>1. Explains(w)
    BY DEF LedgerInv
  <2>2. Explanation(w)' = Explanation(w)
    BY DEF Explanation, Explained
  <2> QED BY <2>1, <2>2 DEF Explains
<1> QED BY <1>1, <1>2, <1>3

\* The same, of a step that writes no wallet.
LEMMA NothingPosted ==
    ASSUME LedgerInv, NEW r \in Requests, UNCHANGED <<balance, row, mirror, writes>>,
           req[r].phase \notin {"ended", "debited", "done"},
           \A s \in Requests \ {r} : req'[s] = req[s],
           req'[r].phase \notin {"debited", "done"}
    PROVE  /\ MirrorsEnded'
           /\ \A s \in Requests : Posted(req'[s], writes'[s], balance')
           /\ \A w \in Wallets : Explains(w)'
<1>1. Posted(req'[r], writes'[r], balance)
  BY DEF LedgerInv, Posted
<1> QED BY <1>1, NothingCommitted

\* Adding to a wallet after the first update, or as the first.
LEMMA UpdatePosted ==
    ASSUME LedgerInv, NEW r \in Requests, NEW p \in {"accepted", "debited"},
           NEW q \in {"debited", "done"}, Proceed(r, p, q), UNCHANGED <<balance, row, mirror>>,
           NEW w \in Wallets, NEW a \in Int, AddToWallet(r, w, a),
           LET i == req[r].input
           IN  /\ p = "accepted" /\ q = "debited" =>
                     i.type = "TRANSFER" /\ w = i.wallet /\ a = -i.amount
               /\ p = "accepted" /\ q = "done" =>
                     /\ i.type # "TRANSFER" /\ w = i.wallet
                     /\ a = (IF i.direction = "OUTBOUND" THEN -i.amount ELSE i.amount)
               /\ p = "debited" => q = "done" /\ w = i.to /\ a = i.amount
    PROVE  /\ MirrorsEnded'
           /\ \A s \in Requests : Posted(req'[s], writes'[s], balance')
           /\ \A v \in Wallets : Explains(v)'
<1> DEFINE i == req[r].input
           wr == writes[r]
           new == writes'[r]
<1>0. WalletTypeOK /\ Posted(req[r], wr, balance)
  BY DEF LedgerInv, LockInv
<1>1. /\ \A s \in Requests \ {r} : req'[s] = req[s]
      /\ req[r].phase = p /\ req'[r].phase = q /\ req'[r].input = i
  BY <1>0 DEF Proceed, WalletTypeOK
<1>2. i \in Input
  BY <1>0, <1>1 DEF WalletTypeOK
<1>3. /\ i.wallet \in Wallets /\ i.to \in Wallets /\ i.amount \in Int
      /\ i.type \in {"TRANSFER", "PAYMENT"} /\ i.direction \in {"INBOUND", "OUTBOUND"}
      /\ balance[i.wallet] \in Int /\ balance[i.to] \in Int
  BY <1>0, <1>2, InputFields DEF WalletTypeOK
<1>4. /\ \A s \in Requests \ {r} : writes'[s] = writes[s]
      /\ DOMAIN new = DOMAIN wr \cup {w}
      /\ new[w] = (IF w \in DOMAIN wr THEN wr[w] ELSE balance[w]) + a
      /\ \A v \in DOMAIN wr \ {w} : new[v] = wr[v]
  BY <1>0, Added
<1> HIDE DEF wr, new, i
<1>5. Posted(req'[r], new, balance)
  <2>1. CASE p = "accepted"
    <3>1. DOMAIN wr = {} /\ w = i.wallet /\ DOMAIN new = {i.wallet} /\ new[w] = balance[w] + a
      BY <1>0, <1>1, <1>4, <2>1 DEF Posted, i
    <3>2. CASE q = "debited"
      <4>1. i.type = "TRANSFER" /\ a = -i.amount
        BY <2>1, <3>2 DEF i
      <4>2. new[i.wallet] = balance[i.wallet] - i.amount
        BY <1>3, <3>1, <4>1
      <4> QED BY <1>1, <3>1, <3>2, <4>1, <4>2 DEF Posted
    <3>3. CASE q = "done"
      <4>1. /\ i.type # "TRANSFER"
            /\ a = (IF i.direction = "OUTBOUND" THEN -i.amount ELSE i.amount)
        BY <2>1, <3>3 DEF i
      <4>2. Effect(i, i.wallet) = a
        BY <1>3, <4>1 DEF Effect
      <4> QED BY <1>1, <3>1, <3>3, <4>1, <4>2 DEF Posted
    <3> QED BY <3>2, <3>3
  <2>2. CASE p = "debited"
    <3>1. /\ i.type = "TRANSFER" /\ DOMAIN wr = {i.wallet}
          /\ wr[i.wallet] = balance[i.wallet] - i.amount
      BY <1>0, <1>1, <2>2 DEF Posted, i
    <3>2. q = "done" /\ w = i.to /\ a = i.amount
      BY <2>2 DEF i
    <3>3. DOMAIN new = {i.wallet} \cup {i.to}
      BY <1>4, <3>1, <3>2
    <3>4. CASE i.to = i.wallet
      <4>1. new[i.wallet] = (balance[i.wallet] - i.amount) + i.amount
        BY <1>4, <3>1, <3>2, <3>4
      <4>2. Effect(i, i.wallet) = (-i.amount) + i.amount
        BY <3>1, <3>4 DEF Effect
      <4>3. new[i.wallet] = balance[i.wallet] + Effect(i, i.wallet)
        BY <1>3, <4>1, <4>2
      <4> QED BY <1>1, <3>1, <3>2, <3>3, <3>4, <4>3 DEF Posted
    <3>5. CASE i.to # i.wallet
      <4>1. new[i.wallet] = balance[i.wallet] - i.amount /\ new[i.to] = balance[i.to] + i.amount
        BY <1>4, <3>1, <3>2, <3>5
      <4>2. Effect(i, i.wallet) = (-i.amount) + 0 /\ Effect(i, i.to) = 0 + i.amount
        BY <3>1, <3>5 DEF Effect
      <4>3. /\ new[i.wallet] = balance[i.wallet] + Effect(i, i.wallet)
            /\ new[i.to] = balance[i.to] + Effect(i, i.to)
        BY <1>3, <4>1, <4>2
      <4> QED BY <1>1, <3>1, <3>2, <3>3, <4>3 DEF Posted
    <3> QED BY <3>4, <3>5
  <2> QED BY <2>1, <2>2
<1> QED BY <1>1, <1>4, <1>5, NothingCommitted DEF new

\* A commit changes every balance by what its rows say from now on.
LEMMA CommitPosted ==
    ASSUME LedgerInv, NEW r \in Requests, Commit(r)
    PROVE  /\ MirrorsEnded'
           /\ \A s \in Requests : Posted(req'[s], writes'[s], balance')
           /\ \A w \in Wallets : Explains(w)'
<1> DEFINE i == req[r].input
           wr == writes[r]
<1>0. /\ WalletTypeOK /\ Posted(req[r], wr, balance) /\ RowsEnded /\ LocksApart
      /\ DOMAIN NoWrites = {}
  BY DEF LedgerInv, LockInv, KeyInv, NoWrites
<1>1. /\ \A s \in Requests \ {r} : req'[s] = req[s] /\ writes'[s] = writes[s]
      /\ req[r].phase \in {"done", "refused"} /\ req'[r].phase = "ended"
      /\ writes'[r] = NoWrites
  BY <1>0 DEF Commit, Proceed, WalletTypeOK
<1>2. row[r] = NoRow /\ r \notin mirror
  BY <1>0, <1>1 DEF RowsEnded, LedgerInv, MirrorsEnded
<1>3. i \in Input
  BY <1>0, <1>1 DEF WalletTypeOK
<1>4. /\ i.wallet \in Wallets /\ i.to \in Wallets /\ i.amount \in Int
      /\ i.type \in {"TRANSFER", "PAYMENT"} /\ i.direction \in {"INBOUND", "OUTBOUND"}
  BY <1>3, InputFields
<1>5. \A w \in Wallets : /\ balance'[w] = (IF w \in DOMAIN wr THEN wr[w] ELSE balance[w])
                         /\ balance[w] \in Int
  BY <1>0 DEF Commit, WalletTypeOK
<1>6. /\ \A s \in Requests \ {r} : row'[s] = row[s] /\ (s \in mirror' <=> s \in mirror)
      /\ row'[r] # NoRow /\ row'[r].input = i
      /\ req[r].phase = "done" => /\ row'[r].status # "FAILED"
                                  /\ r \in mirror' <=> i.type = "TRANSFER"
      /\ req[r].phase = "refused" => row'[r].status = "FAILED" /\ r \notin mirror'
      /\ mirror' \subseteq mirror \cup {r}
  <2>1. PICK st \in Status : /\ row' = [row EXCEPT ![r] = RowOf(r, st)]
                             /\ req[r].phase = "done" => st # "FAILED"
                             /\ req[r].phase = "refused" => st = "FAILED"
    BY <1>1 DEF Commit, Status, Proceed
  <2>2. /\ row'[r] = [status |-> st, input |-> i]
        /\ \A s \in Requests \ {r} : row'[s] = row[s]
    BY <1>0, <2>1 DEF WalletTypeOK, RowOf
  <2>3. row'[r] # NoRow /\ row'[r].input = i /\ row'[r].status = st
    BY <2>2 DEF NoRow
  <2>4. /\ req[r].phase = "done" => mirror' = IF i.type = "TRANSFER" THEN mirror \cup {r} ELSE mirror
        /\ req[r].phase = "refused" => mirror' = mirror
    BY <1>1 DEF Commit, Proceed
  <2> HIDE DEF i
  <2> QED BY <1>1, <1>2, <2>1, <2>2, <2>3, <2>4
<1> HIDE DEF i, wr
<1>7. ASSUME NEW w \in Wallets
      PROVE  Explained(r, w)' \in Int /\ balance'[w] = balance[w] + Explained(r, w)'
  <2>1. CASE req[r].phase = "done"
    <3>1. Explained(r, w)' = Effect(i, w)
      BY <1>4, <1>6, <2>1 DEF Explained, Effect
    <3>2. Effect(i, w) \in Int
      BY <1>4 DEF Effect
    <3>3. /\ DOMAIN wr = {i.wallet} \cup (IF i.type = "TRANSFER" THEN {i.to} ELSE {})
          /\ \A v \in DOMAIN wr : wr[v] = balance[v] + Effect(i, v)
      BY <1>0, <2>1 DEF Posted, i
    <3>4. CASE w \in DOMAIN wr
      BY <1>5, <3>1, <3>2, <3>3, <3>4
    <3>5. CASE w \notin DOMAIN wr
      <4>1. Effect(i, w) = 0
        BY <1>4, <3>3, <3>5 DEF Effect
      <4> QED BY <1>5, <3>1, <3>5, <4>1
    <3> QED BY <3>4, <3>5
  <2>2. CASE req[r].phase = "refused"
    <3>1. Explained(r, w)' = 0
      BY <1>6, <2>2 DEF Explained
    <3>2. DOMAIN wr = {}
      BY <1>0, <2>2 DEF Posted
    <3> QED BY <1>5, <3>1, <3>2
  <2> QED BY <1>1, <2>1, <2>2
<1>8. ASSUME NEW w \in Wallets
      PROVE  Explains(w)'
  <2> DEFINE e == Explanation(w)
             f == Explanation(w)'
  <2>1. PICK it \in Totals :
           Sums(it, e) /\ balance[w] = Opening + it[Requests] /\ e \in Terms
    BY DEF LedgerInv, Explains
  <2>2. e[r] = 0 /\ f[r] = Explained(r, w)' /\ Explained(r, w)' \in Int
    BY <1>2, <1>7 DEF Explanation, Explained
  <2>3. \A s \in Requests \ {r} : f[s] = e[s]
    <3> SUFFICES ASSUME NEW s \in Requests \ {r} PROVE f[s] = e[s]
      OBVIOUS
    <3>1. Explained(s, w)' = Explained(s, w)
      BY <1>6 DEF Explained
    <3> QED BY <3>1 DEF Explanation
  <2>4. f \in Terms
    <3>1. f = [s \in Requests |-> f[s]]
      BY DEF Explanation
    <3>2. \A s \in Requests : f[s] \in Int
      BY <2>1, <2>2, <2>3 DEF Terms
    <3> HIDE DEF f
    <3> QED BY <3>1, <3>2 DEF Terms
  <2> HIDE DEF e, f
  <2>5. PICK jt \in Totals :
           Sums(jt, f) /\ jt[Requests] = it[Requests] + (f[r] - e[r])
    BY <2>1, <2>3, <2>4, SumChanges
  <2>6. balance'[w] = Opening + jt[Requests]
    <3>1. balance'[w] = (Opening + it[Requests]) + Explained(r, w)'
      BY <1>7, <2>1
    <3>2. jt[Requests] = it[Requests] + Explained(r, w)'
      BY <2>2, <2>5
    <3>3. it[Requests] \in Int /\ Opening \in Int
      BY AmountsAssumption DEF Totals
    <3> QED BY <2>2, <3>1, <3>2, <3>3
  <2> QED BY <2>4, <2>5, <2>6 DEF Explains, Sums, f
<1>9. MirrorsEnded'
  BY <1>1, <1>6, <1>0 DEF LedgerInv, MirrorsEnded, WalletTypeOK
<1>10. ASSUME NEW s \in Requests
       PROVE  Posted(req'[s], writes'[s], balance')
  <2>1. CASE s = r
    BY <1>0, <1>1, <2>1 DEF Posted
  <2>2. CASE s # r
    <3>1. Posted(req[s], writes[s], balance) /\ req'[s] = req[s] /\ writes'[s] = writes[s]
      BY <1>1, <2>2 DEF LedgerInv
    <3>2. \A w \in DOMAIN writes[s] : balance'[w] = balance[w]
      <4>1. DOMAIN writes[s] \cap DOMAIN wr = {} /\ DOMAIN writes[s] \subseteq Wallets
        BY <1>0, <2>2 DEF LocksApart, WalletTypeOK, wr
      <4> QED BY <1>5, <4>1
    <3> QED BY <3>1, <3>2 DEF Posted
  <2> QED BY <2>1, <2>2
<1> QED BY <1>8, <1>9, <1>10

LEMMA LedgerInit == WalletInit => LedgerInv
<1> SUFFICES ASSUME WalletInit PROVE LedgerInv
  OBVIOUS
<1>1. LockInv /\ KeyInv /\ MirrorsEnded
  BY LockInit, TypeInit, KeyInit DEF KeyInv, MirrorsEnded, WalletInit
<1>2. \A r \in Requests : Posted(req[r], writes[r], balance)
  <2>1. \A r \in Requests : writes[r] = NoWrites /\ req[r].phase = "idle"
    BY DEF WalletInit
  <2>2. DOMAIN NoWrites = {}
    BY DEF NoWrites
  <2> QED BY <2>1, <2>2 DEF Posted
<1>3. ASSUME NEW w \in Wallets
      PROVE  Explains(w)
  <2> DEFINE it == [S \in SUBSET Requests |-> 0]
             e == Explanation(w)
  <2>1. e = [r \in Requests |-> 0]
    BY DEF Explanation, Explained, WalletInit
  <2>2. it \in Totals /\ it[Requests] = 0
    BY DEF Totals
  <2>3. Sums(it, e)
    <3> SUFFICES ASSUME NEW S \in SUBSET Requests
                 PROVE  it[S] = IF S = {} THEN 0 ELSE e[Pick(S)] + it[S \ {Pick(S)}]
      BY DEF Sums
    <3>1. S # {} => Pick(S) \in Requests
      BY DEF Pick
    <3>2. S \ {Pick(S)} \in SUBSET Requests
      OBVIOUS
    <3> QED BY <2>1, <3>1, <3>2
  <2>4. balance[w] = Opening + it[Requests]
    BY <2>2, AmountsAssumption DEF WalletInit
  <2> HIDE DEF it
  <2> QED BY <2>1, <2>2, <2>3, <2>4 DEF Explains, Terms
<1> QED BY <1>1, <1>2, <1>3 DEF LedgerInv

LEMMA LedgerStep == LedgerInv /\ [WalletNext]_walletVars => LedgerInv'
<1> SUFFICES ASSUME LedgerInv, [WalletNext]_walletVars PROVE LedgerInv'
  OBVIOUS
<1> DEFINE Kept == /\ MirrorsEnded'
                   /\ \A s \in Requests : Posted(req'[s], writes'[s], balance')
                   /\ \A w \in Wallets : Explains(w)'
<1>0. WalletTypeOK /\ LockInv' /\ KeyInv'
  BY LockStep, TypeStep, KeyStep DEF LedgerInv, KeyInv
<1> SUFFICES Kept
  BY <1>0 DEF LedgerInv
<1>1. CASE UNCHANGED walletVars
  <2>1. \A w \in Wallets : Explains(w)'
    <3> SUFFICES ASSUME NEW w \in Wallets PROVE Explains(w)'
      OBVIOUS
    <3>1. Explanation(w)' = Explanation(w) /\ balance' = balance
      BY <1>1 DEF Explanation, Explained, walletVars
    <3> QED BY <3>1 DEF Explains, LedgerInv
  <2> QED BY <1>1, <2>1 DEF walletVars, LedgerInv, MirrorsEnded
<1> HIDE DEF Kept
<1>2. ASSUME NEW r \in Requests, NEW i \in Input, Initiate(r, i) PROVE Kept
  <2>1. /\ \A s \in Requests \ {r} : req'[s] = req[s]
        /\ req[r].phase = "idle" /\ req'[r].phase \in {"ended", "looked"}
    BY <1>0, <1>2 DEF Initiate, WalletTypeOK
  <2> QED BY <1>2, <2>1, NothingPosted DEF Initiate, Kept
<1>3. ASSUME NEW r \in Requests, NEW w \in Wallets, NEW a \in Amounts, Topup(r, w, a) PROVE Kept
  <2>1. /\ \A s \in Requests \ {r} : req'[s] = req[s]
        /\ req[r].phase = "idle" /\ req'[r].phase = "accepted"
    BY <1>0, <1>3 DEF Topup, WalletTypeOK
  <2> QED BY <1>3, <2>1, NothingPosted DEF Topup, Kept
<1>4. ASSUME NEW r \in Requests, CheckWallet(r) PROVE Kept
  <2>1. /\ \A s \in Requests \ {r} : req'[s] = req[s]
        /\ req[r].phase = "looked" /\ req'[r].phase = "checked"
    BY <1>0, <1>4 DEF CheckWallet, WalletTypeOK
  <2> QED BY <1>4, <2>1, NothingPosted DEF CheckWallet, Kept
<1>5. ASSUME NEW r \in Requests, NEW p, NEW q, p \notin {"ended", "debited", "done"},
             q \notin {"debited", "done"}, Proceed(r, p, q),
             UNCHANGED <<balance, row, mirror, writes>>
      PROVE  Kept
  <2>1. /\ \A s \in Requests \ {r} : req'[s] = req[s]
        /\ req[r].phase = p /\ req'[r].phase = q
    BY <1>0, <1>5 DEF Proceed, WalletTypeOK
  <2> QED BY <1>5, <2>1, NothingPosted DEF Kept
<1>6. ASSUME NEW r \in Requests, Refuse(r) \/ CreateRow(r) \/ CallProvider(r) PROVE Kept
  BY <1>5, <1>6 DEF Refuse, CreateRow, CallProvider
<1>7. ASSUME NEW r \in Requests, Debit(r) PROVE Kept
  <2> DEFINE i == req[r].input
             q == IF i.type = "TRANSFER" THEN "debited" ELSE "done"
  <2>1. /\ i.type = "TRANSFER" \/ i.direction = "OUTBOUND"
        /\ Proceed(r, "accepted", q)
        /\ AddToWallet(r, i.wallet, -i.amount) /\ UNCHANGED <<balance, row, mirror>>
    BY <1>7 DEF Debit
  <2>2. i \in Input
    BY <1>0, <2>1 DEF WalletTypeOK, Proceed
  <2>3. i.wallet \in Wallets /\ i.amount \in Int
    BY <2>2, InputFields
  <2>4. -i.amount \in Int
    <3>1. \A x \in Int : -x \in Int
      OBVIOUS
    <3> QED BY <2>3, <3>1, Zenon
  <2>5. /\ q \in {"debited", "done"}
        /\ q = "debited" => i.type = "TRANSFER"
        /\ q = "done" => i.type # "TRANSFER" /\ i.direction = "OUTBOUND"
    BY <2>1
  <2> HIDE DEF q
  <2> QED BY <2>1, <2>3, <2>4, <2>5, UpdatePosted DEF Kept
<1>8. ASSUME NEW r \in Requests, Credit(r) PROVE Kept
  <2> DEFINE i == req[r].input
  <2>0. UNCHANGED <<balance, row, mirror>>
    BY <1>8 DEF Credit
  <2>1. CASE Proceed(r, "debited", "done") /\ AddToWallet(r, i.to, i.amount)
    <3>1. i \in Input
      BY <1>0, <2>1 DEF WalletTypeOK, Proceed
    <3>2. i.to \in Wallets /\ i.amount \in Int
      BY <3>1, InputFields
    <3> QED BY <2>0, <2>1, <3>2, UpdatePosted DEF Kept
  <2>2. CASE /\ Proceed(r, "accepted", "done") /\ AddToWallet(r, i.wallet, i.amount)
             /\ i.type # "TRANSFER" /\ i.direction = "INBOUND"
    <3>1. i \in Input
      BY <1>0, <2>2 DEF WalletTypeOK, Proceed
    <3>2. i.wallet \in Wallets /\ i.amount \in Int
      BY <3>1, InputFields
    <3> QED BY <2>0, <2>2, <3>2, UpdatePosted DEF Kept
  <2> QED BY <1>8, <2>1, <2>2 DEF Credit
<1>9. ASSUME NEW r \in Requests, Commit(r) PROVE Kept
  BY <1>9, CommitPosted DEF Kept
<1>10. ASSUME NEW r \in Requests, Abort(r) PROVE Kept
  <2>1. /\ \A s \in Requests \ {r} : req'[s] = req[s] /\ writes'[s] = writes[s]
        /\ req[r].phase # "ended" /\ req'[r].phase = "aborted" /\ writes'[r] = NoWrites
    BY <1>0, <1>10 DEF Abort, Proceed, WalletTypeOK, InTransaction
  <2>2. Posted(req'[r], writes'[r], balance)
    BY <2>1 DEF Posted, NoWrites
  <2> QED BY <1>10, <2>1, <2>2, NothingCommitted DEF Abort, Kept
<1> QED BY <1>1, <1>2, <1>3, <1>4, <1>6, <1>7, <1>8, <1>9, <1>10 DEF WalletNext, WalletStep

\* Every balance is the opening balance and the effects of the committed rows, for any finite
\* number of requests and any wallets, keys and amounts: no commit, abort or interleaving of
\* initiate and topup loses a payment, applies one twice or applies half of one.
THEOREM LedgerExplains ==
    ASSUME IsFiniteSet(Requests)
    PROVE  WalletSpec => []LedgerExplainsBalance
<1>1. ASSUME LedgerInv PROVE LedgerExplainsBalance
  <2> SUFFICES ASSUME NEW w \in Wallets
               PROVE  balance[w] = Opening + MapThenFoldSet(+, 0, LAMBDA r : Explained(r, w),
                                                            LAMBDA S : CHOOSE r \in S : TRUE, Requests)
    BY DEF LedgerExplainsBalance
  <2>1. PICK it \in Totals :
           Sums(it, Explanation(w)) /\ balance[w] = Opening + it[Requests]
    BY <1>1 DEF LedgerInv, Explains
  <2> QED BY <2>1, LedgerSum
<1>2. WalletSpec => []LedgerInv
  BY LedgerInit, LedgerStep, PTL DEF WalletSpec
<1> QED BY <1>1, <1>2, PTL

=============================================================================
