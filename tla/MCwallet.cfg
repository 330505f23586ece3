CONSTANTS
    Requests = {r1, r2, r3}
    Wallets = {w1, w2}
    Keys = {k1}
    NoKey = NoKey
    Amounts = {1}
    Opening = 1
SPECIFICATION WalletSpec
SYMMETRY Symmetry
INVARIANTS WalletTypeOK LedgerExplainsBalance OneRowPerKey KeyChargedOnce
PROPERTY OverdraftOnlyByStaleCheck
CHECK_DEADLOCK FALSE
