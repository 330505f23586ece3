CONSTANTS
    Terms = {t1, t2}
    Watched = t1
    DraftTerms = DraftTerms
    NoTerms = NoTerms
    Relationships = {r1, r2}
    Threads = {th}
    NoThread = NoThread
    Carts = {k1, k2}
    NoCart = NoCart
    Calls = {c1, c2}
SPECIFICATION Spec
INVARIANTS
    CartFollowsAcceptance
    OneCartPerSource
PROPERTY
    AcceptanceReachesCart
