\* One request at a time, none dying half way, on one cart.
SPECIFICATION AttestSpec
CONSTANTS
    Carts = {c1}
    Orders = {o1, o2}
    Products = {p1, p2}
    Requests = {r1}
    MaxQty = 2
    MaxLines = 2
    NoOrder = NoOrder
    MayCrash = FALSE
    ConnectLinksCart = FALSE
CHECK_DEADLOCK FALSE
INVARIANTS LockedContentAttested ConfirmationsAgree
