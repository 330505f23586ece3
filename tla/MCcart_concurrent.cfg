\* Two overlapping requests, any of which may die, on one cart.
SPECIFICATION Spec
CONSTANTS
    Carts = {c1}
    Orders = {o1, o2}
    Products = {p1, p2}
    Requests = {r1, r2}
    MaxQty = 1
    MaxLines = 2
    NoOrder = NoOrder
    MayCrash = TRUE
    ConnectLinksCart = FALSE
CHECK_DEADLOCK FALSE
INVARIANTS TypeOK OneOrderPerCart OrderLinesConvertible ConfirmedStatusBacked
PROPERTY Implements
SYMMETRY Renaming
