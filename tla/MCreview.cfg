CONSTANTS
    Boards = {b1, b2}
    Calls = {c1, c2}
    Organizations = {o1, o2}
    Nobody = Nobody
    MaxDecisions = 3
SPECIFICATION Spec
SYMMETRY Symmetry
INVARIANTS
    JournalExplainsReview
    ApprovedAsRequired
    OneOpenBoard
CHECK_DEADLOCK FALSE

