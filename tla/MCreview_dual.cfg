CONSTANTS
    Boards = {b1}
    Calls = {c1}
    Organizations = {o1, o2}
    Nobody = Nobody
    MaxDecisions = 3
SPECIFICATION Spec
INVARIANTS
    TwoOrganizationsApprove
CHECK_DEADLOCK FALSE
