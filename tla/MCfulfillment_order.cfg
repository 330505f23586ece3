\* Two overlapping requests on an order up to its return review, with one blocking task.
CONSTANTS
    Requests = {r1, r2}
    Incidents = {}
    Tasks = {t1}
    TaskNeeds <- BothNeeds
    TaskBlocking <- Blocking
    ExecutionTargets = {"PREPARING", "READY_FOR_DISPATCH", "DISPATCHED", "IN_TRANSIT", "ARRIVED",
                        "RECEIVED", "RETURN_REVIEW"}
SPECIFICATION OrderHistSpec
SYMMETRY Symmetry
INVARIANTS CompletedTaskConfirmed CompletedAfterReceipt
CHECK_DEADLOCK FALSE
