CONSTANTS
    Requests = {r1, r2}
    ExecutionTargets = {"PREPARING", "READY_FOR_DISPATCH", "DISPATCHED", "IN_TRANSIT", "ARRIVED",
                        "RECEIVED", "COMPLETED", "CANCELLED", "RETURN_REVIEW", "PARTIALLY_FULFILLED"}
SPECIFICATION JournalSpec
SYMMETRY Symmetry
INVARIANTS JournalTypeOK JournalExplainsStatus ReceivedThroughChain DispatchHasRecord
CHECK_DEADLOCK FALSE
