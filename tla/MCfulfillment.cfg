\* Two overlapping requests, on the shortest order that can complete, with no task.
CONSTANTS
    Requests = {r1, r2}
    Incidents = {i1}
    Tasks = {}
    TaskNeeds <- NoNeeds
    TaskBlocking <- NoBlocking
    ExecutionTargets = {"PREPARING", "READY_FOR_DISPATCH", "PARTIALLY_FULFILLED", "COMPLETED"}
SPECIFICATION HistSpec
SYMMETRY Symmetry
INVARIANTS TypeOK ProofBeforeValidation ResolvedByBoth BothAcceptedResolves
           CompletedHasNoBlockingIncident
PROPERTY Implements
CHECK_DEADLOCK FALSE
