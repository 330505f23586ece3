---------------------------- MODULE OrderExecution ----------------------------
(***************************************************************************)
(* The operational status of one order (relational-order-execution.service *)
(* and its policy).  applyTransition reads the order, decides, then opens a *)
(* transaction of the database's default isolation, READ COMMITTED: the    *)
(* re-check inside it and the unconditional update that follows are two     *)
(* statements, and another transaction may commit between them.  Hence     *)
(* three actions: Begin (read), Check (re-check), Commit (update).  The row *)
(* written to relational_order_execution_events by the same transaction is *)
(* kept by ExecutionJournal, which extends this module.                    *)
(*                                                                         *)
(* The first dispatch readiness creates the order's fulfillment record.    *)
(***************************************************************************)
CONSTANTS
    Requests,           \* handler invocations that may be in flight together
    ExecutionTargets    \* bound: the statuses a request may ask for

VARIABLES
    execution,  \* orders.relational_order_execution_status
    record,     \* the row of relational_fulfillment_records, or NoRecord
    req         \* req[r]: what request r has read and is about to write

execVars == <<execution, record, req>>

-----------------------------------------------------------------------------
\* The linear corridor chain.
LinearChain ==
    {<<"CREATED", "PREPARING">>, <<"PREPARING", "READY_FOR_DISPATCH">>,
     <<"READY_FOR_DISPATCH", "DISPATCHED">>, <<"DISPATCHED", "IN_TRANSIT">>,
     <<"IN_TRANSIT", "ARRIVED">>, <<"ARRIVED", "RECEIVED">>, <<"RECEIVED", "COMPLETED">>}

BeforeArrival == {"CREATED", "PREPARING", "READY_FOR_DISPATCH", "DISPATCHED", "IN_TRANSIT"}

\* EXCEPTION_MATRIX.
Exceptions ==
    ((BeforeArrival \cup {"ARRIVED", "PARTIALLY_FULFILLED"}) \X {"BLOCKED"})
    \cup ((BeforeArrival \cup {"RETURN_REVIEW"}) \X {"CANCELLED"})
    \cup ({"PREPARING", "READY_FOR_DISPATCH"} \X {"PARTIALLY_FULFILLED"})
    \cup ({"RETURN_REVIEW", "PARTIALLY_FULFILLED"} \X {"COMPLETED"})
    \cup {<<"ARRIVED", "REJECTED_AT_RECEPTION">>, <<"RECEIVED", "RETURN_REVIEW">>}

Terminal == {"COMPLETED", "CANCELLED", "REJECTED_AT_RECEPTION", "BLOCKED"}

ExecutionStatus ==
    {"CREATED", "PREPARING", "READY_FOR_DISPATCH", "DISPATCHED", "IN_TRANSIT", "ARRIVED",
     "RECEIVED", "PARTIALLY_FULFILLED", "RETURN_REVIEW"} \cup Terminal

ASSUME TargetsAssumption == ExecutionTargets \subseteq ExecutionStatus

\* The statuses that create the fulfillment record.
EnsureFulfillment == {"READY_FOR_DISPATCH", "DISPATCHED"}

FulfillmentStatus ==
    {"PREPARING_FULFILLMENT", "READY_FOR_LOADING", "LOADING_CONFIRMED", "IN_TRANSFER",
     "ARRIVED_AT_DESTINATION", "RECEPTION_PENDING_VALIDATION", "RECEPTION_VALIDATED",
     "RECEPTION_PARTIALLY_VALIDATED", "RECEPTION_REJECTED", "INCIDENT_REPORTED",
     "FULFILLMENT_COMPLETED", "FULFILLMENT_BLOCKED"}

\* arrived: arrivedAtDestinationAt is set; proofValidated: the column.
\* proofRequired is left out: the only create sets it and nothing clears it.
RecordRow == [status : FulfillmentStatus \cup {"ABSENT"}, arrived : BOOLEAN,
              proofValidated : BOOLEAN]

NoRecord == [status |-> "ABSENT", arrived |-> FALSE, proofValidated |-> FALSE]

NewRecord == [NoRecord EXCEPT !.status = "PREPARING_FULFILLMENT"]

Idle == [op |-> "idle"]

TransitionRequest == [op : {"transition", "transitionChecked"},
                      from : ExecutionStatus, to : ExecutionStatus]

-----------------------------------------------------------------------------
\* Mutant: a step of the chain may be skipped.
MayTransitionSkipping(from, to) ==
    /\ from \notin Terminal
    /\ \/ <<from, to>> \in LinearChain \cup Exceptions
       \/ \E via \in ExecutionStatus : <<from, via>> \in LinearChain /\ <<via, to>> \in LinearChain

\* assertTransitionAllowed, for a target that differs from the status read.
MayTransition(from, to) ==
    /\ from \notin Terminal
    /\ <<from, to>> \in LinearChain \cup Exceptions

\* Mutant: the record is created at dispatch only.
EnsuredRecordLate(to) == IF to = "DISPATCHED" /\ record = NoRecord THEN NewRecord ELSE record

\* Mutant: a new record starts ready for loading, as its order is ready for dispatch.
EnsuredRecordLoaded(to) ==
    IF to \in EnsureFulfillment /\ record = NoRecord
    THEN [NewRecord EXCEPT !.status = "READY_FOR_LOADING"]
    ELSE record

\* ensureFulfillmentRecordForExecution, in the transaction that sets status to.
EnsuredRecord(to) ==
    IF to \in EnsureFulfillment /\ record = NoRecord THEN NewRecord ELSE record

-----------------------------------------------------------------------------
ExecInit ==
    /\ execution = "CREATED"
    /\ record = NoRecord
    /\ req = [r \in Requests |-> Idle]

BeginTransition(r, to) ==
    /\ req[r] = Idle
    /\ MayTransition(execution, to)
    /\ req' = [req EXCEPT ![r] = [op |-> "transition", from |-> execution, to |-> to]]
    /\ UNCHANGED <<execution, record>>

\* The re-check in the transaction; a conflict ends the request (Fail).
CheckTransition(r) ==
    /\ req[r].op = "transition"
    /\ execution = req[r].from
    /\ req' = [req EXCEPT ![r].op = "transitionChecked"]
    /\ UNCHANGED <<execution, record>>

\* `update where id`, the event, the fulfillment record; then the commit.
CommitTransition(r) ==
    /\ req[r].op = "transitionChecked"
    /\ execution' = req[r].to
    /\ record' = EnsuredRecord(req[r].to)
    /\ req' = [req EXCEPT ![r] = Idle]

\* A conflict, a refusal by the corridor, an error or a crash: nothing is written.
Fail(r) ==
    /\ req[r] # Idle
    /\ req' = [req EXCEPT ![r] = Idle]
    /\ UNCHANGED <<execution, record>>

ExecStep(r) ==
    \/ \E to \in ExecutionTargets : BeginTransition(r, to)
    \/ CheckTransition(r)
    \/ CommitTransition(r)

ExecNext == \E r \in Requests : ExecStep(r) \/ Fail(r)

ExecSpec == ExecInit /\ [][ExecNext]_execVars

-----------------------------------------------------------------------------
\* The status is one the schema lists, the record is absent or new, and a request
\* holds nothing but a transition.
ExecTypeOK ==
    /\ execution \in ExecutionStatus
    /\ record \in {NoRecord, NewRecord}
    /\ req \in [Requests -> TransitionRequest \cup {Idle}]

=============================================================================
