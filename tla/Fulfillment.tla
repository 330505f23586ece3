------------------------------ MODULE Fulfillment ------------------------------
(***************************************************************************)
(* The fulfillment record of one order: reception proof, reception         *)
(* validation, incidents and their resolution, and completion              *)
(* (relational-fulfillment.service, -policy, -resolution.service), with    *)
(* the order's execution (OrderExecution) and the record's coordination    *)
(* tasks (FulfillmentTasks).                                               *)
(*                                                                         *)
(* A handler reads the record, checks the order and the corridor, then     *)
(* opens a READ COMMITTED transaction.  Begin... is the read.  The         *)
(* transaction is one action, Commit..., where it only does a conditional  *)
(* updateMany and inserts, and two where it reads first and writes later.  *)
(* Fail (of OrderExecution) stands for every refusal, error and crash.     *)
(***************************************************************************)
EXTENDS OrderExecution

CONSTANTS
    Tasks, TaskNeeds, TaskBlocking,     \* see FulfillmentTasks
    Incidents                           \* rows of relational_fulfillment_incidents; bounds their number

VARIABLES
    proof,      \* an accepted reception proof is on file
    incidents,  \* incidents[i]: the row; status ABSENT while it is not inserted
    tasks       \* see FulfillmentTasks

vars == <<execution, record, req, proof, incidents, tasks>>

Tsk == INSTANCE FulfillmentTasks

-----------------------------------------------------------------------------
Sides == {"buyer", "seller"}

ASSUME NeedsAssumption == TaskNeeds \subseteq SUBSET Sides /\ TaskBlocking \subseteq BOOLEAN

ArrivalPhase == {"ARRIVED_AT_DESTINATION", "RECEPTION_PENDING_VALIDATION"}

Completable == {"RECEPTION_VALIDATED", "RECEPTION_PARTIALLY_VALIDATED"}

TerminalFulfillment == {"FULFILLMENT_COMPLETED", "FULFILLMENT_BLOCKED", "RECEPTION_REJECTED"}

\* The targets that only domain endpoints may set.
Sensitive == Completable \cup {"FULFILLMENT_COMPLETED", "RECEPTION_REJECTED"}

BeforeDestination ==
    {"PREPARING_FULFILLMENT", "READY_FOR_LOADING", "LOADING_CONFIRMED", "IN_TRANSFER"}

\* LINEAR and EXCEPTIONS of the fulfillment policy.
PolicyEdges ==
    {<<"PREPARING_FULFILLMENT", "READY_FOR_LOADING">>,
     <<"READY_FOR_LOADING", "LOADING_CONFIRMED">>, <<"LOADING_CONFIRMED", "IN_TRANSFER">>,
     <<"IN_TRANSFER", "ARRIVED_AT_DESTINATION">>,
     <<"ARRIVED_AT_DESTINATION", "RECEPTION_PENDING_VALIDATION">>,
     <<"INCIDENT_REPORTED", "RECEPTION_PENDING_VALIDATION">>}
    \cup ((BeforeDestination \cup {"INCIDENT_REPORTED"}) \X {"FULFILLMENT_BLOCKED"})
    \cup (ArrivalPhase \X {"INCIDENT_REPORTED"})

\* What reportIncident distinguishes: PARTIAL_RECEPTION, the other blocking types,
\* and the two types that only warn.
ReportKind == {"partial", "blocking", "warning"}

\* ACCEPTED_BY_BOTH_PARTIES, REJECTED and ESCALATION_REQUIRED are never set.
ResolutionStatus ==
    {"OPEN", "RESOLUTION_PROPOSED", "ACCEPTED_BY_BUYER", "ACCEPTED_BY_SELLER", "RESOLVED"}

\* typeBlocks: incidentType is a blocking one; flag: blocksFulfillmentCompletion of
\* its metadata; accepted: the sides whose ...ResolutionAcceptedAt is set.
IncidentRow == [status : ResolutionStatus \cup {"ABSENT"}, typeBlocks : BOOLEAN,
                flag : BOOLEAN, accepted : SUBSET Sides]

AbsentIncident == [status |-> "ABSENT", typeBlocks |-> FALSE, flag |-> FALSE, accepted |-> {}]

FulfillmentRequest ==
    [op : {"advance"}, from : FulfillmentStatus, to : FulfillmentStatus]
    \cup [op : {"proof", "validate", "partial", "align", "examine", "recheck", "complete"}]
    \cup [op : {"reject"}, typeBlocks : BOOLEAN]
    \cup [op : {"report"}, kind : ReportKind, next : FulfillmentStatus]
    \cup [op : {"reportChecked"}, kind : ReportKind, next : FulfillmentStatus,
          seen : FulfillmentStatus]
    \cup [op : {"propose"}, incident : Incidents]
    \cup [op : {"accept"}, incident : Incidents, side : Sides]
    \cup [op : {"acceptRead"}, incident : Incidents, side : Sides, seen : SUBSET Sides]

-----------------------------------------------------------------------------
\* Mutant: an incident one side has accepted no longer blocks.
IncidentBlocksUntilAccepted(x) ==
    x.status \in {"OPEN", "RESOLUTION_PROPOSED"} /\ (x.flag \/ x.typeBlocks)

\* incidentBlocksCompletion, of a row that exists.
IncidentBlocks(x) == x.status \notin {"ABSENT", "RESOLVED"} /\ (x.flag \/ x.typeBlocks)

IncidentsBlock == \E i \in Incidents : IncidentBlocks(incidents[i])

\* assertOrderAllowsFulfillment, read outside every transaction.
OrderAllows == execution \notin {"BLOCKED", "CANCELLED"}

\* assertTransitionAllowed of the fulfillment policy.
MayAdvance(from, to) ==
    /\ to \notin Sensitive
    /\ from \notin TerminalFulfillment
    /\ <<from, to>> \in PolicyEdges

\* Mutant: a warning has a status of its own, which the schema does not list.
StatusAfterReportUnlisted(kind, status) ==
    CASE kind = "partial"  -> "RECEPTION_PARTIALLY_VALIDATED"
      [] kind = "blocking" -> "INCIDENT_REPORTED"
      [] kind = "warning"  -> "WARNING_REPORTED"

\* The status reportIncident will write, from the status it read.
StatusAfterReport(kind, status) ==
    CASE kind = "partial"  -> "RECEPTION_PARTIALLY_VALIDATED"
      [] kind = "blocking" -> "INCIDENT_REPORTED"
      [] kind = "warning"  -> status

\* Bound: a request that inserts an incident begins only while a row is left for one.
RowLeft == \E i \in Incidents : incidents[i] = AbsentIncident

\* A new incident is OPEN and takes an unused row.
AddIncident(typeBlocks, flag) ==
    \E i \in Incidents :
        /\ incidents[i] = AbsentIncident
        /\ incidents' = [incidents EXCEPT ![i] = [status |-> "OPEN", typeBlocks |-> typeBlocks,
                                                  flag |-> flag, accepted |-> {}]]

-----------------------------------------------------------------------------
Init ==
    /\ ExecInit
    /\ proof = FALSE
    /\ incidents = [i \in Incidents |-> AbsentIncident]
    /\ tasks = [t \in Tasks |-> Tsk!AbsentTask]

\* The read half of a handler.
Hold(r, q) ==
    /\ req[r] = Idle
    /\ req' = [req EXCEPT ![r] = q]
    /\ UNCHANGED <<execution, record, proof, incidents, tasks>>

\* A later read of the handler of r: it goes on with q.
GoOn(r, q) ==
    /\ req' = [req EXCEPT ![r] = q]
    /\ UNCHANGED <<execution, record, proof, incidents, tasks>>

\* applyTransition.  Its re-check and its updateMany ask for the same status.
BeginAdvance(r, to) ==
    /\ OrderAllows
    /\ MayAdvance(record.status, to)
    /\ Hold(r, [op |-> "advance", from |-> record.status, to |-> to])

CommitAdvance(r) ==
    /\ req[r].op = "advance"
    /\ record.status = req[r].from
    /\ record' = [record EXCEPT !.status = req[r].to,
                                !.arrived = @ \/ req[r].to = "ARRIVED_AT_DESTINATION"]
    /\ req' = [req EXCEPT ![r] = Idle]
    /\ UNCHANGED <<execution, proof, incidents, tasks>>

\* submitReceptionProof.
BeginProof(r) ==
    /\ record.status \notin TerminalFulfillment \cup {"ABSENT"}
    /\ OrderAllows
    /\ Hold(r, [op |-> "proof"])

CommitProof(r) ==
    /\ req[r].op = "proof"
    /\ record.status \notin TerminalFulfillment
    /\ proof' = TRUE
    /\ req' = [req EXCEPT ![r] = Idle]
    /\ UNCHANGED <<execution, record, incidents, tasks>>

\* Mutant: a validation does not ask for a proof on file.
BeginValidateUnproved(r) ==
    /\ record.status \in ArrivalPhase
    /\ OrderAllows
    /\ Hold(r, [op |-> "validate"])

\* validateReception, by the buyer.
BeginValidate(r) ==
    /\ record.status \in ArrivalPhase
    /\ proof
    /\ OrderAllows
    /\ Hold(r, [op |-> "validate"])

\* The request goes on with completeFulfillmentIfExecutionAligned.
CommitValidate(r) ==
    /\ req[r].op = "validate"
    /\ record.status \in ArrivalPhase
    /\ record' = [record EXCEPT !.status = "RECEPTION_VALIDATED", !.proofValidated = TRUE]
    /\ req' = [req EXCEPT ![r] = [op |-> "align"]]
    /\ UNCHANGED <<execution, proof, incidents, tasks>>

-----------------------------------------------------------------------------
\* Mutant: the order may complete its fulfillment as soon as it has arrived.
ReadAlignmentEarly(r) ==
    /\ req[r].op = "align"
    /\ execution \in {"ARRIVED", "RECEIVED", "COMPLETED"}
    /\ GoOn(r, [op |-> "examine"])

\* completeFulfillmentIfExecutionAligned: the order is read first ...
ReadAlignment(r) ==
    /\ req[r].op = "align"
    /\ execution \in {"RECEIVED", "COMPLETED"}
    /\ GoOn(r, [op |-> "examine"])

\* ... then the record, its incidents and its tasks ...
ExamineRecord(r) ==
    /\ req[r].op = "examine"
    /\ record.status \in Completable
    /\ record.proofValidated
    /\ ~IncidentsBlock
    /\ ~Tsk!TasksBlock
    /\ GoOn(r, [op |-> "recheck"])

\* ... then the transaction counts again ...
RecheckCompletion(r) ==
    /\ req[r].op = "recheck"
    /\ record.status \in Completable
    /\ ~IncidentsBlock
    /\ ~Tsk!TasksBlock
    /\ GoOn(r, [op |-> "complete"])

\* Mutant: updateMany does not ask for a completable status.
CompleteAnyway(r) ==
    /\ req[r].op = "complete"
    /\ record' = [record EXCEPT !.status = "FULFILLMENT_COMPLETED"]
    /\ req' = [req EXCEPT ![r] = Idle]
    /\ UNCHANGED <<execution, proof, incidents, tasks>>

\* ... and writes where the status is still completable.
CommitComplete(r) ==
    /\ req[r].op = "complete"
    /\ record.status \in Completable
    /\ record' = [record EXCEPT !.status = "FULFILLMENT_COMPLETED"]
    /\ req' = [req EXCEPT ![r] = Idle]
    /\ UNCHANGED <<execution, proof, incidents, tasks>>

-----------------------------------------------------------------------------
\* reportIncident: the next status comes from the record read here.
BeginReport(r, kind) ==
    /\ RowLeft
    /\ record.status \notin TerminalFulfillment \cup {"ABSENT"}
    /\ OrderAllows
    /\ Hold(r, [op |-> "report", kind |-> kind, next |-> StatusAfterReport(kind, record.status)])

\* The transaction reads the record again ...
CheckReport(r) ==
    /\ req[r].op = "report"
    /\ record.status \notin TerminalFulfillment
    /\ GoOn(r, [op |-> "reportChecked", kind |-> req[r].kind, next |-> req[r].next,
                seen |-> record.status])

\* ... inserts the incident, and moves the record only if its status should change.
CommitReport(r) ==
    /\ req[r].op = "reportChecked"
    /\ AddIncident(req[r].kind # "warning", req[r].kind # "warning")
    /\ \/ req[r].next = req[r].seen /\ UNCHANGED record
       \/ /\ req[r].next # req[r].seen
          /\ record.status = req[r].seen
          /\ record' = [record EXCEPT !.status = req[r].next]
    /\ req' = [req EXCEPT ![r] = Idle]
    /\ UNCHANGED <<execution, proof, tasks>>

\* rejectReception, by the buyer, with an incident of any type.
BeginReject(r, typeBlocks) ==
    /\ RowLeft
    /\ record.status \in ArrivalPhase
    /\ OrderAllows
    /\ Hold(r, [op |-> "reject", typeBlocks |-> typeBlocks])

CommitReject(r) ==
    /\ req[r].op = "reject"
    /\ record.status \in ArrivalPhase
    /\ record' = [record EXCEPT !.status = "RECEPTION_REJECTED", !.proofValidated = FALSE]
    /\ AddIncident(req[r].typeBlocks, TRUE)
    /\ req' = [req EXCEPT ![r] = Idle]
    /\ UNCHANGED <<execution, proof, tasks>>

\* validatePartialReception, by the buyer.
BeginPartial(r) ==
    /\ RowLeft
    /\ record.status \in ArrivalPhase
    /\ proof
    /\ OrderAllows
    /\ Hold(r, [op |-> "partial"])

CommitPartial(r) ==
    /\ req[r].op = "partial"
    /\ record.status \in ArrivalPhase
    /\ record' = [record EXCEPT !.status = "RECEPTION_PARTIALLY_VALIDATED",
                                !.proofValidated = TRUE]
    /\ AddIncident(TRUE, TRUE)
    /\ req' = [req EXCEPT ![r] = Idle]
    /\ UNCHANGED <<execution, proof, tasks>>

-----------------------------------------------------------------------------
\* proposeResolution: an unconditional update of the incident.
BeginPropose(r, i) ==
    /\ incidents[i].status \notin {"ABSENT", "RESOLVED"}
    /\ record.status # "FULFILLMENT_COMPLETED"
    /\ OrderAllows
    /\ Hold(r, [op |-> "propose", incident |-> i])

CommitPropose(r) ==
    /\ req[r].op = "propose"
    /\ incidents' = [incidents EXCEPT ![req[r].incident].status = "RESOLUTION_PROPOSED"]
    /\ req' = [req EXCEPT ![r] = Idle]
    /\ UNCHANGED <<execution, record, proof, tasks>>

\* acceptResolutionBuyer, acceptResolutionSeller.
BeginAccept(r, i, side) ==
    /\ incidents[i].status \notin {"ABSENT", "RESOLVED"}
    /\ OrderAllows
    /\ Hold(r, [op |-> "accept", incident |-> i, side |-> side])

ReadAccept(r) ==
    /\ req[r].op = "accept"
    /\ GoOn(r, [op |-> "acceptRead", incident |-> req[r].incident, side |-> req[r].side,
                seen |-> incidents[req[r].incident].accepted])

\* Mutant: one acceptance is enough.
BothAcceptedAlways(seen, side) == TRUE

\* Mutant: only the buyer's acceptance looks at the other side's.
BothAcceptedByBuyer(seen, side) == side = "buyer" /\ "seller" \in seen

BothAccepted(seen, side) == seen \cup {side} = Sides

\* The columns of this side, and the status decided on what the transaction read;
\* once resolved, completion is tried.
CommitAccept(r) ==
    /\ req[r].op = "acceptRead"
    /\ LET i == req[r].incident
            both == BothAccepted(req[r].seen, req[r].side)
       IN  /\ incidents' = [incidents EXCEPT
                 ![i].accepted = @ \cup {req[r].side},
                 ![i].flag = @ /\ ~both,
                 ![i].status = IF both THEN "RESOLVED"
                               ELSE IF req[r].side = "buyer" THEN "ACCEPTED_BY_BUYER"
                               ELSE "ACCEPTED_BY_SELLER"]
           /\ req' = [req EXCEPT ![r] = IF both THEN [op |-> "align"] ELSE Idle]
    /\ UNCHANGED <<execution, record, proof, tasks>>

-----------------------------------------------------------------------------
BeginStep(r) ==
    \/ \E to \in FulfillmentStatus : BeginAdvance(r, to)
    \/ BeginProof(r)
    \/ BeginValidate(r)
    \/ \E kind \in ReportKind : BeginReport(r, kind)
    \/ \E typeBlocks \in BOOLEAN : BeginReject(r, typeBlocks)
    \/ BeginPartial(r)
    \/ \E i \in Incidents : \/ BeginPropose(r, i)
                            \/ \E side \in Sides : BeginAccept(r, i, side)

GoOnStep(r) ==
    \/ CheckReport(r)
    \/ ReadAccept(r)
    \/ ReadAlignment(r)
    \/ ExamineRecord(r)
    \/ RecheckCompletion(r)

CommitStep(r) ==
    \/ CommitAdvance(r)
    \/ CommitProof(r)
    \/ CommitValidate(r)
    \/ CommitComplete(r)
    \/ CommitReport(r)
    \/ CommitReject(r)
    \/ CommitPartial(r)
    \/ CommitPropose(r)
    \/ CommitAccept(r)

\* The order's execution moves, or a request ends without a write.
OrderStep(r) ==
    /\ ExecStep(r) \/ Fail(r)
    /\ UNCHANGED <<proof, incidents, tasks>>

TaskStep(r) ==
    /\ record # NoRecord
    /\ Tsk!TaskStep(r) \/ Tsk!TaskCommit(r)
    /\ UNCHANGED <<execution, record, proof, incidents>>

Next ==
    \E r \in Requests :
        BeginStep(r) \/ GoOnStep(r) \/ CommitStep(r) \/ OrderStep(r) \/ TaskStep(r)

Spec == Init /\ [][Next]_vars

-----------------------------------------------------------------------------
\* Every variable keeps its type, whatever the handlers overlap.
TypeOK ==
    /\ execution \in ExecutionStatus
    /\ record \in RecordRow
    /\ proof \in BOOLEAN
    /\ incidents \in [Incidents -> IncidentRow]
    /\ tasks \in [Tasks -> Tsk!TaskRow]
    /\ req \in [Requests -> TransitionRequest \cup FulfillmentRequest
                              \cup Tsk!TaskRequest \cup {Idle}]

\* No reception is validated without a proof on file, whole validation or partial,
\* even when a late incident report puts an old status back
\* (relational-fulfillment-and-proof-system.md, "Reception validation").
ProofBeforeValidation ==
    /\ record.proofValidated => proof
    /\ record.status = "RECEPTION_VALIDATED" => record.proofValidated

\* An incident is resolved only when both sides have accepted, though each side
\* decides on its own read ("Double acceptance").
ResolvedByBoth ==
    \A i \in Incidents : incidents[i].status = "RESOLVED" => incidents[i].accepted = Sides

\* Where the reception stands, in the terms of ReceptionOutcome.
Outcome ==
    CASE record.status = "FULFILLMENT_COMPLETED" -> "completed"
      [] record.status = "FULFILLMENT_BLOCKED"   -> "blocked"
      [] record.status = "RECEPTION_REJECTED"    -> "rejected"
      [] OTHER                                   -> "open"

\* However reports, rejections, validations and completions overlap, the reception
\* ends once, and completes only with its proof validated.
Reception == INSTANCE ReceptionOutcome WITH proved <- record.proofValidated, outcome <- Outcome

Implements == Reception!Spec

\* A completed task carries every confirmation it asks for
\* (relational-fulfillment-coordination.md, "Confirmations").
CompletedTaskConfirmed ==
    \A t \in Tasks : tasks[t].status = "COMPLETED" => tasks[t].needs \subseteq tasks[t].confirmed

=============================================================================
