--------------------------- MODULE FulfillmentProofs ---------------------------
(***************************************************************************)
(* The theorems of Fulfillment, for any requests, incidents, tasks and      *)
(* targets: its types, proof before validation, resolution by both sides,   *)
(* confirmed tasks, and the implementation of ReceptionOutcome.             *)
(*                                                                         *)
(* A handler writes what it decided on an earlier read.  The strengthening  *)
(* says what of that reading is still true when it writes (Held): what is   *)
(* true once of a proof, an acceptance or a task's confirmations stays so,  *)
(* and a validated proof is withdrawn only by the rejection that ends the   *)
(* reception (Warranted).  With the history variables, also: two            *)
(* acceptances resolve, a completed fulfillment has no blocking incident,   *)
(* and its order was received.                                              *)
(***************************************************************************)
EXTENDS FulfillmentHistory, OrderHistory, TLAPS

Request == TransitionRequest \cup FulfillmentRequest \cup Tsk!TaskRequest \cup {Idle}

Recorded == record.status # "ABSENT"

Warranted == record.proofValidated \/ record.status = "RECEPTION_REJECTED"

\* What is true of a request q when the record exists (e), a proof is on file (p), Warranted
\* holds (w), and incidents and tasks are inc and tsk.
Held(q, e, p, w, inc, tsk) ==
    /\ q.op \in {"validate", "partial"} => p
    /\ q.op \in {"recheck", "complete"} => w
    /\ q.op \in {"report", "reportChecked"} =>
          /\ e
          /\ q.next \notin TerminalFulfillment
          /\ q.next = "RECEPTION_VALIDATED" => w
    /\ q.op = "reportChecked" => q.seen \notin TerminalFulfillment
    /\ q.op = "advance" => MayAdvance(q.from, q.to)
    /\ q.op = "acceptRead" => q.seen \subseteq inc[q.incident].accepted
    /\ q.op = "moveTask" => tsk[q.task].status # "ABSENT" /\ q.to # "COMPLETED"
    /\ q.op = "completeTask" =>
          /\ tsk[q.task].status # "ABSENT"
          /\ q.to = "COMPLETED" => tsk[q.task].needs \subseteq q.confirmed

RequestsHeld == \A r \in Requests : Held(req[r], Recorded, proof, Warranted, incidents, tasks)

FulfillmentInv ==
    /\ TypeOK
    /\ ProofBeforeValidation
    /\ ResolvedByBoth
    /\ CompletedTaskConfirmed
    /\ RequestsHeld

\* What no step takes back.
Forward ==
    /\ Recorded => Recorded'
    /\ proof => proof'
    /\ Warranted => Warranted'
    /\ \A i \in Incidents : incidents[i].accepted \subseteq incidents'[i].accepted
    /\ \A t \in Tasks : tasks[t].status # "ABSENT" =>
          tasks'[t].status # "ABSENT" /\ tasks'[t].needs = tasks[t].needs

-----------------------------------------------------------------------------
\* The fields of a request, by what it is for.
LEMMA RequestFields ==
    ASSUME NEW q \in Request
    PROVE  /\ q.op \in {"transition", "transitionChecked"} =>
                 q \in TransitionRequest /\ q.from \in ExecutionStatus /\ q.to \in ExecutionStatus
           /\ q.op = "advance" => q.from \in FulfillmentStatus /\ q.to \in FulfillmentStatus
           /\ q.op = "reject" => q.typeBlocks \in BOOLEAN
           /\ q.op \in {"report", "reportChecked"} => q.kind \in ReportKind /\ q.next \in FulfillmentStatus
           /\ q.op = "reportChecked" => q.seen \in FulfillmentStatus
           /\ q.op \in {"propose", "accept", "acceptRead"} => q.incident \in Incidents
           /\ q.op \in {"accept", "acceptRead"} => q.side \in Sides
           /\ q.op = "acceptRead" => q.seen \subseteq Sides
           /\ q.op \in {"moveTask", "completeTask"} =>
                 q.task \in Tasks /\ q.from \in Tsk!TaskStatus /\ q.to \in Tsk!TaskStatus
           /\ q.op = "completeTask" => q.confirmed \subseteq Sides
<1>1. CASE q \in TransitionRequest
  <2>1. q.op \in {"transition", "transitionChecked"} /\ q.from \in ExecutionStatus /\ q.to \in ExecutionStatus
    BY <1>1 DEF TransitionRequest
  <2> QED BY <1>1, <2>1
<1>2. CASE q \in FulfillmentRequest
  BY <1>2 DEF FulfillmentRequest
<1>3. CASE q \in Tsk!TaskRequest
  BY <1>3 DEF Tsk!TaskRequest, Tsk!Sides, Sides
<1>4. CASE q = Idle
  BY <1>4 DEF Idle
<1> QED BY <1>1, <1>2, <1>3, <1>4 DEF Request

\* A request without fields but what it is for.
LEMMA PlainRequests ==
    /\ Idle \in Request /\ Idle.op = "idle"
    /\ \A op \in {"proof", "validate", "partial", "align", "examine", "recheck", "complete"} :
          [op |-> op] \in Request
BY DEF Request, FulfillmentRequest, Idle

\* What is held survives what no step takes back.
LEMMA StillHeld ==
    ASSUME TypeOK, Forward, NEW q \in Request, Held(q, Recorded, proof, Warranted, incidents, tasks)
    PROVE  Held(q, Recorded', proof', Warranted', incidents', tasks')
<1>1. q.op = "acceptRead" => q.seen \subseteq incidents'[q.incident].accepted
  <2>1. q.op = "acceptRead" => q.incident \in Incidents
    BY RequestFields
  <2> QED BY <2>1 DEF Held, Forward
<1>2. q.op \in {"moveTask", "completeTask"} => q.task \in Tasks
  BY RequestFields
<1>3. q.op = "moveTask" => tasks'[q.task].status # "ABSENT" /\ q.to # "COMPLETED"
  BY <1>2 DEF Held, Forward
<1>4. q.op = "completeTask" =>
          /\ tasks'[q.task].status # "ABSENT"
          /\ q.to = "COMPLETED" => tasks'[q.task].needs \subseteq q.confirmed
  BY <1>2 DEF Held, Forward
<1> QED BY <1>1, <1>3, <1>4 DEF Held, Forward

\* Any step: one request moves, and what it goes on with is held.
LEMMA OneRequest ==
    ASSUME FulfillmentInv, NEW r \in Requests, NEW q \in Request,
           req' = [req EXCEPT ![r] = q],
           execution' \in ExecutionStatus, record' \in RecordRow, proof' \in BOOLEAN,
           incidents' \in [Incidents -> IncidentRow], tasks' \in [Tasks -> Tsk!TaskRow],
           Forward, ProofBeforeValidation', ResolvedByBoth', CompletedTaskConfirmed',
           Held(q, Recorded', proof', Warranted', incidents', tasks')
    PROVE  FulfillmentInv'
<1>1. TypeOK /\ RequestsHeld
  BY DEF FulfillmentInv
<1>2. req \in [Requests -> Request]
  BY <1>1 DEF TypeOK, Request
<1>3. /\ req' \in [Requests -> Request]
      /\ \A s \in Requests : req'[s] = IF s = r THEN q ELSE req[s]
  BY <1>2
<1>4. TypeOK'
  BY <1>3 DEF TypeOK, Request
<1>5. ASSUME NEW s \in Requests
      PROVE  Held(req'[s], Recorded', proof', Warranted', incidents', tasks')
  <2>1. CASE s = r
    BY <1>3, <2>1
  <2>2. CASE s # r
    <3>1. req'[s] = req[s] /\ req[s] \in Request
      BY <1>2, <1>3, <2>2
    <3>2. Held(req[s], Recorded, proof, Warranted, incidents, tasks)
      BY <1>1 DEF RequestsHeld
    <3>3. Held(req[s], Recorded', proof', Warranted', incidents', tasks')
      BY <1>1, <3>1, <3>2, StillHeld
    <3> QED BY <3>1, <3>3
  <2> QED BY <2>1, <2>2
<1>6. RequestsHeld'
  BY <1>5 DEF RequestsHeld
<1> QED BY <1>4, <1>6 DEF FulfillmentInv

\* A step that writes no row of the fulfillment.
LEMMA QuietStep ==
    ASSUME FulfillmentInv, NEW r \in Requests, NEW q \in Request,
           req' = [req EXCEPT ![r] = q], execution' \in ExecutionStatus,
           UNCHANGED <<record, proof, incidents, tasks>>,
           Held(q, Recorded, proof, Warranted, incidents, tasks)
    PROVE  FulfillmentInv'
<1>1. TypeOK /\ ProofBeforeValidation /\ ResolvedByBoth /\ CompletedTaskConfirmed
  BY DEF FulfillmentInv
<1>2. ProofBeforeValidation' /\ ResolvedByBoth' /\ CompletedTaskConfirmed'
  BY <1>1 DEF ProofBeforeValidation, ResolvedByBoth, CompletedTaskConfirmed
<1>3. Warranted' = Warranted /\ Recorded' = Recorded
  BY DEF Warranted, Recorded
<1>4. Forward
  BY <1>3 DEF Forward
<1>5. Held(q, Recorded', proof', Warranted', incidents', tasks')
  BY <1>3
<1> QED BY <1>1, <1>2, <1>4, <1>5, OneRequest DEF TypeOK

\* A request that holds nothing a later step relies on.
LEMMA NothingHeld ==
    ASSUME NEW q, q.op \in {"idle", "proof", "align", "examine", "reject", "propose", "accept",
                            "transition", "transitionChecked"},
           NEW e, NEW p, NEW w, NEW inc, NEW tsk
    PROVE  Held(q, e, p, w, inc, tsk)
BY DEF Held

\* A step that writes the record or the proof.
LEMMA RecordStep ==
    ASSUME FulfillmentInv, NEW r \in Requests, NEW q \in Request, q.op \in {"idle", "align"},
           req' = [req EXCEPT ![r] = q], execution' \in ExecutionStatus,
           record' \in RecordRow, proof' \in BOOLEAN, Recorded => Recorded', proof => proof', Warranted => Warranted',
           ProofBeforeValidation', UNCHANGED <<incidents, tasks>>
    PROVE  FulfillmentInv'
<1>1. TypeOK /\ ResolvedByBoth /\ CompletedTaskConfirmed
  BY DEF FulfillmentInv
<1>2. ResolvedByBoth' /\ CompletedTaskConfirmed'
  BY <1>1 DEF ResolvedByBoth, CompletedTaskConfirmed
<1>3. Forward
  BY DEF Forward
<1>4. Held(q, Recorded', proof', Warranted', incidents', tasks')
  BY NothingHeld
<1> QED BY <1>1, <1>2, <1>3, <1>4, OneRequest DEF TypeOK

\* A step that writes incidents, and the record with them.
LEMMA IncidentStep ==
    ASSUME FulfillmentInv, NEW r \in Requests, NEW q \in Request, q.op \in {"idle", "align"},
           req' = [req EXCEPT ![r] = q], UNCHANGED <<execution, proof, tasks>>,
           record' \in RecordRow, Recorded => Recorded', Warranted => Warranted', ProofBeforeValidation',
           incidents' \in [Incidents -> IncidentRow],
           \A i \in Incidents : incidents[i].accepted \subseteq incidents'[i].accepted,
           ResolvedByBoth'
    PROVE  FulfillmentInv'
<1>1. TypeOK /\ CompletedTaskConfirmed
  BY DEF FulfillmentInv
<1>2. CompletedTaskConfirmed'
  BY <1>1 DEF CompletedTaskConfirmed
<1>3. Forward
  BY DEF Forward
<1>4. Held(q, Recorded', proof', Warranted', incidents', tasks')
  BY NothingHeld
<1> QED BY <1>1, <1>2, <1>3, <1>4, OneRequest DEF TypeOK

\* A new incident has no acceptance.
LEMMA IncidentAdded ==
    ASSUME TypeOK, ResolvedByBoth, NEW typeBlocks \in BOOLEAN, NEW flag \in BOOLEAN,
           AddIncident(typeBlocks, flag)
    PROVE  /\ incidents' \in [Incidents -> IncidentRow]
           /\ \A i \in Incidents : incidents[i].accepted \subseteq incidents'[i].accepted
           /\ ResolvedByBoth'
<1>1. PICK i \in Incidents :
         /\ incidents[i] = AbsentIncident
         /\ incidents' = [incidents EXCEPT ![i] = [status |-> "OPEN", typeBlocks |-> typeBlocks,
                                                   flag |-> flag, accepted |-> {}]]
  BY DEF AddIncident
<1>2. incidents \in [Incidents -> IncidentRow] /\ incidents[i].accepted = {}
  BY <1>1 DEF TypeOK, AbsentIncident
<1>3. [status |-> "OPEN", typeBlocks |-> typeBlocks, flag |-> flag, accepted |-> {}] \in IncidentRow
  BY DEF IncidentRow, ResolutionStatus
<1>4. incidents' \in [Incidents -> IncidentRow]
  BY <1>1, <1>2, <1>3
<1>5. /\ incidents'[i].status = "OPEN" /\ incidents'[i].accepted = {}
      /\ \A j \in Incidents \ {i} : incidents'[j] = incidents[j]
  BY <1>1, <1>2
<1>6. \A j \in Incidents : incidents[j].accepted \subseteq incidents'[j].accepted
  BY <1>2, <1>5
<1>7. ResolvedByBoth'
  BY <1>5 DEF ResolvedByBoth
<1> QED BY <1>4, <1>6, <1>7

-----------------------------------------------------------------------------
\* A request begins, or reads once more.
LEMMA ReadsKeep ==
    ASSUME FulfillmentInv, NEW r \in Requests, BeginStep(r) \/ GoOnStep(r)
    PROVE  FulfillmentInv'
<1>0. TypeOK /\ ProofBeforeValidation /\ execution \in ExecutionStatus
  BY DEF FulfillmentInv, TypeOK
<1>1. /\ req[r] \in Request
      /\ Held(req[r], Recorded, proof, Warranted, incidents, tasks)
  BY DEF FulfillmentInv, TypeOK, Request, RequestsHeld
<1>2. record.status \in FulfillmentStatus \cup {"ABSENT"}
  BY <1>0 DEF TypeOK, RecordRow
<1>3. ASSUME NEW q \in Request, Held(q, Recorded, proof, Warranted, incidents, tasks), Hold(r, q) \/ GoOn(r, q)
      PROVE  FulfillmentInv'
  <2>1. req' = [req EXCEPT ![r] = q] /\ UNCHANGED <<execution, record, proof, incidents, tasks>>
    BY <1>3 DEF Hold, GoOn
  <2> QED BY <1>0, <1>3, <2>1, QuietStep
<1>4. ASSUME NEW to \in FulfillmentStatus, BeginAdvance(r, to)
      PROVE  FulfillmentInv'
  <2> DEFINE q == [op |-> "advance", from |-> record.status, to |-> to]
  <2>1. MayAdvance(record.status, to) /\ Hold(r, q)
    BY <1>4 DEF BeginAdvance
  <2>2. record.status \in FulfillmentStatus
    BY <1>2, <2>1 DEF MayAdvance, PolicyEdges, BeforeDestination, ArrivalPhase
  <2>3. q \in Request
    BY <2>2 DEF Request, FulfillmentRequest
  <2>4. Held(q, Recorded, proof, Warranted, incidents, tasks)
    BY <2>1 DEF Held
  <2> HIDE DEF q
  <2> QED BY <1>3, <2>1, <2>3, <2>4
<1>5. ASSUME NEW op \in {"proof", "align", "examine"}, Hold(r, [op |-> op]) \/ GoOn(r, [op |-> op])
      PROVE  FulfillmentInv'
  <2>1. [op |-> op] \in Request /\ [op |-> op].op = op
    BY PlainRequests
  <2>2. Held([op |-> op], Recorded, proof, Warranted, incidents, tasks)
    BY <2>1, NothingHeld
  <2> QED BY <1>3, <1>5, <2>1, <2>2
<1>6. ASSUME NEW op \in {"validate", "partial"}, proof, Hold(r, [op |-> op])
      PROVE  FulfillmentInv'
  <2>1. [op |-> op] \in Request /\ [op |-> op].op = op
    BY PlainRequests
  <2>2. Held([op |-> op], Recorded, proof, Warranted, incidents, tasks)
    BY <1>6 DEF Held
  <2> QED BY <1>3, <1>6, <2>1, <2>2
<1>7. ASSUME NEW op \in {"recheck", "complete"}, Warranted, GoOn(r, [op |-> op])
      PROVE  FulfillmentInv'
  <2>1. [op |-> op] \in Request /\ [op |-> op].op = op
    BY PlainRequests
  <2>2. Held([op |-> op], Recorded, proof, Warranted, incidents, tasks)
    BY <1>7 DEF Held
  <2> QED BY <1>3, <1>7, <2>1, <2>2
<1>8. ASSUME NEW kind \in ReportKind, BeginReport(r, kind)
      PROVE  FulfillmentInv'
  <2> DEFINE next == StatusAfterReport(kind, record.status)
             q == [op |-> "report", kind |-> kind, next |-> next]
  <2>1. record.status \in FulfillmentStatus \ TerminalFulfillment /\ Hold(r, q)
    BY <1>2, <1>8 DEF BeginReport
  <2>2. \/ next = "RECEPTION_PARTIALLY_VALIDATED"
        \/ next = "INCIDENT_REPORTED"
        \/ next = record.status
    BY DEF StatusAfterReport, ReportKind
  <2>3. next \in FulfillmentStatus /\ next \notin TerminalFulfillment
    BY <2>1, <2>2 DEF FulfillmentStatus, TerminalFulfillment
  <2>4. Recorded /\ (next = "RECEPTION_VALIDATED" => Warranted)
    BY <1>0, <1>8, <2>2 DEF ProofBeforeValidation, BeginReport, Recorded, Warranted
  <2> HIDE DEF next
  <2>5. q \in Request
    BY <2>3 DEF Request, FulfillmentRequest
  <2>6. Held(q, Recorded, proof, Warranted, incidents, tasks)
    BY <2>3, <2>4 DEF Held
  <2> HIDE DEF q
  <2> QED BY <1>3, <2>1, <2>5, <2>6
<1>9. ASSUME NEW typeBlocks \in BOOLEAN, BeginReject(r, typeBlocks)
      PROVE  FulfillmentInv'
  <2> DEFINE q == [op |-> "reject", typeBlocks |-> typeBlocks]
  <2>1. q \in Request /\ q.op = "reject" /\ Hold(r, q)
    BY <1>9 DEF BeginReject, Request, FulfillmentRequest
  <2> HIDE DEF q
  <2>2. Held(q, Recorded, proof, Warranted, incidents, tasks)
    BY <2>1, NothingHeld
  <2> QED BY <1>3, <2>1, <2>2
<1>10. ASSUME NEW i \in Incidents, BeginPropose(r, i)
       PROVE  FulfillmentInv'
  <2> DEFINE q == [op |-> "propose", incident |-> i]
  <2>1. q \in Request /\ q.op = "propose" /\ Hold(r, q)
    BY <1>10 DEF BeginPropose, Request, FulfillmentRequest
  <2> HIDE DEF q
  <2>2. Held(q, Recorded, proof, Warranted, incidents, tasks)
    BY <2>1, NothingHeld
  <2> QED BY <1>3, <2>1, <2>2
<1>11. ASSUME NEW i \in Incidents, NEW side \in Sides, BeginAccept(r, i, side)
       PROVE  FulfillmentInv'
  <2> DEFINE q == [op |-> "accept", incident |-> i, side |-> side]
  <2>1. q \in Request /\ q.op = "accept" /\ Hold(r, q)
    BY <1>11 DEF BeginAccept, Request, FulfillmentRequest
  <2> HIDE DEF q
  <2>2. Held(q, Recorded, proof, Warranted, incidents, tasks)
    BY <2>1, NothingHeld
  <2> QED BY <1>3, <2>1, <2>2
<1>12. ASSUME CheckReport(r)
       PROVE  FulfillmentInv'
  <2> DEFINE q == [op |-> "reportChecked", kind |-> req[r].kind, next |-> req[r].next,
                   seen |-> record.status]
  <2>1. req[r].op = "report" /\ record.status \notin TerminalFulfillment /\ GoOn(r, q)
    BY <1>12 DEF CheckReport
  <2>2. req[r].kind \in ReportKind /\ req[r].next \in FulfillmentStatus
    BY <1>1, <2>1, RequestFields
  <2>3. record.status \in FulfillmentStatus
    BY <1>1, <1>2, <2>1 DEF Held, Recorded
  <2>4. q \in Request
    BY <2>2, <2>3 DEF Request, FulfillmentRequest
  <2>5. /\ Recorded
        /\ req[r].next \notin TerminalFulfillment
        /\ req[r].next = "RECEPTION_VALIDATED" => Warranted
    BY <1>1, <2>1 DEF Held
  <2>6. Held(q, Recorded, proof, Warranted, incidents, tasks)
    BY <2>1, <2>5 DEF Held
  <2> HIDE DEF q
  <2> QED BY <1>3, <2>1, <2>4, <2>6
<1>13. ASSUME ReadAccept(r)
       PROVE  FulfillmentInv'
  <2> DEFINE q == [op |-> "acceptRead", incident |-> req[r].incident, side |-> req[r].side,
                   seen |-> incidents[req[r].incident].accepted]
  <2>1. req[r].op = "accept" /\ GoOn(r, q)
    BY <1>13 DEF ReadAccept
  <2>2. req[r].incident \in Incidents /\ req[r].side \in Sides
    BY <1>1, <2>1, RequestFields
  <2>3. incidents[req[r].incident].accepted \subseteq Sides
    BY <1>0, <2>2 DEF TypeOK, IncidentRow
  <2>4. q \in Request
    BY <2>2, <2>3 DEF Request, FulfillmentRequest
  <2>5. Held(q, Recorded, proof, Warranted, incidents, tasks)
    BY DEF Held
  <2> HIDE DEF q
  <2> QED BY <1>3, <2>1, <2>4, <2>5
<1>14. ASSUME ReadAlignment(r)
       PROVE  FulfillmentInv'
  BY <1>5, <1>14 DEF ReadAlignment
<1>15. ASSUME ExamineRecord(r)
       PROVE  FulfillmentInv'
  BY <1>7, <1>15 DEF ExamineRecord, Warranted
<1>16. ASSUME RecheckCompletion(r)
       PROVE  FulfillmentInv'
  <2>1. Warranted
    BY <1>1, <1>16 DEF RecheckCompletion, Held
  <2> QED BY <1>7, <1>16, <2>1 DEF RecheckCompletion
<1>17. BeginProof(r) \/ BeginValidate(r) \/ BeginPartial(r) => FulfillmentInv'
  BY <1>5, <1>6 DEF BeginProof, BeginValidate, BeginPartial
<1> QED
  BY <1>4, <1>8, <1>9, <1>10, <1>11, <1>12, <1>13, <1>14, <1>15, <1>16, <1>17
  DEF BeginStep, GoOnStep

-----------------------------------------------------------------------------
\* What a commit finds: its request, and that it is held.
LEMMA Committing ==
    ASSUME FulfillmentInv, NEW r \in Requests
    PROVE  /\ req[r] \in Request
           /\ Held(req[r], Recorded, proof, Warranted, incidents, tasks)
           /\ record \in RecordRow
           /\ record = [record EXCEPT !.status = record.status]
           /\ execution \in ExecutionStatus /\ proof \in BOOLEAN
           /\ incidents \in [Incidents -> IncidentRow] /\ tasks \in [Tasks -> Tsk!TaskRow]
<1>1. TypeOK /\ RequestsHeld
  BY DEF FulfillmentInv
<1>2. req[r] \in Request /\ record \in RecordRow
  BY <1>1 DEF TypeOK, Request
<1>3. record = [record EXCEPT !.status = record.status]
  BY <1>2 DEF RecordRow
<1> QED BY <1>1, <1>2, <1>3 DEF TypeOK, RequestsHeld

\* The commits that write the record or the proof.
LEMMA RecordCommits ==
    ASSUME FulfillmentInv, NEW r \in Requests,
           CommitAdvance(r) \/ CommitProof(r) \/ CommitValidate(r) \/ CommitComplete(r)
    PROVE  FulfillmentInv'
<1>1. /\ record \in RecordRow /\ proof \in BOOLEAN /\ execution \in ExecutionStatus
      /\ req[r] \in Request /\ Held(req[r], Recorded, proof, Warranted, incidents, tasks)
  BY Committing
<1>2. ProofBeforeValidation
  BY DEF FulfillmentInv
<1>3. /\ Idle \in Request /\ Idle.op = "idle"
      /\ [op |-> "align"] \in Request /\ [op |-> "align"].op = "align"
  BY PlainRequests
<1>4. CASE CommitAdvance(r)
  <2>1. /\ record.status = req[r].from /\ record.status \notin TerminalFulfillment
        /\ req[r].to \in FulfillmentStatus \ Sensitive
    BY <1>1, <1>4, RequestFields DEF CommitAdvance, Held, MayAdvance
  <2>2. /\ record' \in RecordRow
        /\ record'.status = req[r].to /\ record'.proofValidated = record.proofValidated
    BY <1>1, <1>4, <2>1 DEF CommitAdvance, RecordRow
  <2>3. Recorded'
    BY <2>1, <2>2 DEF Recorded, FulfillmentStatus
  <2>4. Warranted => Warranted'
    BY <2>1, <2>2 DEF Warranted, TerminalFulfillment
  <2>5. UNCHANGED <<execution, proof, incidents, tasks>> /\ req' = [req EXCEPT ![r] = Idle]
    BY <1>4 DEF CommitAdvance
  <2>6. ProofBeforeValidation'
    BY <1>2, <2>1, <2>2, <2>5 DEF ProofBeforeValidation, Sensitive, Completable
  <2> QED BY <1>1, <1>3, <2>2, <2>3, <2>4, <2>5, <2>6, RecordStep
<1>5. CASE CommitProof(r)
  <2>1. /\ proof' = TRUE /\ req' = [req EXCEPT ![r] = Idle]
        /\ UNCHANGED <<execution, record, incidents, tasks>>
    BY <1>5 DEF CommitProof
  <2>2. ProofBeforeValidation'
    BY <1>2, <2>1 DEF ProofBeforeValidation
  <2>3. (Recorded => Recorded') /\ (Warranted => Warranted')
    BY <2>1 DEF Recorded, Warranted
  <2> QED BY <1>1, <1>3, <2>1, <2>2, <2>3, RecordStep
<1>6. CASE CommitValidate(r)
  <2>1. /\ record' \in RecordRow
        /\ record'.status = "RECEPTION_VALIDATED" /\ record'.proofValidated = TRUE
    BY <1>1, <1>6 DEF CommitValidate, RecordRow, FulfillmentStatus
  <2>2. /\ UNCHANGED <<execution, proof, incidents, tasks>> /\ proof
        /\ req' = [req EXCEPT ![r] = [op |-> "align"]]
    BY <1>1, <1>6 DEF CommitValidate, Held
  <2>3. ProofBeforeValidation' /\ Recorded' /\ Warranted'
    BY <2>1, <2>2 DEF ProofBeforeValidation, Recorded, Warranted
  <2> QED BY <1>1, <1>3, <2>1, <2>2, <2>3, RecordStep
<1>7. CASE CommitComplete(r)
  <2>1. record.status \in Completable /\ Warranted
    BY <1>1, <1>7 DEF CommitComplete, Held
  <2>2. record.proofValidated
    BY <2>1 DEF Warranted, Completable
  <2>3. /\ record' \in RecordRow
        /\ record'.status = "FULFILLMENT_COMPLETED" /\ record'.proofValidated = record.proofValidated
    BY <1>1, <1>7 DEF CommitComplete, RecordRow, FulfillmentStatus
  <2>4. UNCHANGED <<execution, proof, incidents, tasks>> /\ req' = [req EXCEPT ![r] = Idle]
    BY <1>7 DEF CommitComplete
  <2>5. ProofBeforeValidation' /\ Recorded' /\ Warranted'
    BY <1>2, <2>2, <2>3, <2>4 DEF ProofBeforeValidation, Recorded, Warranted
  <2> QED BY <1>1, <1>3, <2>3, <2>4, <2>5, RecordStep
<1> QED BY <1>4, <1>5, <1>6, <1>7

\* The commits that insert an incident.
LEMMA ReportCommits ==
    ASSUME FulfillmentInv, NEW r \in Requests, CommitReport(r) \/ CommitReject(r) \/ CommitPartial(r)
    PROVE  FulfillmentInv'
<1>1. /\ record \in RecordRow /\ TypeOK /\ ResolvedByBoth /\ ProofBeforeValidation
      /\ req[r] \in Request /\ Held(req[r], Recorded, proof, Warranted, incidents, tasks)
  BY Committing DEF FulfillmentInv
<1>2. Idle \in Request /\ Idle.op = "idle"
  BY PlainRequests
<1>3. req' = [req EXCEPT ![r] = Idle] /\ UNCHANGED <<execution, proof, tasks>>
  BY DEF CommitReport, CommitReject, CommitPartial
<1>4. \E typeBlocks, flag \in BOOLEAN : AddIncident(typeBlocks, flag)
  <2>1. CASE CommitReport(r)
    BY <2>1 DEF CommitReport
  <2>2. CASE CommitReject(r)
    <3>1. req[r].typeBlocks \in BOOLEAN
      BY <1>1, <2>2, RequestFields DEF CommitReject
    <3> QED BY <2>2, <3>1 DEF CommitReject
  <2>3. CASE CommitPartial(r)
    BY <2>3 DEF CommitPartial
  <2> QED BY <2>1, <2>2, <2>3
<1>5. /\ incidents' \in [Incidents -> IncidentRow]
      /\ \A i \in Incidents : incidents[i].accepted \subseteq incidents'[i].accepted
      /\ ResolvedByBoth'
  BY <1>1, <1>4, IncidentAdded
<1>6. ASSUME record' \in RecordRow, Recorded => Recorded', Warranted => Warranted', ProofBeforeValidation'
      PROVE  FulfillmentInv'
  BY <1>2, <1>3, <1>5, <1>6, IncidentStep
<1>7. CASE CommitReport(r)
  <2>1. /\ req[r].next \in FulfillmentStatus
        /\ req[r].next = "RECEPTION_VALIDATED" => Warranted
    BY <1>1, <1>7, RequestFields DEF CommitReport, Held
  <2>2. CASE UNCHANGED record
    BY <1>1, <1>3, <1>6, <2>2 DEF ProofBeforeValidation, Recorded, Warranted
  <2>3. CASE /\ record.status = req[r].seen
             /\ record' = [record EXCEPT !.status = req[r].next]
    <3>1. record.status \notin TerminalFulfillment
      BY <1>1, <1>7, <2>3 DEF CommitReport, Held
    <3>2. /\ record' \in RecordRow
          /\ record'.status = req[r].next /\ record'.proofValidated = record.proofValidated
      BY <1>1, <2>1, <2>3 DEF RecordRow
    <3>3. Recorded' /\ (Warranted => Warranted')
      BY <2>1, <3>1, <3>2 DEF Recorded, Warranted, FulfillmentStatus, TerminalFulfillment
    <3>4. ProofBeforeValidation'
      BY <1>1, <1>3, <2>1, <3>1, <3>2 DEF ProofBeforeValidation, Warranted, TerminalFulfillment
    <3> QED BY <1>6, <3>2, <3>3, <3>4
  <2> QED BY <1>7, <2>2, <2>3 DEF CommitReport
<1>8. CASE CommitReject(r)
  <2>1. /\ record' \in RecordRow
        /\ record'.status = "RECEPTION_REJECTED" /\ record'.proofValidated = FALSE
    BY <1>1, <1>8 DEF CommitReject, RecordRow, FulfillmentStatus
  <2> QED BY <1>6, <2>1 DEF ProofBeforeValidation, Recorded, Warranted
<1>9. CASE CommitPartial(r)
  <2>1. /\ record' \in RecordRow
        /\ record'.status = "RECEPTION_PARTIALLY_VALIDATED" /\ record'.proofValidated = TRUE
    BY <1>1, <1>9 DEF CommitPartial, RecordRow, FulfillmentStatus
  <2>2. proof
    BY <1>1, <1>9 DEF CommitPartial, Held
  <2> QED BY <1>3, <1>6, <2>1, <2>2 DEF ProofBeforeValidation, Recorded, Warranted
<1> QED BY <1>7, <1>8, <1>9

\* The commits that update an incident.
LEMMA ResolutionCommits ==
    ASSUME FulfillmentInv, NEW r \in Requests, CommitPropose(r) \/ CommitAccept(r)
    PROVE  FulfillmentInv'
<1>1. /\ incidents \in [Incidents -> IncidentRow] /\ record \in RecordRow
      /\ ResolvedByBoth /\ ProofBeforeValidation
      /\ req[r] \in Request /\ Held(req[r], Recorded, proof, Warranted, incidents, tasks)
  BY Committing DEF FulfillmentInv
<1>2. UNCHANGED <<execution, record, proof, tasks>>
  BY DEF CommitPropose, CommitAccept
<1>3. ProofBeforeValidation' /\ (Recorded => Recorded') /\ (Warranted => Warranted')
  BY <1>1, <1>2 DEF ProofBeforeValidation, Recorded, Warranted
<1>4. /\ Idle \in Request /\ Idle.op = "idle"
      /\ [op |-> "align"] \in Request /\ [op |-> "align"].op = "align"
  BY PlainRequests
<1>5. \A i \in Incidents : /\ incidents[i].accepted \subseteq Sides
                           /\ incidents[i].flag \in BOOLEAN
  BY <1>1 DEF IncidentRow
<1> DEFINE i == req[r].incident
<1>6. i \in Incidents
  BY <1>1, RequestFields DEF CommitPropose, CommitAccept
<1>7. CASE CommitPropose(r)
  <2>1. incidents' = [incidents EXCEPT ![i].status = "RESOLUTION_PROPOSED"]
    BY <1>7 DEF CommitPropose
  <2>2. /\ incidents' \in [Incidents -> IncidentRow]
        /\ incidents'[i].status = "RESOLUTION_PROPOSED" /\ incidents'[i].accepted = incidents[i].accepted
        /\ \A j \in Incidents \ {i} : incidents'[j] = incidents[j]
    BY <1>1, <1>6, <2>1 DEF IncidentRow, ResolutionStatus
  <2>3. ResolvedByBoth'
    BY <1>1, <2>2 DEF ResolvedByBoth
  <2>4. \A j \in Incidents : incidents[j].accepted \subseteq incidents'[j].accepted
    BY <2>2
  <2>5. req' = [req EXCEPT ![r] = Idle]
    BY <1>7 DEF CommitPropose
  <2> QED BY <1>1, <1>2, <1>3, <1>4, <2>2, <2>3, <2>4, <2>5, IncidentStep
<1>8. CASE CommitAccept(r)
  <2> DEFINE both == BothAccepted(req[r].seen, req[r].side)
  <2>1. /\ incidents' = [incidents EXCEPT
              ![i].accepted = @ \cup {req[r].side},
              ![i].flag = @ /\ ~both,
              ![i].status = IF both THEN "RESOLVED"
                            ELSE IF req[r].side = "buyer" THEN "ACCEPTED_BY_BUYER"
                            ELSE "ACCEPTED_BY_SELLER"]
        /\ req' = [req EXCEPT ![r] = IF both THEN [op |-> "align"] ELSE Idle]
    BY <1>8 DEF CommitAccept
  <2>2. req[r].side \in Sides /\ req[r].seen \subseteq incidents[i].accepted
    BY <1>1, <1>8, RequestFields DEF CommitAccept, Held
  <2>3. both => incidents[i].accepted \cup {req[r].side} = Sides
    BY <1>5, <1>6, <2>2 DEF BothAccepted
  <2> HIDE DEF both
  <2>4. /\ incidents'[i].accepted = incidents[i].accepted \cup {req[r].side}
        /\ incidents'[i].status = "RESOLVED" => both
        /\ \A j \in Incidents \ {i} : incidents'[j] = incidents[j]
    BY <1>1, <1>6, <2>1 DEF IncidentRow
  <2>5. incidents' \in [Incidents -> IncidentRow]
    <3> DEFINE x == [incidents[i] EXCEPT
              !.accepted = @ \cup {req[r].side},
              !.flag = @ /\ ~both,
              !.status = IF both THEN "RESOLVED"
                         ELSE IF req[r].side = "buyer" THEN "ACCEPTED_BY_BUYER"
                         ELSE "ACCEPTED_BY_SELLER"]
    <3>1. x \in IncidentRow
      <4>1. (incidents[i].flag /\ ~both) \in BOOLEAN
        OBVIOUS
      <4>2. incidents[i].accepted \cup {req[r].side} \in SUBSET Sides
        BY <1>5, <1>6, <2>2
      <4>3. incidents[i] \in IncidentRow
        BY <1>1, <1>6
      <4> QED BY <4>1, <4>2, <4>3 DEF IncidentRow, ResolutionStatus
    <3>2. incidents' = [incidents EXCEPT ![i] = x]
      BY <1>1, <1>6, <2>1 DEF IncidentRow
    <3> HIDE DEF x
    <3> QED BY <1>1, <1>6, <3>1, <3>2
  <2>6. ResolvedByBoth'
    BY <1>1, <2>3, <2>4 DEF ResolvedByBoth
  <2>7. \A j \in Incidents : incidents[j].accepted \subseteq incidents'[j].accepted
    BY <2>4
  <2>8. PICK q \in {Idle, [op |-> "align"]} : req' = [req EXCEPT ![r] = q]
    BY <2>1
  <2>9. q \in Request /\ q.op \in {"idle", "align"}
    BY <1>4, <2>8
  <2> QED BY <1>1, <1>2, <1>3, <2>5, <2>6, <2>7, <2>8, <2>9, IncidentStep
<1> QED BY <1>7, <1>8

-----------------------------------------------------------------------------
\* The order's execution moves, or a request ends without a write.
LEMMA OrderKeeps ==
    ASSUME FulfillmentInv, NEW r \in Requests, OrderStep(r)
    PROVE  FulfillmentInv'
<1>1. /\ req[r] \in Request /\ record \in RecordRow /\ ProofBeforeValidation
      /\ execution \in ExecutionStatus /\ proof \in BOOLEAN
  BY Committing DEF FulfillmentInv
<1>2. UNCHANGED <<proof, incidents, tasks>>
  BY DEF OrderStep
<1>3. Idle \in Request /\ Idle.op = "idle"
  BY PlainRequests
<1>4. ASSUME NEW to \in ExecutionTargets, BeginTransition(r, to)
      PROVE  FulfillmentInv'
  <2> DEFINE q == [op |-> "transition", from |-> execution, to |-> to]
  <2>1. q \in TransitionRequest
    BY <1>1, TargetsAssumption DEF TransitionRequest
  <2>2. /\ q \in Request /\ q.op = "transition"
        /\ req' = [req EXCEPT ![r] = q] /\ UNCHANGED <<execution, record>>
    BY <1>4, <2>1 DEF BeginTransition, Request
  <2> HIDE DEF q
  <2>3. Held(q, Recorded, proof, Warranted, incidents, tasks)
    BY <2>2, NothingHeld
  <2> QED BY <1>1, <1>2, <2>2, <2>3, QuietStep
<1>5. CASE CheckTransition(r)
  <2> DEFINE q == [req[r] EXCEPT !.op = "transitionChecked"]
  <2>1. req[r] \in TransitionRequest
    BY <1>1, <1>5, RequestFields DEF CheckTransition
  <2>2. q \in TransitionRequest /\ q.op = "transitionChecked"
    BY <2>1 DEF TransitionRequest
  <2>3. req' = [req EXCEPT ![r] = q] /\ UNCHANGED <<execution, record>>
    BY <1>5 DEF CheckTransition
  <2>4. q \in Request
    BY <2>2 DEF Request
  <2> HIDE DEF q
  <2>5. Held(q, Recorded, proof, Warranted, incidents, tasks)
    BY <2>2, NothingHeld
  <2> QED BY <1>1, <1>2, <2>3, <2>4, <2>5, QuietStep
<1>6. CASE CommitTransition(r)
  <2>1. /\ execution' = req[r].to /\ req[r].to \in ExecutionStatus
        /\ req' = [req EXCEPT ![r] = Idle]
    BY <1>1, <1>6, RequestFields DEF CommitTransition
  <2>2. record' = record \/ (record = NoRecord /\ record' = NewRecord)
    BY <1>6 DEF CommitTransition, EnsuredRecord
  <2>3. /\ NewRecord \in RecordRow
        /\ NewRecord.status = "PREPARING_FULFILLMENT" /\ NewRecord.proofValidated = FALSE
        /\ NoRecord.status = "ABSENT" /\ NoRecord.proofValidated = FALSE
    BY DEF NewRecord, NoRecord, RecordRow, FulfillmentStatus
  <2>4. /\ record' \in RecordRow /\ (Recorded => Recorded') /\ (Warranted => Warranted')
        /\ ProofBeforeValidation'
    BY <1>1, <1>2, <2>2, <2>3 DEF Recorded, Warranted, ProofBeforeValidation
  <2> QED BY <1>1, <1>2, <1>3, <2>1, <2>4, RecordStep
<1>7. CASE Fail(r)
  <2>1. req' = [req EXCEPT ![r] = Idle] /\ UNCHANGED <<execution, record>>
    BY <1>7 DEF Fail
  <2>2. Held(Idle, Recorded, proof, Warranted, incidents, tasks)
    BY <1>3, NothingHeld
  <2> QED BY <1>1, <1>2, <1>3, <2>1, <2>2, QuietStep
<1> QED BY <1>4, <1>5, <1>6, <1>7 DEF OrderStep, ExecStep

\* A step of a coordination task.
LEMMA TaskKeeps ==
    ASSUME FulfillmentInv, NEW r \in Requests, TaskStep(r)
    PROVE  FulfillmentInv'
<1>1. /\ req[r] \in Request /\ Held(req[r], Recorded, proof, Warranted, incidents, tasks)
      /\ tasks \in [Tasks -> Tsk!TaskRow] /\ execution \in ExecutionStatus /\ TypeOK
      /\ ProofBeforeValidation /\ ResolvedByBoth /\ CompletedTaskConfirmed
  BY Committing DEF FulfillmentInv
<1>2. UNCHANGED <<execution, record, proof, incidents>>
  BY DEF TaskStep
<1>3. Idle \in Request /\ Idle.op = "idle" /\ Tsk!Idle = Idle
  BY PlainRequests DEF Tsk!Idle, Idle
<1>4. /\ Recorded' = Recorded /\ Warranted' = Warranted
      /\ ProofBeforeValidation' /\ ResolvedByBoth'
  BY <1>1, <1>2 DEF Recorded, Warranted, ProofBeforeValidation, ResolvedByBoth
<1>5. ASSUME NEW q \in Request, q.op = "idle", req' = [req EXCEPT ![r] = q],
             tasks' \in [Tasks -> Tsk!TaskRow], CompletedTaskConfirmed',
             \A t \in Tasks : tasks[t].status # "ABSENT" =>
                tasks'[t].status # "ABSENT" /\ tasks'[t].needs = tasks[t].needs
      PROVE  FulfillmentInv'
  <2>1. Forward
    BY <1>2, <1>4, <1>5 DEF Forward
  <2>2. Held(q, Recorded', proof', Warranted', incidents', tasks')
    BY <1>5, NothingHeld
  <2> QED BY <1>1, <1>2, <1>4, <1>5, <2>1, <2>2, OneRequest DEF TypeOK
<1>6. ASSUME NEW t \in Tasks, NEW blocking \in TaskBlocking, NEW needs \in TaskNeeds,
             Tsk!CreateTask(r, t, blocking, needs)
      PROVE  FulfillmentInv'
  <2> DEFINE row == [status |-> "OPEN", blocking |-> blocking, needs |-> needs, confirmed |-> {}]
  <2>1. /\ req[r] = Idle /\ tasks[t].status = "ABSENT"
        /\ tasks' = [tasks EXCEPT ![t] = row] /\ UNCHANGED req
    BY <1>3, <1>6 DEF Tsk!CreateTask, Tsk!AbsentTask
  <2>2. row \in Tsk!TaskRow /\ row.status = "OPEN"
    BY NeedsAssumption DEF Tsk!TaskRow, Tsk!TaskStatus, Tsk!OpenTaskStatus, Sides, Tsk!Sides
  <2> HIDE DEF row
  <2>3. /\ tasks' \in [Tasks -> Tsk!TaskRow]
        /\ tasks'[t].status = "OPEN" /\ \A u \in Tasks \ {t} : tasks'[u] = tasks[u]
    BY <1>1, <2>1, <2>2
  <2>4. CompletedTaskConfirmed'
    BY <1>1, <2>3 DEF CompletedTaskConfirmed
  <2>5. req' = [req EXCEPT ![r] = Idle]
    BY <1>1, <2>1 DEF TypeOK
  <2> QED BY <1>3, <1>5, <2>1, <2>3, <2>4, <2>5
<1>7. ASSUME NEW q \in Request, req' = [req EXCEPT ![r] = q], UNCHANGED tasks,
             Held(q, Recorded, proof, Warranted, incidents, tasks)
      PROVE  FulfillmentInv'
  BY <1>1, <1>2, <1>7, QuietStep
<1>8. ASSUME NEW t \in Tasks, NEW to \in Tsk!TaskStatus \ {"COMPLETED", "WAITING_EXTERNAL_CONFIRMATION"},
             Tsk!BeginMoveTask(r, t, to)
      PROVE  FulfillmentInv'
  <2> DEFINE q == [op |-> "moveTask", task |-> t, from |-> tasks[t].status, to |-> to]
  <2>1. /\ Tsk!MayMoveTask(tasks[t].status, to)
        /\ req' = [req EXCEPT ![r] = q] /\ UNCHANGED tasks
    BY <1>8 DEF Tsk!BeginMoveTask
  <2>2. tasks[t].status \in Tsk!TaskStatus
    BY <2>1 DEF Tsk!MayMoveTask, Tsk!TaskStatus, Tsk!OpenTaskStatus
  <2>3. q \in Request
    BY <2>2 DEF Request, Tsk!TaskRequest
  <2>4. Held(q, Recorded, proof, Warranted, incidents, tasks)
    BY <2>2 DEF Held, Tsk!TaskStatus, Tsk!OpenTaskStatus
  <2> HIDE DEF q
  <2> QED BY <1>7, <2>1, <2>3, <2>4
<1>9. ASSUME NEW t \in Tasks, NEW side \in Sides, Tsk!BeginCompleteTask(r, t, side)
      PROVE  FulfillmentInv'
  <2> DEFINE confirmed == tasks[t].confirmed \cup ({side} \cap tasks[t].needs)
             to == IF tasks[t].needs \subseteq confirmed THEN "COMPLETED"
                   ELSE "WAITING_EXTERNAL_CONFIRMATION"
             q == [op |-> "completeTask", task |-> t, confirmed |-> confirmed,
                   from |-> tasks[t].status, to |-> to]
  <2>1. /\ tasks[t].status \in Tsk!OpenTaskStatus
        /\ req' = [req EXCEPT ![r] = q] /\ UNCHANGED tasks
    BY <1>9 DEF Tsk!BeginCompleteTask
  <2>2. confirmed \subseteq Sides /\ (to = "COMPLETED" => tasks[t].needs \subseteq confirmed)
    BY <1>1 DEF Tsk!TaskRow, Tsk!Sides, Sides
  <2>3. to \in Tsk!TaskStatus /\ tasks[t].status \in Tsk!TaskStatus /\ tasks[t].status # "ABSENT"
    BY <2>1 DEF Tsk!TaskStatus, Tsk!OpenTaskStatus
  <2> HIDE DEF confirmed, to
  <2>4. q \in Request
    BY <2>2, <2>3 DEF Request, Tsk!TaskRequest, Tsk!Sides, Sides
  <2>5. Held(q, Recorded, proof, Warranted, incidents, tasks)
    BY <2>2, <2>3 DEF Held
  <2> HIDE DEF q
  <2> QED BY <1>7, <2>1, <2>4, <2>5
<1>10. CASE Tsk!CommitMoveTask(r)
  <2>1. /\ req[r].task \in Tasks /\ req[r].to \in Tsk!TaskStatus /\ req[r].to # "COMPLETED"
        /\ tasks' = [tasks EXCEPT ![req[r].task].status = req[r].to]
        /\ req' = [req EXCEPT ![r] = Idle]
    BY <1>1, <1>3, <1>10, RequestFields DEF Tsk!CommitMoveTask, Held
  <2>2. /\ tasks' \in [Tasks -> Tsk!TaskRow]
        /\ tasks'[req[r].task].status = req[r].to
        /\ tasks'[req[r].task].needs = tasks[req[r].task].needs
        /\ \A u \in Tasks \ {req[r].task} : tasks'[u] = tasks[u]
    BY <1>1, <2>1 DEF Tsk!TaskRow
  <2>3. req[r].to # "ABSENT"
    BY <2>1 DEF Tsk!TaskStatus, Tsk!OpenTaskStatus
  <2>4. CompletedTaskConfirmed'
    BY <1>1, <2>1, <2>2 DEF CompletedTaskConfirmed
  <2> QED BY <1>3, <1>5, <2>1, <2>2, <2>3, <2>4
<1>11. CASE Tsk!CommitCompleteTask(r)
  <2>1. /\ req[r].task \in Tasks /\ req[r].to \in Tsk!TaskStatus /\ req[r].confirmed \subseteq Sides
        /\ req[r].to = "COMPLETED" => tasks[req[r].task].needs \subseteq req[r].confirmed
        /\ tasks' = [tasks EXCEPT ![req[r].task].status = req[r].to,
                                  ![req[r].task].confirmed = req[r].confirmed]
        /\ req' = [req EXCEPT ![r] = Idle]
    BY <1>1, <1>3, <1>11, RequestFields DEF Tsk!CommitCompleteTask, Held
  <2>2. /\ tasks' \in [Tasks -> Tsk!TaskRow]
        /\ tasks'[req[r].task].status = req[r].to
        /\ tasks'[req[r].task].confirmed = req[r].confirmed
        /\ tasks'[req[r].task].needs = tasks[req[r].task].needs
        /\ \A u \in Tasks \ {req[r].task} : tasks'[u] = tasks[u]
    BY <1>1, <2>1 DEF Tsk!TaskRow, Tsk!Sides, Sides
  <2>3. req[r].to # "ABSENT"
    BY <2>1 DEF Tsk!TaskStatus, Tsk!OpenTaskStatus
  <2>4. CompletedTaskConfirmed'
    BY <1>1, <2>1, <2>2 DEF CompletedTaskConfirmed
  <2> QED BY <1>3, <1>5, <2>1, <2>2, <2>3, <2>4
<1>12. Tsk!Sides = Sides
  BY DEF Tsk!Sides, Sides
<1> QED BY <1>6, <1>8, <1>9, <1>10, <1>11, <1>12 DEF TaskStep, Tsk!TaskStep, Tsk!TaskCommit

LEMMA FulfillmentInductive ==
    /\ Init => FulfillmentInv
    /\ FulfillmentInv /\ [Next]_vars => FulfillmentInv'
<1>1. ASSUME Init PROVE FulfillmentInv
  <2>1. /\ Idle \in Request /\ Idle.op = "idle"
        /\ \A r \in Requests : req[r] = Idle
    BY <1>1, PlainRequests DEF Init, ExecInit
  <2>2. /\ NoRecord \in RecordRow /\ NoRecord.status = "ABSENT" /\ NoRecord.proofValidated = FALSE
        /\ AbsentIncident \in IncidentRow /\ AbsentIncident.status = "ABSENT"
        /\ Tsk!AbsentTask \in Tsk!TaskRow /\ Tsk!AbsentTask.status = "ABSENT"
    BY DEF NoRecord, RecordRow, AbsentIncident, IncidentRow, Tsk!AbsentTask, Tsk!TaskRow
  <2>3. TypeOK
    <3>1. req \in [Requests -> Request]
      BY <1>1, <2>1 DEF Init, ExecInit
    <3>2. incidents \in [Incidents -> IncidentRow] /\ tasks \in [Tasks -> Tsk!TaskRow]
      BY <1>1, <2>2 DEF Init
    <3>3. execution \in ExecutionStatus /\ record \in RecordRow /\ proof \in BOOLEAN
      BY <1>1, <2>2 DEF Init, ExecInit, ExecutionStatus
    <3> QED BY <3>1, <3>2, <3>3 DEF TypeOK, Request
  <2>4. ProofBeforeValidation /\ ResolvedByBoth /\ CompletedTaskConfirmed
    <3>1. record.status = "ABSENT" /\ record.proofValidated = FALSE
      BY <1>1, <2>2 DEF Init, ExecInit
    <3>2. /\ \A i \in Incidents : incidents[i].status = "ABSENT"
          /\ \A t \in Tasks : tasks[t].status = "ABSENT"
      BY <1>1, <2>2 DEF Init
    <3> QED BY <3>1, <3>2 DEF ProofBeforeValidation, ResolvedByBoth, CompletedTaskConfirmed
  <2>5. Held(Idle, Recorded, proof, Warranted, incidents, tasks)
    BY <2>1, NothingHeld
  <2>6. RequestsHeld
    BY <2>1, <2>5 DEF RequestsHeld
  <2> QED BY <2>3, <2>4, <2>6 DEF FulfillmentInv
<1>2. ASSUME FulfillmentInv, UNCHANGED vars PROVE FulfillmentInv'
  <2>1. UNCHANGED <<execution, record, req, proof, incidents, tasks>>
    BY <1>2 DEF vars
  <2>2. TypeOK' /\ ProofBeforeValidation' /\ ResolvedByBoth' /\ CompletedTaskConfirmed'
    BY <1>2, <2>1
    DEF FulfillmentInv, TypeOK, ProofBeforeValidation, ResolvedByBoth, CompletedTaskConfirmed
  <2>3. RequestsHeld'
    BY <1>2, <2>1 DEF FulfillmentInv, RequestsHeld, Recorded, Warranted
  <2> QED BY <2>2, <2>3 DEF FulfillmentInv
<1>3. ASSUME FulfillmentInv, Next PROVE FulfillmentInv'
  <2>1. PICK r \in Requests :
           BeginStep(r) \/ GoOnStep(r) \/ CommitStep(r) \/ OrderStep(r) \/ TaskStep(r)
    BY <1>3 DEF Next
  <2>2. CASE CommitStep(r)
    BY <1>3, <2>2, RecordCommits, ReportCommits, ResolutionCommits DEF CommitStep
  <2> QED BY <1>3, <2>1, <2>2, ReadsKeep, OrderKeeps, TaskKeeps
<1> QED BY <1>1, <1>2, <1>3

LEMMA FulfillmentAlways == Spec => []FulfillmentInv
BY FulfillmentInductive, PTL DEF Spec

\* Every variable keeps its type, whatever the handlers overlap.
THEOREM FulfillmentTypeCorrect == Spec => []TypeOK
<1>1. FulfillmentInv => TypeOK
  BY DEF FulfillmentInv
<1> QED BY <1>1, FulfillmentAlways, PTL

\* No reception is validated without a proof on file, even when a late incident report puts an
\* old status back: for any requests.
THEOREM ProofAlwaysBefore == Spec => []ProofBeforeValidation
<1>1. FulfillmentInv => ProofBeforeValidation
  BY DEF FulfillmentInv
<1> QED BY <1>1, FulfillmentAlways, PTL

\* An incident is resolved only when both sides have accepted, though each decides on its own
\* read: for any requests and incidents.
THEOREM BothResolve == Spec => []ResolvedByBoth
<1>1. FulfillmentInv => ResolvedByBoth
  BY DEF FulfillmentInv
<1> QED BY <1>1, FulfillmentAlways, PTL

\* A completed task carries every confirmation it asks for, however its completions, moves and
\* reopenings overlap: for any requests and tasks.
THEOREM TasksConfirmed == Spec => []CompletedTaskConfirmed
<1>1. FulfillmentInv => CompletedTaskConfirmed
  BY DEF FulfillmentInv
<1> QED BY <1>1, FulfillmentAlways, PTL

-----------------------------------------------------------------------------
\* Where the reception stands, by the status of the record.
LEMMA Outcomes ==
    /\ record.status \notin TerminalFulfillment => Outcome = "open"
    /\ record.status = "FULFILLMENT_COMPLETED" => Outcome = "completed"
    /\ record.status = "FULFILLMENT_BLOCKED" => Outcome = "blocked"
    /\ record.status = "RECEPTION_REJECTED" => Outcome = "rejected"
    /\ record'.status \notin TerminalFulfillment => Outcome' = "open"
    /\ record'.status = "FULFILLMENT_COMPLETED" => Outcome' = "completed"
    /\ record'.status = "FULFILLMENT_BLOCKED" => Outcome' = "blocked"
    /\ record'.status = "RECEPTION_REJECTED" => Outcome' = "rejected"
    /\ UNCHANGED record => UNCHANGED <<record.proofValidated, Outcome>>
BY DEF Outcome, TerminalFulfillment

\* A step that writes the record is a step of ReceptionOutcome, or leaves it as it is.
LEMMA ReceptionStep ==
    ASSUME FulfillmentInv, NEW r \in Requests, CommitStep(r) \/ OrderStep(r)
    PROVE  Reception!Next \/ UNCHANGED <<record.proofValidated, Outcome>>
<1>1. /\ record \in RecordRow /\ req[r] \in Request
      /\ Held(req[r], Recorded, proof, Warranted, incidents, tasks)
  BY Committing
<1>2. CASE CommitAdvance(r)
  <2>1. /\ record.status \notin TerminalFulfillment
        /\ req[r].to \notin TerminalFulfillment \/ req[r].to = "FULFILLMENT_BLOCKED"
    BY <1>1, <1>2 DEF CommitAdvance, Held, MayAdvance, Sensitive, TerminalFulfillment
  <2>2. record'.status = req[r].to /\ record'.proofValidated = record.proofValidated
    BY <1>1, <1>2 DEF CommitAdvance, RecordRow
  <2>3. Outcome = "open" /\ Outcome' \in {"open", "blocked"}
    BY <2>1, <2>2, Outcomes
  <2> QED BY <2>2, <2>3 DEF Reception!Next, Reception!Block
<1>3. CASE CommitValidate(r) \/ CommitPartial(r)
  <2>1. /\ record.status \in ArrivalPhase /\ record'.proofValidated = TRUE
        /\ record'.status \in Completable
    BY <1>1, <1>3 DEF CommitValidate, CommitPartial, RecordRow, Completable
  <2>2. Outcome = "open" /\ Outcome' = "open"
    BY <2>1, Outcomes DEF ArrivalPhase, Completable, TerminalFulfillment
  <2> QED BY <2>1, <2>2 DEF Reception!Next, Reception!Prove
<1>4. CASE CommitComplete(r)
  <2>1. record.status \in Completable /\ Warranted
    BY <1>1, <1>4 DEF CommitComplete, Held
  <2>2. record.proofValidated /\ Outcome = "open"
    BY <2>1, Outcomes DEF Warranted, Completable, TerminalFulfillment
  <2>3. /\ record'.status = "FULFILLMENT_COMPLETED" /\ record'.proofValidated = record.proofValidated
    BY <1>1, <1>4 DEF CommitComplete, RecordRow
  <2>4. Outcome' = "completed"
    BY <2>3, Outcomes
  <2> QED BY <2>2, <2>3, <2>4 DEF Reception!Next, Reception!Complete
<1>5. CASE CommitReport(r)
  <2>1. CASE UNCHANGED record
    BY <2>1, Outcomes
  <2>2. CASE /\ record.status = req[r].seen
             /\ record' = [record EXCEPT !.status = req[r].next]
    <3>1. record.status \notin TerminalFulfillment /\ req[r].next \notin TerminalFulfillment
      BY <1>1, <1>5, <2>2 DEF CommitReport, Held
    <3>2. record'.status = req[r].next /\ record'.proofValidated = record.proofValidated
      BY <1>1, <2>2 DEF RecordRow
    <3>3. Outcome = "open" /\ Outcome' = "open"
      BY <3>1, <3>2, Outcomes
    <3> QED BY <3>2, <3>3
  <2> QED BY <1>5, <2>1, <2>2 DEF CommitReport
<1>6. CASE CommitReject(r)
  <2>1. /\ record.status \in ArrivalPhase
        /\ record'.status = "RECEPTION_REJECTED" /\ record'.proofValidated = FALSE
    BY <1>1, <1>6 DEF CommitReject, RecordRow
  <2>2. Outcome = "open" /\ Outcome' = "rejected"
    BY <2>1, Outcomes DEF ArrivalPhase, TerminalFulfillment
  <2> QED BY <2>1, <2>2 DEF Reception!Next, Reception!Reject
<1>7. CASE CommitTransition(r)
  <2>1. record' = record \/ (record = NoRecord /\ record' = NewRecord)
    BY <1>7 DEF CommitTransition, EnsuredRecord
  <2>2. /\ NewRecord.status = "PREPARING_FULFILLMENT" /\ NewRecord.proofValidated = FALSE
        /\ NoRecord.status = "ABSENT" /\ NoRecord.proofValidated = FALSE
    BY DEF NewRecord, NoRecord
  <2> QED BY <2>1, <2>2, Outcomes DEF TerminalFulfillment
<1>8. CASE UNCHANGED record
  BY <1>8, Outcomes
<1>9. CommitProof(r) \/ CommitPropose(r) \/ CommitAccept(r) => UNCHANGED record
  BY DEF CommitProof, CommitPropose, CommitAccept
<1>10. OrderStep(r) => CommitTransition(r) \/ UNCHANGED record
  BY DEF OrderStep, ExecStep, BeginTransition, CheckTransition, Fail
<1> QED BY <1>2, <1>3, <1>4, <1>5, <1>6, <1>7, <1>8, <1>9, <1>10 DEF CommitStep

\* However reports, rejections, validations and completions overlap, the reception ends once,
\* and completes only with its proof validated: for any requests and incidents.
THEOREM ReceptionRefinement == Spec => Implements
<1>1. Init => Reception!Init
  <2>. SUFFICES ASSUME Init PROVE Reception!Init
    OBVIOUS
  <2>1. record.status = "ABSENT" /\ record.proofValidated = FALSE
    BY DEF Init, ExecInit, NoRecord
  <2>2. Outcome = "open"
    BY <2>1, Outcomes DEF TerminalFulfillment
  <2> QED BY <2>1, <2>2 DEF Reception!Init
<1>2. ASSUME FulfillmentInv, [Next]_vars
      PROVE  [Reception!Next]_<<record.proofValidated, Outcome>>
  <2>1. CASE UNCHANGED record
    BY <2>1, Outcomes
  <2>2. CASE \E r \in Requests : CommitStep(r) \/ OrderStep(r)
    BY <1>2, <2>2, ReceptionStep
  <2>3. ASSUME NEW r \in Requests, BeginStep(r) \/ GoOnStep(r) \/ TaskStep(r)
        PROVE  UNCHANGED record
    BY <2>3 DEF BeginStep, GoOnStep, TaskStep, BeginAdvance, BeginProof, BeginValidate, BeginReport,
                BeginReject, BeginPartial, BeginPropose, BeginAccept, CheckReport, ReadAccept,
                ReadAlignment, ExamineRecord, RecheckCompletion, Hold, GoOn
  <2> QED BY <1>2, <2>1, <2>2, <2>3 DEF Next, vars
<1>3. /\ Init => FulfillmentInv
      /\ FulfillmentInv /\ [Next]_vars => FulfillmentInv'
  BY FulfillmentInductive
<1> QED BY <1>1, <1>2, <1>3, PTL DEF Spec, Implements, Reception!Spec

-----------------------------------------------------------------------------
(***************************************************************************)
(* What overlapping handlers break, and what it takes to break it.  The     *)
(* three properties below do not hold of the rows alone: each decision is   *)
(* written after the read it was taken on.  FulfillmentHistory and          *)
(* OrderHistory remember the one overlap that breaks each; the theorems     *)
(* say that no other does, with any requests in flight, in any number.      *)
(***************************************************************************)
Resolving(q) == q.op \in {"propose", "accept", "acceptRead"}

Examining(q) == q.op \in {"examine", "recheck", "complete"}

\* The incident a request resolves is there.
Existing(q, inc) == Resolving(q) => inc[q.incident].status # "ABSENT"

ResolutionInv ==
    /\ FulfillmentInv
    /\ BothAcceptedResolves
    /\ \A r \in Requests : Existing(req[r], incidents)

CompletionInv ==
    /\ ResolutionInv
    /\ ~crossed /\ ~late =>
          /\ Completing => record.status \in Completable \cup {"FULFILLMENT_COMPLETED"}
          /\ Completing \/ record.status = "FULFILLMENT_COMPLETED" => ~IncidentsBlock

\* Once a completion has read the order, it can only have moved on from its receipt.
Received ==
    \/ overwritten
    \/ (\E r \in Requests : Examining(req[r])) \/ record.status = "FULFILLMENT_COMPLETED" =>
          execution \in AfterReceipt

ReceiptInv ==
    /\ FulfillmentInv
    /\ \A r \in Requests : req[r].op \in {"transition", "transitionChecked"} =>
          MayTransition(req[r].from, req[r].to)
    /\ Received

\* The reads a later write relies on.
Relied(r) ==
    \/ \E i \in Incidents : BeginPropose(r, i) \/ \E side \in Sides : BeginAccept(r, i, side)
    \/ GoOnStep(r)

\* A request that relies on nothing examined here.
Plain(q) == ~Resolving(q) /\ ~Examining(q) /\ q.op # "reportChecked"

\* A request of a handler's first read, or no request.
LEMMA PlainOps ==
    ASSUME NEW q, q.op \in {"idle", "advance", "proof", "validate", "report", "reject", "partial", "align",
                            "transition", "transitionChecked", "moveTask", "completeTask"}
    PROVE  Plain(q)
BY DEF Plain, Resolving, Examining

\* A step moves one request, and writes outside the commits only the order and the tasks.
LEMMA StepKinds ==
    ASSUME FulfillmentInv, NEW r \in Requests,
           BeginStep(r) \/ GoOnStep(r) \/ CommitStep(r) \/ OrderStep(r) \/ TaskStep(r)
    PROVE  /\ \A s \in Requests \ {r} : req'[s] = req[s]
           /\ \/ Relied(r)
              \/ CommitStep(r) /\ Plain(req'[r])
              \/ Plain(req'[r]) /\ UNCHANGED incidents /\ (UNCHANGED record \/ OrderStep(r))
<1>1. req \in [Requests -> Request]
  BY DEF FulfillmentInv, TypeOK, Request
<1>2. ASSUME NEW q, req' = [req EXCEPT ![r] = q]
      PROVE  req'[r] = q /\ \A s \in Requests \ {r} : req'[s] = req[s]
  BY <1>1, <1>2
<1>3. CASE GoOnStep(r)
  <2>1. \E q : req' = [req EXCEPT ![r] = q]
    BY <1>3 DEF GoOnStep, CheckReport, ReadAccept, ReadAlignment, ExamineRecord, RecheckCompletion, GoOn
  <2> QED BY <1>2, <1>3, <2>1 DEF Relied
<1>4. CASE BeginStep(r)
  <2>1. ASSUME NEW q, q.op \in {"advance", "proof", "validate", "report", "reject", "partial"}, Hold(r, q)
        PROVE  /\ \A s \in Requests \ {r} : req'[s] = req[s]
               /\ Plain(req'[r]) /\ UNCHANGED <<incidents, record>>
    <3>1. Plain(q)
      BY <2>1, PlainOps
    <3> QED BY <1>2, <2>1, <3>1 DEF Hold
  <2>2. ASSUME NEW to \in FulfillmentStatus, BeginAdvance(r, to)
        PROVE  \E q : q.op = "advance" /\ Hold(r, q)
    BY <2>2 DEF BeginAdvance
  <2>3. BeginProof(r) => \E q : q.op = "proof" /\ Hold(r, q)
    BY DEF BeginProof
  <2>4. BeginValidate(r) => \E q : q.op = "validate" /\ Hold(r, q)
    BY DEF BeginValidate
  <2>5. ASSUME NEW kind \in ReportKind, BeginReport(r, kind)
        PROVE  \E q : q.op = "report" /\ Hold(r, q)
    BY <2>5 DEF BeginReport
  <2>6. ASSUME NEW typeBlocks \in BOOLEAN, BeginReject(r, typeBlocks)
        PROVE  \E q : q.op = "reject" /\ Hold(r, q)
    BY <2>6 DEF BeginReject
  <2>7. BeginPartial(r) => \E q : q.op = "partial" /\ Hold(r, q)
    BY DEF BeginPartial
  <2>8. ASSUME NEW i \in Incidents, BeginPropose(r, i) \/ \E side \in Sides : BeginAccept(r, i, side)
        PROVE  Relied(r) /\ \E q : req' = [req EXCEPT ![r] = q]
    BY <2>8 DEF Relied, BeginPropose, BeginAccept, Hold
  <2> QED BY <1>2, <1>4, <2>1, <2>2, <2>3, <2>4, <2>5, <2>6, <2>7, <2>8 DEF BeginStep
<1>5. CASE CommitStep(r)
  <2>1. \E q \in {Idle, [op |-> "align"]} : req' = [req EXCEPT ![r] = q]
    BY <1>5 DEF CommitStep, CommitAdvance, CommitProof, CommitValidate, CommitComplete, CommitReport,
                CommitReject, CommitPartial, CommitPropose, CommitAccept
  <2>2. Plain(Idle) /\ Plain([op |-> "align"])
    BY DEF Plain, Resolving, Examining, Idle
  <2> QED BY <1>2, <1>5, <2>1, <2>2
<1>6. CASE OrderStep(r)
  <2>1. UNCHANGED incidents
    BY <1>6 DEF OrderStep
  <2>2. ASSUME NEW to \in ExecutionTargets, BeginTransition(r, to)
        PROVE  \E q : q.op = "transition" /\ req' = [req EXCEPT ![r] = q]
    BY <2>2 DEF BeginTransition
  <2>3. CheckTransition(r) => \E q : q.op = "transitionChecked" /\ req' = [req EXCEPT ![r] = q]
    <3> SUFFICES ASSUME CheckTransition(r)
                 PROVE  \E q : q.op = "transitionChecked" /\ req' = [req EXCEPT ![r] = q]
      OBVIOUS
    <3> DEFINE q == [req[r] EXCEPT !.op = "transitionChecked"]
    <3>1. req[r] \in TransitionRequest
      BY <1>1, RequestFields DEF CheckTransition
    <3>2. q.op = "transitionChecked" /\ req' = [req EXCEPT ![r] = q]
      BY <3>1 DEF CheckTransition, TransitionRequest
    <3> HIDE DEF q
    <3> QED BY <3>2
  <2>4. CommitTransition(r) \/ Fail(r) => \E q : q.op = "idle" /\ req' = [req EXCEPT ![r] = q]
    BY DEF CommitTransition, Fail, Idle
  <2>5. PICK q : q.op \in {"transition", "transitionChecked", "idle"} /\ req' = [req EXCEPT ![r] = q]
    BY <1>6, <2>2, <2>3, <2>4 DEF OrderStep, ExecStep
  <2>6. Plain(q)
    BY <2>5, PlainOps
  <2> QED BY <1>2, <1>6, <2>1, <2>5, <2>6
<1>7. CASE TaskStep(r)
  <2>1. UNCHANGED <<record, incidents>>
    BY <1>7 DEF TaskStep
  <2>2. ASSUME NEW t \in Tasks, NEW blocking \in TaskBlocking, NEW needs \in TaskNeeds,
               Tsk!CreateTask(r, t, blocking, needs)
        PROVE  \E q : q.op = "idle" /\ req' = [req EXCEPT ![r] = q]
    <3>1. req[r] = Idle /\ req' = req
      BY <2>2 DEF Tsk!CreateTask, Tsk!Idle, Idle
    <3>2. req' = [req EXCEPT ![r] = Idle] /\ Idle.op = "idle"
      BY <1>1, <3>1 DEF Idle
    <3> QED BY <3>2
  <2>3. ASSUME NEW t \in Tasks, NEW to \in Tsk!TaskStatus, Tsk!BeginMoveTask(r, t, to)
        PROVE  \E q : q.op = "moveTask" /\ req' = [req EXCEPT ![r] = q]
    BY <2>3 DEF Tsk!BeginMoveTask
  <2>4. ASSUME NEW t \in Tasks, NEW side \in Tsk!Sides, Tsk!BeginCompleteTask(r, t, side)
        PROVE  \E q : q.op = "completeTask" /\ req' = [req EXCEPT ![r] = q]
    BY <2>4 DEF Tsk!BeginCompleteTask
  <2>5. Tsk!TaskCommit(r) => \E q : q.op = "idle" /\ req' = [req EXCEPT ![r] = q]
    BY DEF Tsk!TaskCommit, Tsk!CommitMoveTask, Tsk!CommitCompleteTask, Tsk!Idle
  <2>6. PICK q : q.op \in {"idle", "moveTask", "completeTask"} /\ req' = [req EXCEPT ![r] = q]
    BY <1>7, <2>2, <2>3, <2>4, <2>5 DEF TaskStep, Tsk!TaskStep
  <2>7. Plain(q)
    BY <2>6, PlainOps
  <2> QED BY <1>2, <2>1, <2>6, <2>7
<1> QED BY <1>3, <1>4, <1>5, <1>6, <1>7

\* A request that begins or goes on has read what it will write on.
LEMMA ReadsOpen ==
    ASSUME FulfillmentInv, NEW r \in Requests, Relied(r)
    PROVE  /\ Existing(req[r], incidents) => Existing(req'[r], incidents)
           /\ UNCHANGED <<execution, record, proof, incidents, tasks>>
           /\ req'[r].op = "complete" =>
                 record.status \in Completable /\ ~IncidentsBlock
           /\ req'[r].op \in {"recheck", "complete"} => Examining(req[r])
           /\ req'[r].op = "examine" => execution \in {"RECEIVED", "COMPLETED"}
<1>1. req \in [Requests -> Request] /\ req[r] \in Request
  BY DEF FulfillmentInv, TypeOK, Request
<1>2. ASSUME NEW q, Hold(r, q) \/ GoOn(r, q)
      PROVE  req'[r] = q /\ UNCHANGED <<execution, record, proof, incidents, tasks>>
  BY <1>1, <1>2 DEF Hold, GoOn
<1>3. ASSUME NEW i \in Incidents, BeginPropose(r, i)
      PROVE  /\ req'[r].op = "propose" /\ Existing(req'[r], incidents)
             /\ UNCHANGED <<execution, record, proof, incidents, tasks>>
  <2>1. req'[r] = [op |-> "propose", incident |-> i] /\ UNCHANGED <<execution, record, proof, incidents, tasks>>
    BY <1>2, <1>3 DEF BeginPropose
  <2> QED BY <1>3, <2>1 DEF BeginPropose, Existing
<1>4. ASSUME NEW i \in Incidents, NEW side \in Sides, BeginAccept(r, i, side)
      PROVE  /\ req'[r].op = "accept" /\ Existing(req'[r], incidents)
             /\ UNCHANGED <<execution, record, proof, incidents, tasks>>
  <2>1. /\ req'[r] = [op |-> "accept", incident |-> i, side |-> side]
        /\ UNCHANGED <<execution, record, proof, incidents, tasks>>
    BY <1>2, <1>4 DEF BeginAccept
  <2> QED BY <1>4, <2>1 DEF BeginAccept, Existing
<1>5. ASSUME ReadAccept(r)
      PROVE  /\ req'[r].op = "acceptRead"
             /\ Existing(req[r], incidents) => Existing(req'[r], incidents)
             /\ UNCHANGED <<execution, record, proof, incidents, tasks>>
  <2>1. /\ req'[r] = [op |-> "acceptRead", incident |-> req[r].incident, side |-> req[r].side,
                      seen |-> incidents[req[r].incident].accepted]
        /\ UNCHANGED <<execution, record, proof, incidents, tasks>>
    BY <1>2, <1>5 DEF ReadAccept
  <2>2. Existing(req[r], incidents) => incidents[req[r].incident].status # "ABSENT"
    BY <1>1, <1>5 DEF ReadAccept, Existing, Resolving
  <2> QED BY <2>1, <2>2 DEF Existing
<1>6. ASSUME CheckReport(r)
      PROVE  /\ req'[r].op = "reportChecked"
             /\ UNCHANGED <<execution, record, proof, incidents, tasks>>
  BY <1>2, <1>6 DEF CheckReport
<1>7. ASSUME NEW op \in {"examine", "recheck", "complete"}, GoOn(r, [op |-> op])
      PROVE  req'[r].op = op /\ UNCHANGED <<execution, record, proof, incidents, tasks>>
  BY <1>2, <1>7
<1>8. ReadAlignment(r) => /\ req'[r].op = "examine" /\ execution \in {"RECEIVED", "COMPLETED"}
                          /\ UNCHANGED <<execution, record, proof, incidents, tasks>>
  BY <1>7 DEF ReadAlignment
<1>9. ExamineRecord(r) => /\ req'[r].op = "recheck" /\ Examining(req[r])
                          /\ UNCHANGED <<execution, record, proof, incidents, tasks>>
  BY <1>7 DEF ExamineRecord, Examining
<1>10. RecheckCompletion(r) =>
          /\ req'[r].op = "complete" /\ Examining(req[r])
          /\ record.status \in Completable /\ ~IncidentsBlock
          /\ UNCHANGED <<execution, record, proof, incidents, tasks>>
  BY <1>7 DEF RecheckCompletion, Examining
<1>11. req'[r].op \in {"reportChecked", "examine", "recheck", "complete"} => Existing(req'[r], incidents)
  BY DEF Existing, Resolving
<1> QED BY <1>3, <1>4, <1>5, <1>6, <1>8, <1>9, <1>10, <1>11 DEF Relied, GoOnStep

\* The incidents after a step: unchanged, or one row written by a commit.
LEMMA IncidentWrites ==
    ASSUME FulfillmentInv, NEW r \in Requests, CommitStep(r)
    PROVE  \/ UNCHANGED incidents
           \/ /\ CommitReport(r) \/ CommitReject(r) \/ CommitPartial(r)
              /\ \E i \in Incidents :
                    /\ incidents[i].status = "ABSENT" /\ incidents'[i].accepted = {}
                    /\ \A j \in Incidents \ {i} : incidents'[j] = incidents[j]
           \/ /\ Resolving(req[r]) /\ req[r].incident \in Incidents
              /\ CommitPropose(r) \/ CommitAccept(r)
              /\ \A j \in Incidents \ {req[r].incident} : incidents'[j] = incidents[j]
<1>1. incidents \in [Incidents -> IncidentRow] /\ req[r] \in Request
  BY DEF FulfillmentInv, TypeOK, Request
<1>2. CommitAdvance(r) \/ CommitProof(r) \/ CommitValidate(r) \/ CommitComplete(r) => UNCHANGED incidents
  BY DEF CommitAdvance, CommitProof, CommitValidate, CommitComplete
<1>3. ASSUME NEW typeBlocks, NEW flag, AddIncident(typeBlocks, flag)
      PROVE  \E i \in Incidents :
                /\ incidents[i].status = "ABSENT" /\ incidents'[i].accepted = {}
                /\ \A j \in Incidents \ {i} : incidents'[j] = incidents[j]
  BY <1>1, <1>3 DEF AddIncident, AbsentIncident
<1>4. CommitReport(r) \/ CommitReject(r) \/ CommitPartial(r) =>
        \E typeBlocks, flag : AddIncident(typeBlocks, flag)
  BY DEF CommitReport, CommitReject, CommitPartial
<1>5. CommitPropose(r) \/ CommitAccept(r) => Resolving(req[r]) /\ req[r].incident \in Incidents
  BY <1>1, RequestFields DEF CommitPropose, CommitAccept, Resolving
<1>6. CommitPropose(r) \/ CommitAccept(r) =>
        \A j \in Incidents \ {req[r].incident} : incidents'[j] = incidents[j]
  <2>1. CASE CommitPropose(r)
    BY <1>1, <1>5, <2>1 DEF CommitPropose
  <2>2. CASE CommitAccept(r)
    <3>1. \E x : incidents' = [incidents EXCEPT ![req[r].incident] = x]
      BY <1>1, <1>5, <2>2 DEF CommitAccept, IncidentRow
    <3> QED BY <1>1, <3>1
  <2> QED BY <2>1, <2>2
<1> QED BY <1>2, <1>3, <1>4, <1>5, <1>6 DEF CommitStep

\* A commit takes no incident away.
LEMMA IncidentsStay ==
    ASSUME FulfillmentInv, NEW r \in Requests, CommitStep(r),
           NEW j \in Incidents, incidents[j].status # "ABSENT"
    PROVE  incidents'[j].status # "ABSENT"
<1>1. incidents \in [Incidents -> IncidentRow]
  BY DEF FulfillmentInv, TypeOK
<1>2. CASE CommitPropose(r) /\ j = req[r].incident
  BY <1>1, <1>2 DEF CommitPropose, IncidentRow
<1>3. CASE CommitAccept(r) /\ j = req[r].incident
  <2>1. \E status \in {"RESOLVED", "ACCEPTED_BY_BUYER", "ACCEPTED_BY_SELLER"} : incidents'[j].status = status
    BY <1>1, <1>3 DEF CommitAccept, IncidentRow
  <2> QED BY <2>1
<1> QED BY <1>2, <1>3, IncidentWrites

\* What a step that crosses no other resolution does to the acceptances.
LEMMA ResolutionKeeps ==
    ASSUME ResolutionInv, ~crossed, NEW r \in Requests, CommitPropose(r) \/ CommitAccept(r), ~Crosses(r)
    PROVE  BothAcceptedResolves'
<1>1. /\ incidents \in [Incidents -> IncidentRow] /\ req[r] \in Request /\ FulfillmentInv
      /\ \A j \in Incidents : incidents[j].accepted = Sides => incidents[j].status = "RESOLVED"
  BY DEF ResolutionInv, FulfillmentInv, TypeOK, Request, BothAcceptedResolves
<1> DEFINE i == req[r].incident
<1>2. i \in Incidents
  BY <1>1, RequestFields DEF CommitPropose, CommitAccept
<1>3. \A j \in Incidents \ {i} : incidents'[j] = incidents[j]
  <2>1. ~(CommitReport(r) \/ CommitReject(r) \/ CommitPartial(r))
    BY DEF CommitPropose, CommitAccept, CommitReport, CommitReject, CommitPartial
  <2> QED BY <1>1, <2>1, IncidentWrites DEF CommitStep
<1>4. incidents'[i].accepted = Sides => incidents'[i].status = "RESOLVED"
  <2>1. CASE CommitPropose(r)
    <3>1. incidents[i].status # "RESOLVED"
      BY <2>1 DEF Crosses
    <3>2. incidents'[i].accepted = incidents[i].accepted
      BY <1>1, <1>2, <2>1 DEF CommitPropose, IncidentRow
    <3> QED BY <1>1, <1>2, <3>1, <3>2
  <2>2. CASE CommitAccept(r)
    <3>1. incidents[i].accepted = req[r].seen
      BY <2>2 DEF Crosses
    <3> DEFINE both == BothAccepted(req[r].seen, req[r].side)
    <3>2. incidents' = [incidents EXCEPT
             ![i].accepted = @ \cup {req[r].side},
             ![i].flag = @ /\ ~both,
             ![i].status = IF both THEN "RESOLVED"
                           ELSE IF req[r].side = "buyer" THEN "ACCEPTED_BY_BUYER"
                           ELSE "ACCEPTED_BY_SELLER"]
      BY <2>2 DEF CommitAccept
    <3>3. both <=> incidents[i].accepted \cup {req[r].side} = Sides
      BY <3>1 DEF BothAccepted
    <3> HIDE DEF both
    <3>4. /\ incidents'[i].accepted = incidents[i].accepted \cup {req[r].side}
          /\ both => incidents'[i].status = "RESOLVED"
      BY <1>1, <1>2, <3>2 DEF IncidentRow
    <3> QED BY <3>3, <3>4
  <2> QED BY <2>1, <2>2
<1> QED BY <1>1, <1>3, <1>4 DEF BothAcceptedResolves

\* What a step of the history says of the step it remembers.
LEMMA Remembered ==
    ASSUME HistNext
    PROVE  /\ Next
           /\ ~crossed' => ~crossed /\ \A r \in Requests : ~Crosses(r)
           /\ ~late' => ~late /\ \A r \in Requests : ~ReportsLate(r)
BY DEF HistNext

LEMMA ResolutionStep ==
    ASSUME ResolutionInv, FulfillmentInv', HistNext
    PROVE  ResolutionInv'
<1>0. /\ FulfillmentInv /\ BothAcceptedResolves
      /\ \A r \in Requests : Existing(req[r], incidents)
      /\ req \in [Requests -> Request] /\ incidents \in [Incidents -> IncidentRow]
  BY DEF ResolutionInv, FulfillmentInv, TypeOK, Request
<1>1. PICK r \in Requests :
         BeginStep(r) \/ GoOnStep(r) \/ CommitStep(r) \/ OrderStep(r) \/ TaskStep(r)
  BY Remembered DEF Next
<1>2. \A s \in Requests \ {r} : req'[s] = req[s]
  BY <1>0, <1>1, StepKinds
<1>3. \/ Relied(r)
      \/ CommitStep(r) /\ Plain(req'[r])
      \/ Plain(req'[r]) /\ UNCHANGED incidents
  BY <1>0, <1>1, StepKinds
<1>4. BothAcceptedResolves'
  <2>1. CASE UNCHANGED incidents
    BY <1>0, <2>1, Remembered DEF BothAcceptedResolves
  <2>2. CASE \E i \in Incidents :
                /\ incidents'[i].accepted = {}
                /\ \A j \in Incidents \ {i} : incidents'[j] = incidents[j]
    <3>1. Sides # {}
      BY DEF Sides
    <3> QED BY <1>0, <2>2, <3>1, Remembered DEF BothAcceptedResolves
  <2>3. CASE CommitPropose(r) \/ CommitAccept(r)
    <3>1. CASE crossed'
      BY <3>1 DEF BothAcceptedResolves
    <3>2. CASE ~crossed'
      BY <2>3, <3>2, Remembered, ResolutionKeeps
    <3> QED BY <3>1, <3>2
  <2>4. CASE CommitStep(r)
    BY <1>0, <2>1, <2>2, <2>3, <2>4, IncidentWrites
  <2>5. Relied(r) => UNCHANGED incidents
    BY <1>0, ReadsOpen
  <2> QED BY <1>3, <2>1, <2>4, <2>5
<1>5. ASSUME NEW s \in Requests
      PROVE  Existing(req'[s], incidents')
  <2>1. Existing(req'[s], incidents)
    <3>1. CASE s = r /\ Relied(r)
      BY <1>0, <3>1, ReadsOpen
    <3>2. CASE s = r /\ Plain(req'[r])
      BY <3>2 DEF Existing, Plain
    <3>3. CASE s # r
      BY <1>0, <1>2, <3>3
    <3> QED BY <1>3, <3>1, <3>2, <3>3
  <2>2. CASE UNCHANGED incidents
    BY <2>1, <2>2
  <2>3. CASE CommitStep(r) /\ Plain(req'[r])
    <3>1. CASE s = r
      BY <2>3, <3>1 DEF Existing, Plain
    <3>2. CASE s # r
      <4>1. req'[s] = req[s] /\ req[s] \in Request
        BY <1>0, <1>2, <3>2
      <4>2. Resolving(req[s]) => req[s].incident \in Incidents
        BY <4>1, RequestFields DEF Resolving
      <4> QED BY <1>0, <2>1, <2>3, <4>1, <4>2, IncidentsStay DEF Existing
    <3> QED BY <3>1, <3>2
  <2>4. Relied(r) => UNCHANGED incidents
    BY <1>0, ReadsOpen
  <2> QED BY <1>3, <2>2, <2>3, <2>4
<1> QED BY <1>4, <1>5 DEF ResolutionInv

LEMMA ResolutionAlways ==
    /\ HistInit => ResolutionInv
    /\ ResolutionInv /\ [HistNext]_histVars => ResolutionInv'
<1>1. ASSUME HistInit PROVE ResolutionInv
  <2>1. /\ FulfillmentInv /\ \A r \in Requests : req[r] = Idle
        /\ \A i \in Incidents : incidents[i].accepted = {}
    BY <1>1, FulfillmentInductive DEF HistInit, Init, ExecInit, AbsentIncident
  <2>2. Existing(Idle, incidents) /\ Sides # {}
    BY DEF Existing, Resolving, Idle, Sides
  <2> QED BY <2>1, <2>2 DEF ResolutionInv, BothAcceptedResolves
<1>2. ASSUME ResolutionInv, UNCHANGED histVars PROVE ResolutionInv'
  <2>1. FulfillmentInv /\ UNCHANGED vars /\ UNCHANGED <<req, incidents, crossed>>
    BY <1>2 DEF ResolutionInv, histVars, vars
  <2>2. FulfillmentInv'
    BY <2>1, FulfillmentInductive
  <2> QED BY <1>2, <2>1, <2>2 DEF ResolutionInv, BothAcceptedResolves
<1>3. ASSUME ResolutionInv, HistNext PROVE ResolutionInv'
  <2>1. FulfillmentInv'
    BY <1>3, Remembered, FulfillmentInductive DEF ResolutionInv
  <2> QED BY <1>3, <2>1, ResolutionStep
<1> QED BY <1>1, <1>2, <1>3

\* Once both sides have accepted, the incident is resolved and stays so, for any requests,
\* unless a resolution wrote over one it had not read.
THEOREM AcceptedResolves == HistSpec => []BothAcceptedResolves
<1>1. ResolutionInv => BothAcceptedResolves
  BY DEF ResolutionInv
<1> QED BY <1>1, ResolutionAlways, PTL DEF HistSpec

-----------------------------------------------------------------------------
\* A resolution that crosses no other makes no incident blocking that was not.
LEMMA ResolutionUnblocks ==
    ASSUME ResolutionInv, NEW r \in Requests, CommitPropose(r) \/ CommitAccept(r), ~Crosses(r),
           ~IncidentsBlock
    PROVE  ~IncidentsBlock'
<1>1. /\ incidents \in [Incidents -> IncidentRow] /\ req[r] \in Request /\ Existing(req[r], incidents)
  BY DEF ResolutionInv, FulfillmentInv, TypeOK, Request
<1> DEFINE i == req[r].incident
<1>2. i \in Incidents /\ incidents[i].status \notin {"ABSENT", "RESOLVED"}
  BY <1>1, RequestFields DEF CommitPropose, CommitAccept, Existing, Resolving, Crosses
<1>3. ~incidents[i].flag /\ ~incidents[i].typeBlocks
  BY <1>2 DEF IncidentsBlock, IncidentBlocks
<1>4. \A j \in Incidents \ {i} : incidents'[j] = incidents[j]
  <2>1. ~(CommitReport(r) \/ CommitReject(r) \/ CommitPartial(r))
    BY DEF CommitPropose, CommitAccept, CommitReport, CommitReject, CommitPartial
  <2> QED BY <2>1, IncidentWrites DEF CommitStep, ResolutionInv
<1>5. incidents'[i].flag = FALSE /\ incidents'[i].typeBlocks = FALSE
  <2>1. incidents[i].flag = FALSE /\ incidents[i].typeBlocks = FALSE
    BY <1>1, <1>2, <1>3 DEF IncidentRow
  <2>2. CASE CommitPropose(r)
    BY <1>1, <1>2, <2>1, <2>2 DEF CommitPropose, IncidentRow
  <2>3. CASE CommitAccept(r)
    BY <1>1, <1>2, <2>1, <2>3 DEF CommitAccept, IncidentRow
  <2> QED BY <2>2, <2>3
<1>6. \A j \in Incidents \ {i} : ~IncidentBlocks(incidents'[j])
  BY <1>4 DEF IncidentsBlock
<1>7. ~IncidentBlocks(incidents'[i])
  BY <1>5 DEF IncidentBlocks
<1> QED BY <1>6, <1>7 DEF IncidentsBlock

\* Only the last write of a completion completes.
LEMMA OnlyCompletion ==
    ASSUME FulfillmentInv, NEW r \in Requests, CommitStep(r) \/ OrderStep(r),
           record'.status = "FULFILLMENT_COMPLETED", record' # record
    PROVE  CommitComplete(r)
<1>1. /\ record \in RecordRow /\ req[r] \in Request
      /\ Held(req[r], Recorded, proof, Warranted, incidents, tasks)
  BY Committing
<1>2. CASE CommitAdvance(r)
  <2>1. req[r].to \notin Sensitive
    BY <1>1, <1>2 DEF CommitAdvance, Held, MayAdvance
  <2> QED BY <1>1, <1>2, <2>1 DEF CommitAdvance, RecordRow, Sensitive
<1>3. CASE CommitReport(r)
  <2>1. req[r].next \notin TerminalFulfillment
    BY <1>1, <1>3 DEF CommitReport, Held
  <2> QED BY <1>1, <1>3, <2>1 DEF CommitReport, RecordRow, TerminalFulfillment
<1>4. ~(CommitValidate(r) \/ CommitReject(r) \/ CommitPartial(r))
  BY <1>1 DEF CommitValidate, CommitReject, CommitPartial, RecordRow
<1>5. ~(CommitProof(r) \/ CommitPropose(r) \/ CommitAccept(r))
  BY DEF CommitProof, CommitPropose, CommitAccept
<1>6. ~OrderStep(r)
  <2>1. OrderStep(r) => CommitTransition(r) \/ UNCHANGED record
    BY DEF OrderStep, ExecStep, BeginTransition, CheckTransition, Fail
  <2>2. ~CommitTransition(r)
    BY DEF CommitTransition, EnsuredRecord, NewRecord, NoRecord
  <2> QED BY <2>1, <2>2
<1> QED BY <1>2, <1>3, <1>4, <1>5, <1>6 DEF CommitStep

\* What the writers of the record do to a record that is being completed, or is.
LEMMA RecordSettled ==
    ASSUME CompletionInv, ~crossed, ~late, NEW r \in Requests, CommitStep(r) \/ OrderStep(r),
           ~ReportsLate(r), Completing \/ record.status = "FULFILLMENT_COMPLETED"
    PROVE  /\ record'.status \in Completable \cup {"FULFILLMENT_COMPLETED"}
           /\ record'.status = record.status \/ CommitComplete(r)
           /\ ~CommitReport(r) /\ ~CommitReject(r) /\ ~CommitPartial(r)
<1>1. /\ record \in RecordRow /\ req[r] \in Request
      /\ Held(req[r], Recorded, proof, Warranted, incidents, tasks)
  BY Committing DEF CompletionInv, ResolutionInv
<1>2. record.status \in Completable \cup {"FULFILLMENT_COMPLETED"}
  BY DEF CompletionInv
<1>3. record.status \notin ArrivalPhase
  BY <1>2 DEF Completable, ArrivalPhase
<1>4. ~CommitValidate(r) /\ ~CommitReject(r) /\ ~CommitPartial(r)
  BY <1>3 DEF CommitValidate, CommitReject, CommitPartial
<1>5. ~CommitReport(r)
  BY DEF ReportsLate
<1>6. ~CommitAdvance(r)
  <2> SUFFICES ASSUME CommitAdvance(r) PROVE FALSE
    OBVIOUS
  <2>1. /\ record.status \notin TerminalFulfillment
        /\ <<record.status, req[r].to>> \in PolicyEdges
    BY <1>1 DEF CommitAdvance, Held, MayAdvance
  <2>2. record.status \in BeforeDestination \cup ArrivalPhase \cup {"INCIDENT_REPORTED"}
    BY <2>1 DEF PolicyEdges, BeforeDestination, ArrivalPhase
  <2> QED BY <1>2, <2>2 DEF Completable, BeforeDestination, ArrivalPhase
<1>7. CommitComplete(r) => record'.status = "FULFILLMENT_COMPLETED"
  BY <1>1 DEF CommitComplete, RecordRow
<1>8. OrderStep(r) => UNCHANGED record
  <2>1. record # NoRecord
    BY <1>2 DEF NoRecord, Completable
  <2> QED BY <2>1 DEF OrderStep, ExecStep, BeginTransition, CheckTransition, CommitTransition, EnsuredRecord, Fail
<1>9. CommitProof(r) \/ CommitPropose(r) \/ CommitAccept(r) => UNCHANGED record
  BY DEF CommitProof, CommitPropose, CommitAccept
<1> QED BY <1>2, <1>4, <1>5, <1>6, <1>7, <1>8, <1>9 DEF CommitStep

LEMMA CompletionStep ==
    ASSUME CompletionInv, ResolutionInv', HistNext
    PROVE  CompletionInv'
<1> SUFFICES ASSUME ~crossed', ~late'
             PROVE  /\ Completing' => record'.status \in Completable \cup {"FULFILLMENT_COMPLETED"}
                    /\ Completing' \/ record'.status = "FULFILLMENT_COMPLETED" => ~IncidentsBlock'
  BY DEF CompletionInv
<1> DEFINE Done == record.status = "FULFILLMENT_COMPLETED"
<1>0. /\ ResolutionInv /\ FulfillmentInv /\ record \in RecordRow
      /\ ~crossed /\ ~late /\ \A r \in Requests : ~Crosses(r) /\ ~ReportsLate(r)
      /\ Completing => record.status \in Completable \cup {"FULFILLMENT_COMPLETED"}
      /\ Completing \/ Done => ~IncidentsBlock
  BY Remembered DEF CompletionInv, ResolutionInv, FulfillmentInv, TypeOK
<1>1. PICK r \in Requests :
         BeginStep(r) \/ GoOnStep(r) \/ CommitStep(r) \/ OrderStep(r) \/ TaskStep(r)
  BY Remembered DEF Next
<1>2. \A s \in Requests \ {r} : req'[s] = req[s]
  BY <1>0, <1>1, StepKinds
<1>3. CASE Relied(r)
  <2>1. /\ UNCHANGED <<record, incidents>>
        /\ req'[r].op = "complete" => record.status \in Completable /\ ~IncidentsBlock
    BY <1>0, <1>3, ReadsOpen
  <2>2. IncidentsBlock' = IncidentsBlock
    BY <2>1 DEF IncidentsBlock
  <2>3. Completing' => Completing \/ req'[r].op = "complete"
    BY <1>2 DEF Completing
  <2> QED BY <1>0, <2>1, <2>2, <2>3
<1>4. Plain(req'[r]) /\ Completing' => Completing
  BY <1>2 DEF Completing, Plain, Examining
<1>5. CASE Plain(req'[r]) /\ UNCHANGED incidents /\ UNCHANGED record
  <2>1. IncidentsBlock' = IncidentsBlock
    BY <1>5 DEF IncidentsBlock
  <2> QED BY <1>0, <1>4, <1>5, <2>1
<1>6. CASE Plain(req'[r]) /\ (CommitStep(r) \/ (OrderStep(r) /\ UNCHANGED incidents))
  <2>1. CASE Completing \/ Done
    <3>1. /\ record'.status \in Completable \cup {"FULFILLMENT_COMPLETED"}
          /\ ~CommitReport(r) /\ ~CommitReject(r) /\ ~CommitPartial(r)
      BY <1>0, <1>6, <2>1, RecordSettled
    <3>2. ~IncidentsBlock
      BY <1>0, <2>1
    <3>3. UNCHANGED incidents \/ CommitPropose(r) \/ CommitAccept(r)
      BY <1>0, <1>6, <3>1, IncidentWrites
    <3>4. UNCHANGED incidents => ~IncidentsBlock'
      BY <3>2 DEF IncidentsBlock
    <3>5. ~IncidentsBlock'
      BY <1>0, <3>2, <3>3, <3>4, ResolutionUnblocks
    <3> QED BY <3>1, <3>5
  <2>2. CASE ~Completing /\ ~Done
    <3>1. ~Completing'
      BY <1>4, <1>6, <2>2
    <3>2. ~CommitComplete(r)
      BY <2>2 DEF CommitComplete, Completing
    <3>3. record'.status # "FULFILLMENT_COMPLETED"
      BY <1>0, <1>6, <2>2, <3>2, OnlyCompletion
    <3> QED BY <3>1, <3>3
  <2> QED BY <2>1, <2>2
<1>7. \/ Relied(r)
      \/ CommitStep(r) /\ Plain(req'[r])
      \/ Plain(req'[r]) /\ UNCHANGED incidents /\ (UNCHANGED record \/ OrderStep(r))
  BY <1>0, <1>1, StepKinds
<1> QED BY <1>3, <1>5, <1>6, <1>7

\* A completed fulfillment has no unresolved blocking incident, and gets none later, for any
\* requests, unless resolutions crossed or a report came late.
THEOREM CompletedUnblocked == HistSpec => []CompletedHasNoBlockingIncident
<1>1. HistInit => CompletionInv
  <2> SUFFICES ASSUME HistInit PROVE CompletionInv
    OBVIOUS
  <2>1. ResolutionInv /\ (\A r \in Requests : req[r].op = "idle") /\ record.status = "ABSENT"
    BY ResolutionAlways DEF HistInit, Init, ExecInit, NoRecord, Idle
  <2> QED BY <2>1 DEF CompletionInv, Completing
<1>2. CompletionInv /\ [HistNext]_histVars => CompletionInv'
  <2>1. ASSUME CompletionInv, UNCHANGED histVars PROVE CompletionInv'
    <3>1. ResolutionInv /\ UNCHANGED <<record, req, incidents, crossed, late>>
      BY <2>1 DEF CompletionInv, histVars, vars
    <3>2. ResolutionInv'
      BY <2>1, <3>1, ResolutionAlways
    <3> QED BY <2>1, <3>1, <3>2 DEF CompletionInv, Completing, IncidentsBlock
  <2>2. CompletionInv /\ HistNext => CompletionInv'
    BY ResolutionAlways, CompletionStep DEF CompletionInv
  <2> QED BY <2>1, <2>2
<1>3. CompletionInv => CompletedHasNoBlockingIncident
  BY DEF CompletionInv, CompletedHasNoBlockingIncident, IncidentsBlock, IncidentBlocks
<1> QED BY <1>1, <1>2, <1>3, PTL DEF HistSpec

-----------------------------------------------------------------------------
\* A received order moves on, by the policy, to what comes after its receipt.
LEMMA AfterReceiptClosed ==
    ASSUME NEW from \in AfterReceipt, NEW to, MayTransition(from, to)
    PROVE  to \in AfterReceipt
<1>1. from \in {"RECEIVED", "RETURN_REVIEW"}
  BY DEF MayTransition, Terminal, AfterReceipt
<1>2. <<from, to>> \in LinearChain => to = "COMPLETED"
  BY <1>1 DEF LinearChain
<1>3. <<from, to>> \in Exceptions => to \in AfterReceipt
  BY <1>1 DEF Exceptions, BeforeArrival, AfterReceipt
<1> QED BY <1>2, <1>3 DEF MayTransition, AfterReceipt

\* Only these two steps hold a transition.
LEMMA TransitionsBegin ==
    ASSUME FulfillmentInv, NEW r \in Requests, req'[r].op \in {"transition", "transitionChecked"},
           BeginStep(r) \/ GoOnStep(r) \/ CommitStep(r) \/ OrderStep(r) \/ TaskStep(r)
    PROVE  (\E to \in ExecutionTargets : BeginTransition(r, to)) \/ CheckTransition(r)
<1>1. req \in [Requests -> Request]
  BY DEF FulfillmentInv, TypeOK, Request
<1>2. ASSUME NEW q, q.op \notin {"transition", "transitionChecked"}, req' = [req EXCEPT ![r] = q]
      PROVE  FALSE
  BY <1>1, <1>2
<1>3. ~GoOnStep(r)
  <2>1. GoOnStep(r) => \E q : q.op \notin {"transition", "transitionChecked"} /\ GoOn(r, q)
    <3>1. CheckReport(r) => \E q : q.op = "reportChecked" /\ GoOn(r, q)
      BY DEF CheckReport
    <3>2. ReadAccept(r) => \E q : q.op = "acceptRead" /\ GoOn(r, q)
      BY DEF ReadAccept
    <3>3. ReadAlignment(r) => \E q : q.op = "examine" /\ GoOn(r, q)
      BY DEF ReadAlignment
    <3>4. ExamineRecord(r) => \E q : q.op = "recheck" /\ GoOn(r, q)
      BY DEF ExamineRecord
    <3>5. RecheckCompletion(r) => \E q : q.op = "complete" /\ GoOn(r, q)
      BY DEF RecheckCompletion
    <3> QED BY <3>1, <3>2, <3>3, <3>4, <3>5 DEF GoOnStep
  <2> QED BY <1>2, <2>1 DEF GoOn
<1>4. ~BeginStep(r)
  <2>1. BeginStep(r) => \E q : q.op \notin {"transition", "transitionChecked"} /\ Hold(r, q)
    <3>1. ASSUME NEW to \in FulfillmentStatus, BeginAdvance(r, to)
          PROVE  \E q : q.op = "advance" /\ Hold(r, q)
      BY <3>1 DEF BeginAdvance
    <3>2. BeginProof(r) => \E q : q.op = "proof" /\ Hold(r, q)
      BY DEF BeginProof
    <3>3. BeginValidate(r) => \E q : q.op = "validate" /\ Hold(r, q)
      BY DEF BeginValidate
    <3>4. ASSUME NEW kind \in ReportKind, BeginReport(r, kind)
          PROVE  \E q : q.op = "report" /\ Hold(r, q)
      BY <3>4 DEF BeginReport
    <3>5. ASSUME NEW typeBlocks \in BOOLEAN, BeginReject(r, typeBlocks)
          PROVE  \E q : q.op = "reject" /\ Hold(r, q)
      BY <3>5 DEF BeginReject
    <3>6. BeginPartial(r) => \E q : q.op = "partial" /\ Hold(r, q)
      BY DEF BeginPartial
    <3>7. ASSUME NEW i \in Incidents, BeginPropose(r, i)
          PROVE  \E q : q.op = "propose" /\ Hold(r, q)
      BY <3>7 DEF BeginPropose
    <3>8. ASSUME NEW i \in Incidents, NEW side \in Sides, BeginAccept(r, i, side)
          PROVE  \E q : q.op = "accept" /\ Hold(r, q)
      BY <3>8 DEF BeginAccept
    <3> QED BY <3>1, <3>2, <3>3, <3>4, <3>5, <3>6, <3>7, <3>8 DEF BeginStep
  <2> QED BY <1>2, <2>1 DEF Hold
<1>5. ~CommitStep(r)
  <2>1. CommitStep(r) => \E q \in {Idle, [op |-> "align"]} : req' = [req EXCEPT ![r] = q]
    BY DEF CommitStep, CommitAdvance, CommitProof, CommitValidate, CommitComplete, CommitReport,
           CommitReject, CommitPartial, CommitPropose, CommitAccept
  <2> QED BY <1>2, <2>1 DEF Idle
<1>6. ~TaskStep(r)
  <2>1. ASSUME NEW t \in Tasks, NEW blocking \in TaskBlocking, NEW needs \in TaskNeeds,
               Tsk!CreateTask(r, t, blocking, needs)
        PROVE  FALSE
    BY <2>1 DEF Tsk!CreateTask, Tsk!Idle
  <2>2. ASSUME NEW t \in Tasks, NEW to \in Tsk!TaskStatus, Tsk!BeginMoveTask(r, t, to)
        PROVE  FALSE
    <3>1. \E q : q.op = "moveTask" /\ req' = [req EXCEPT ![r] = q]
      BY <2>2 DEF Tsk!BeginMoveTask
    <3> QED BY <1>2, <3>1
  <2>3. ASSUME NEW t \in Tasks, NEW side \in Tsk!Sides, Tsk!BeginCompleteTask(r, t, side)
        PROVE  FALSE
    <3>1. \E q : q.op = "completeTask" /\ req' = [req EXCEPT ![r] = q]
      BY <2>3 DEF Tsk!BeginCompleteTask
    <3> QED BY <1>2, <3>1
  <2>4. ~Tsk!TaskCommit(r)
    <3>1. Tsk!TaskCommit(r) => \E q : q.op = "idle" /\ req' = [req EXCEPT ![r] = q]
      BY DEF Tsk!TaskCommit, Tsk!CommitMoveTask, Tsk!CommitCompleteTask, Tsk!Idle
    <3> QED BY <1>2, <3>1
  <2> QED BY <2>1, <2>2, <2>3, <2>4 DEF TaskStep, Tsk!TaskStep
<1>7. ~CommitTransition(r) /\ ~Fail(r)
  <2>1. CommitTransition(r) \/ Fail(r) => req' = [req EXCEPT ![r] = Idle]
    BY DEF CommitTransition, Fail
  <2> QED BY <1>2, <2>1 DEF Idle
<1> QED BY <1>3, <1>4, <1>5, <1>6, <1>7 DEF OrderStep, ExecStep

LEMMA ReceiptStep ==
    ASSUME ReceiptInv, FulfillmentInv', OrderHistNext
    PROVE  ReceiptInv'
<1>0. /\ FulfillmentInv /\ Received /\ req \in [Requests -> Request] /\ record \in RecordRow
      /\ \A s \in Requests : req[s].op \in {"transition", "transitionChecked"} =>
            MayTransition(req[s].from, req[s].to)
  BY DEF ReceiptInv, FulfillmentInv, TypeOK, Request
<1>1. PICK r \in Requests :
         BeginStep(r) \/ GoOnStep(r) \/ CommitStep(r) \/ OrderStep(r) \/ TaskStep(r)
  BY DEF OrderHistNext, Next
<1>2. \A s \in Requests \ {r} : req'[s] = req[s]
  BY <1>0, <1>1, StepKinds
<1>3. execution' = execution \/ CommitTransition(r)
  BY <1>1 DEF BeginStep, GoOnStep, CommitStep, OrderStep, TaskStep, ExecStep, BeginTransition,
              CheckTransition, Fail, BeginAdvance, BeginProof, BeginValidate, BeginReport, BeginReject,
              BeginPartial, BeginPropose, BeginAccept, CheckReport, ReadAccept, ReadAlignment,
              ExamineRecord, RecheckCompletion, Hold, GoOn, CommitAdvance, CommitProof, CommitValidate,
              CommitComplete, CommitReport, CommitReject, CommitPartial, CommitPropose, CommitAccept
<1>4. Received'
  <2> SUFFICES ASSUME ~overwritten',
                      (\E s \in Requests : Examining(req'[s])) \/ record'.status = "FULFILLMENT_COMPLETED"
               PROVE  execution' \in AfterReceipt
    BY DEF Received
  <2>1. ~overwritten /\ ~Overwrites(r)
    BY DEF OrderHistNext
  <2>2. execution \in AfterReceipt
    <3>1. CASE (\E s \in Requests : Examining(req[s])) \/ record.status = "FULFILLMENT_COMPLETED"
      BY <1>0, <2>1, <3>1 DEF Received
    <3>2. CASE Relied(r) /\ req'[r].op = "examine"
      BY <1>0, <3>2, ReadsOpen DEF AfterReceipt
    <3>3. CASE ~\E s \in Requests : Examining(req[s])
      <4>1. Examining(req'[r]) => Relied(r) /\ req'[r].op = "examine"
        <5>1. Relied(r) => req'[r].op \notin {"recheck", "complete"}
          BY <1>0, <3>3, ReadsOpen
        <5> QED BY <1>0, <1>1, <5>1, StepKinds DEF Plain, Examining
      <4>2. (\E s \in Requests : Examining(req'[s])) => Relied(r) /\ req'[r].op = "examine"
        BY <1>2, <3>3, <4>1
      <4>3. record'.status = "FULFILLMENT_COMPLETED" => record.status = "FULFILLMENT_COMPLETED"
        <5>1. ~CommitComplete(r)
          BY <3>3 DEF CommitComplete, Examining
        <5>2. CommitStep(r) \/ OrderStep(r) \/ UNCHANGED record
          BY <1>1 DEF BeginStep, GoOnStep, TaskStep, BeginAdvance, BeginProof, BeginValidate, BeginReport,
                      BeginReject, BeginPartial, BeginPropose, BeginAccept, CheckReport, ReadAccept,
                      ReadAlignment, ExamineRecord, RecheckCompletion, Hold, GoOn
        <5> QED BY <1>0, <5>1, <5>2, OnlyCompletion
      <4> QED BY <3>1, <3>2, <4>2, <4>3
    <3> QED BY <3>1, <3>3
  <2>3. CASE CommitTransition(r) /\ execution' # execution
    <3>1. execution = req[r].from /\ execution' = req[r].to
      BY <2>1, <2>3 DEF Overwrites, CommitTransition
    <3>2. MayTransition(execution, execution')
      BY <1>0, <2>3, <3>1 DEF CommitTransition
    <3> QED BY <2>2, <3>2, AfterReceiptClosed
  <2> QED BY <1>3, <2>2, <2>3
<1>5. ASSUME NEW s \in Requests, req'[s].op \in {"transition", "transitionChecked"}
      PROVE  MayTransition(req'[s].from, req'[s].to)
  <2>1. CASE s # r
    BY <1>0, <1>2, <1>5, <2>1
  <2>2. CASE s = r
    <3>1. ASSUME NEW to \in ExecutionTargets, BeginTransition(r, to)
          PROVE  MayTransition(req'[r].from, req'[r].to)
      <4>1. req'[r] = [op |-> "transition", from |-> execution, to |-> to]
        BY <1>0, <3>1 DEF BeginTransition
      <4> QED BY <3>1, <4>1 DEF BeginTransition
    <3>2. ASSUME CheckTransition(r)
          PROVE  MayTransition(req'[r].from, req'[r].to)
      <4>1. req[r] \in TransitionRequest
        BY <1>0, <3>2, RequestFields DEF CheckTransition
      <4>2. req'[r].from = req[r].from /\ req'[r].to = req[r].to
        BY <1>0, <3>2, <4>1 DEF CheckTransition, TransitionRequest
      <4> QED BY <1>0, <3>2, <4>2 DEF CheckTransition
    <3>3. (\E to \in ExecutionTargets : BeginTransition(r, to)) \/ CheckTransition(r)
      BY <1>0, <1>1, <1>5, <2>2, TransitionsBegin
    <3> QED BY <2>2, <3>1, <3>2, <3>3
  <2> QED BY <2>1, <2>2
<1> QED BY <1>4, <1>5 DEF ReceiptInv

\* The order of a completed fulfillment was received or completed, for any requests and
\* tasks, and only a transition that replaced a status it had not read takes it elsewhere.
THEOREM CompletesReceived == OrderHistSpec => []CompletedAfterReceipt
<1>1. OrderHistInit => ReceiptInv
  <2> SUFFICES ASSUME OrderHistInit PROVE ReceiptInv
    OBVIOUS
  <2>1. /\ FulfillmentInv /\ \A r \in Requests : req[r].op = "idle"
        /\ record.status = "ABSENT"
    BY FulfillmentInductive DEF OrderHistInit, Init, ExecInit, Idle, NoRecord
  <2> QED BY <2>1 DEF ReceiptInv, Received, Examining
<1>2. ReceiptInv /\ [OrderHistNext]_<<vars, overwritten>> => ReceiptInv'
  <2>1. ASSUME ReceiptInv, UNCHANGED <<vars, overwritten>> PROVE ReceiptInv'
    <3>1. FulfillmentInv /\ UNCHANGED vars /\ UNCHANGED <<execution, record, req, overwritten>>
      BY <2>1 DEF ReceiptInv, vars
    <3>2. FulfillmentInv'
      BY <3>1, FulfillmentInductive
    <3> QED BY <2>1, <3>1, <3>2 DEF ReceiptInv, Received
  <2>2. ReceiptInv /\ OrderHistNext => ReceiptInv'
    BY FulfillmentInductive, ReceiptStep DEF ReceiptInv, OrderHistNext
  <2> QED BY <2>1, <2>2
<1>3. ReceiptInv => CompletedAfterReceipt
  BY DEF ReceiptInv, Received, CompletedAfterReceipt
<1> QED BY <1>1, <1>2, <1>3, PTL DEF OrderHistSpec

=============================================================================
