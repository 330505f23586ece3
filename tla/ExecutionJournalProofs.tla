------------------------ MODULE ExecutionJournalProofs ------------------------
(***************************************************************************)
(* The theorems of ExecutionJournal: for every set of requests and of      *)
(* targets, the journal explains the order's status.  The invariant that   *)
(* makes it inductive is about requests in flight: each holds a <<from,    *)
(* to>> whose from the order has been in, and which the policy allows.     *)
(***************************************************************************)
EXTENDS ExecutionJournal, TLAPS

\* What a request holds is an edge of the policy out of a status already reached.
RequestsExplained ==
    \A r \in Requests : req[r] # Idle =>
        req[r].from \in Reached /\ MayTransition(req[r].from, req[r].to)

\* The part of DispatchHasRecord that a step preserves by itself.
EnsuredWhenReached == Reached \cap EnsureFulfillment # {} => record # NoRecord

JournalInv ==
    /\ JournalTypeOK
    /\ JournalExplainsStatus
    /\ RequestsExplained
    /\ EnsuredWhenReached

-----------------------------------------------------------------------------
\* What each of the four kinds of step does to one request, with the types it needs.
LEMMA NoRecordIsNotNew == NoRecord # NewRecord
<1>1. NoRecord.status = "ABSENT" /\ NewRecord.status = "PREPARING_FULFILLMENT"
    BY DEF NoRecord, NewRecord
<1> QED BY <1>1

\* A request that is not idle is a transition between two statuses.
LEMMA HeldRequest ==
    ASSUME ExecTypeOK, NEW r \in Requests, req[r] # Idle
    PROVE  /\ req[r] \in TransitionRequest
           /\ req[r].from \in ExecutionStatus
           /\ req[r].to \in ExecutionStatus
<1>1. req[r] \in TransitionRequest BY DEF ExecTypeOK
<1> QED BY <1>1 DEF TransitionRequest

\* The record a commit leaves is absent or new, and present if it ought to be.
LEMMA EnsuredRecordFacts ==
    ASSUME ExecTypeOK, NEW to \in ExecutionStatus
    PROVE  /\ EnsuredRecord(to) \in {NoRecord, NewRecord}
           /\ record # NoRecord => EnsuredRecord(to) = record
           /\ to \in EnsureFulfillment => EnsuredRecord(to) # NoRecord
BY NoRecordIsNotNew DEF ExecTypeOK, EnsuredRecord

-----------------------------------------------------------------------------
\* The invariant holds of a new order.
LEMMA JournalInitially == JournalInit => JournalInv
<1> SUFFICES ASSUME JournalInit PROVE JournalInv
    OBVIOUS
<1> USE DEF JournalInit, ExecInit
<1>1. Reached = {"CREATED"} BY DEF Reached
<1>2. JournalTypeOK BY DEF JournalTypeOK, ExecTypeOK, ExecutionStatus
<1>3. JournalExplainsStatus BY <1>1 DEF JournalExplainsStatus
<1>4. RequestsExplained BY DEF RequestsExplained
<1>5. EnsuredWhenReached BY <1>1 DEF EnsuredWhenReached, EnsureFulfillment
<1> QED BY <1>2, <1>3, <1>4, <1>5 DEF JournalInv

\* A step that writes nothing to the database keeps everything but the requests.
LEMMA QuietStep ==
    ASSUME JournalInv, UNCHANGED <<execution, record, journal>>,
           NEW r \in Requests, NEW q,
           q = Idle \/ /\ q \in TransitionRequest
                       /\ q.from \in Reached
                       /\ MayTransition(q.from, q.to),
           req' = [req EXCEPT ![r] = q]
    PROVE  JournalInv'
<1>1. Reached' = Reached BY DEF Reached
<1>2. JournalTypeOK'
    BY DEF JournalInv, JournalTypeOK, ExecTypeOK
<1>3. JournalExplainsStatus'
    BY <1>1 DEF JournalInv, JournalExplainsStatus, MayTransition
<1>4. RequestsExplained'
    BY <1>1 DEF JournalInv, JournalTypeOK, ExecTypeOK, RequestsExplained, MayTransition
<1>5. EnsuredWhenReached'
    BY <1>1 DEF JournalInv, EnsuredWhenReached
<1> QED BY <1>2, <1>3, <1>4, <1>5 DEF JournalInv

\* A commit adds its own edge to the journal and ends its request.
LEMMA CommitKeeps ==
    ASSUME JournalInv, NEW r \in Requests, JournalCommit(r)
    PROVE  JournalInv'
<1> DEFINE from == req[r].from
           to == req[r].to
<1>1. req[r] # Idle BY DEF JournalCommit, CommitTransition, Idle
<1>2. from \in ExecutionStatus /\ to \in ExecutionStatus
    BY <1>1, HeldRequest DEF JournalInv, JournalTypeOK
<1>3. from \in Reached /\ MayTransition(from, to)
    BY <1>1 DEF JournalInv, RequestsExplained
<1>4. /\ execution' = to
      /\ record' = EnsuredRecord(to)
      /\ req' = [req EXCEPT ![r] = Idle]
      /\ journal' = journal \cup {<<from, to>>}
    BY DEF JournalCommit, CommitTransition
<1> HIDE DEF from, to
<1>5. Reached' = Reached \cup {to}
    <2>1. <<from, to>>[2] = to OBVIOUS
    <2>2. \A x : x \in Reached' <=> x \in Reached \/ x = to
        BY <1>4, <2>1 DEF Reached
    <2> QED BY <2>2
<1>6. JournalTypeOK'
    BY <1>2, <1>4, EnsuredRecordFacts DEF JournalInv, JournalTypeOK, ExecTypeOK
<1>7. JournalExplainsStatus'
    BY <1>3, <1>4, <1>5 DEF JournalInv, JournalExplainsStatus, MayTransition
<1>8. RequestsExplained'
    BY <1>4, <1>5 DEF JournalInv, JournalTypeOK, ExecTypeOK, RequestsExplained, MayTransition
<1>9. EnsuredWhenReached'
    BY <1>2, <1>4, <1>5, EnsuredRecordFacts
    DEF JournalInv, JournalTypeOK, EnsuredWhenReached
<1> QED BY <1>6, <1>7, <1>8, <1>9 DEF JournalInv

\* Every step preserves the invariant.
LEMMA JournalInductive == JournalInv /\ [JournalNext]_journalVars => JournalInv'
<1> SUFFICES ASSUME JournalInv, [JournalNext]_journalVars PROVE JournalInv'
    OBVIOUS
<1>1. CASE UNCHANGED journalVars
    BY <1>1 DEF journalVars, JournalInv, JournalTypeOK, ExecTypeOK, JournalExplainsStatus,
                RequestsExplained, EnsuredWhenReached, Reached, MayTransition
<1>2. ASSUME NEW r \in Requests, NEW to \in ExecutionTargets,
             BeginTransition(r, to), UNCHANGED journal
      PROVE  JournalInv'
    <2> DEFINE q == [op |-> "transition", from |-> execution, to |-> to]
    <2>1. q \in TransitionRequest
        BY TargetsAssumption DEF JournalInv, JournalTypeOK, ExecTypeOK, TransitionRequest
    <2>2. q.from \in Reached /\ MayTransition(q.from, q.to)
        BY <1>2 DEF BeginTransition, JournalInv, JournalExplainsStatus
    <2>3. req' = [req EXCEPT ![r] = q] /\ UNCHANGED <<execution, record, journal>>
        BY <1>2 DEF BeginTransition
    <2> HIDE DEF q
    <2> QED BY <2>1, <2>2, <2>3, QuietStep
<1>3. ASSUME NEW r \in Requests, CheckTransition(r), UNCHANGED journal
      PROVE  JournalInv'
    <2> DEFINE q == [req[r] EXCEPT !.op = "transitionChecked"]
    <2>1. req[r] # Idle BY <1>3 DEF CheckTransition, Idle
    <2>2. req[r] \in TransitionRequest BY <2>1, HeldRequest DEF JournalInv, JournalTypeOK
    <2>3. q \in TransitionRequest /\ q.from = req[r].from /\ q.to = req[r].to
        BY <2>2 DEF TransitionRequest
    <2>4. q.from \in Reached /\ MayTransition(q.from, q.to)
        BY <2>1, <2>3 DEF JournalInv, RequestsExplained
    <2>5. req' = [req EXCEPT ![r] = q] /\ UNCHANGED <<execution, record, journal>>
        BY <1>3 DEF CheckTransition
    <2> HIDE DEF q
    <2> QED BY <2>3, <2>4, <2>5, QuietStep
<1>4. ASSUME NEW r \in Requests, Fail(r), UNCHANGED journal
      PROVE  JournalInv'
    BY <1>4, QuietStep DEF Fail
<1>5. ASSUME NEW r \in Requests, JournalCommit(r)
      PROVE  JournalInv'
    BY <1>5, CommitKeeps
<1> QED BY <1>1, <1>2, <1>3, <1>4, <1>5 DEF JournalNext, JournalStep

\* The invariant holds throughout.
THEOREM JournalAlways == JournalSpec => []JournalInv
<1>1. JournalInit => JournalInv BY JournalInitially
<1>2. JournalInv /\ [JournalNext]_journalVars => JournalInv' BY JournalInductive
<1> QED BY <1>1, <1>2, PTL DEF JournalSpec

-----------------------------------------------------------------------------
\* A status of the chain is reached only through its predecessor.
LEMMA Predecessor ==
    ASSUME JournalInv, NEW s \in Reached, s # "CREATED"
    PROVE  \E p \in Reached : MayTransition(p, s)
<1>1. PICK e \in journal : s = e[2] BY DEF Reached
<1> QED BY <1>1 DEF JournalInv, JournalExplainsStatus

\* Going back from RECEIVED one edge at a time meets every status of the chain.
LEMMA ChainToReceived ==
    ASSUME JournalInv
    PROVE  /\ "RECEIVED" \in Reached => "ARRIVED" \in Reached
           /\ "ARRIVED" \in Reached => "IN_TRANSIT" \in Reached
           /\ "IN_TRANSIT" \in Reached => "DISPATCHED" \in Reached
           /\ "DISPATCHED" \in Reached => "READY_FOR_DISPATCH" \in Reached
           /\ "READY_FOR_DISPATCH" \in Reached => "PREPARING" \in Reached
<1>1. \A p : /\ MayTransition(p, "RECEIVED") => p = "ARRIVED"
             /\ MayTransition(p, "ARRIVED") => p = "IN_TRANSIT"
             /\ MayTransition(p, "IN_TRANSIT") => p = "DISPATCHED"
             /\ MayTransition(p, "DISPATCHED") => p = "READY_FOR_DISPATCH"
             /\ MayTransition(p, "READY_FOR_DISPATCH") => p = "PREPARING"
    <2> TAKE p
    <2> DEFINE edge(s) == <<p, s>> \in LinearChain \cup Exceptions
    <2>1. edge("RECEIVED") => p = "ARRIVED" BY DEF LinearChain, Exceptions
    <2>2. edge("ARRIVED") => p = "IN_TRANSIT" BY DEF LinearChain, Exceptions
    <2>3. edge("IN_TRANSIT") => p = "DISPATCHED" BY DEF LinearChain, Exceptions
    <2>4. edge("DISPATCHED") => p = "READY_FOR_DISPATCH" BY DEF LinearChain, Exceptions
    <2>5. edge("READY_FOR_DISPATCH") => p = "PREPARING" BY DEF LinearChain, Exceptions
    <2> QED BY <2>1, <2>2, <2>3, <2>4, <2>5 DEF MayTransition
<1>2. \A s \in Reached : s # "CREATED" => \E p \in Reached : MayTransition(p, s)
    BY Predecessor
<1> QED BY <1>1, <1>2

\* However transitions race, the types hold (relational-order-execution.service).
THEOREM JournalTypeCorrect == JournalSpec => []JournalTypeOK
<1>1. JournalInv => JournalTypeOK BY DEF JournalInv
<1> QED BY <1>1, JournalAlways, PTL

\* However transitions race, the journal explains the order's status: every event
\* leaves a status the order has been in along an edge of the policy.
THEOREM JournalExplains == JournalSpec => []JournalExplainsStatus
<1>1. JournalInv => JournalExplainsStatus BY DEF JournalInv
<1> QED BY <1>1, JournalAlways, PTL

\* No order is ever received without the whole chain before it in its journal.
THEOREM ReceivedOnlyThroughChain == JournalSpec => []ReceivedThroughChain
<1>1. ASSUME JournalInv, "RECEIVED" \in Reached
      PROVE  BeforeArrival \cup {"ARRIVED"} \subseteq Reached
    <2>1. "CREATED" \in Reached BY DEF Reached
    <2> QED BY <1>1, <2>1, ChainToReceived DEF BeforeArrival
<1>2. JournalInv => ReceivedThroughChain BY <1>1 DEF ReceivedThroughChain
<1> QED BY <1>2, JournalAlways, PTL

\* An order that was ever ready for dispatch has its fulfillment record.
THEOREM DispatchAlwaysHasRecord == JournalSpec => []DispatchHasRecord
<1>1. ASSUME JournalInv,
             Reached \cap (EnsureFulfillment \cup {"IN_TRANSIT", "ARRIVED", "RECEIVED"}) # {}
      PROVE  record # NoRecord
    <2>1. "READY_FOR_DISPATCH" \in Reached \/ "DISPATCHED" \in Reached
        BY <1>1, ChainToReceived DEF EnsureFulfillment
    <2> QED BY <1>1, <2>1 DEF JournalInv, EnsuredWhenReached, EnsureFulfillment
<1>2. JournalInv => DispatchHasRecord BY <1>1 DEF DispatchHasRecord
<1> QED BY <1>2, JournalAlways, PTL

=============================================================================
