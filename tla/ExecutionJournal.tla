--------------------------- MODULE ExecutionJournal ---------------------------
(***************************************************************************)
(* OrderExecution with its audit trail, the rows of                        *)
(* relational_order_execution_events.                                      *)
(***************************************************************************)
EXTENDS OrderExecution

VARIABLE
    journal     \* the <<previousStatus, nextStatus>> of the events; equal rows are one

journalVars == <<execution, record, req, journal>>

\* The statuses the order has ever been in, by its journal.
Reached == {"CREATED"} \cup {e[2] : e \in journal}

JournalInit == ExecInit /\ journal = {}

\* Mutant: previousStatus is the status found at the commit.
JournalCommitFound(r) ==
    /\ CommitTransition(r)
    /\ journal' = journal \cup {<<execution, req[r].to>>}

\* The event is created by the transaction that updates the order, with the
\* statuses the request read and asked for.
JournalCommit(r) ==
    /\ CommitTransition(r)
    /\ journal' = journal \cup {<<req[r].from, req[r].to>>}

JournalStep(r) ==
    \/ /\ \/ \E to \in ExecutionTargets : BeginTransition(r, to)
          \/ CheckTransition(r)
          \/ Fail(r)
       /\ UNCHANGED journal
    \/ JournalCommit(r)

JournalNext == \E r \in Requests : JournalStep(r)

JournalSpec == JournalInit /\ [][JournalNext]_journalVars

-----------------------------------------------------------------------------
\* The journal's events are pairs of statuses.
JournalTypeOK == ExecTypeOK /\ journal \subseteq ExecutionStatus \X ExecutionStatus

\* However transitions race and overwrite one another, the journal explains the
\* order: its status is one the journal reaches, and every event leaves a status
\* the order has been in along an edge of the policy.
JournalExplainsStatus ==
    /\ execution \in Reached
    /\ \A e \in journal : e[1] \in Reached /\ MayTransition(e[1], e[2])

\* RECEIVED is never reached without the whole linear chain before it, in whatever
\* order late transitions were applied (relational-order-execution.md, "Lifecycle").
ReceivedThroughChain ==
    "RECEIVED" \in Reached => BeforeArrival \cup {"ARRIVED"} \subseteq Reached

\* An order that was ever ready for dispatch has its fulfillment record, even if a
\* racing transition has moved it elsewhere since.
DispatchHasRecord ==
    Reached \cap (EnsureFulfillment \cup {"IN_TRANSIT", "ARRIVED", "RECEIVED"}) # {} =>
        record # NoRecord

=============================================================================
