----------------------------- MODULE ScenarioReview -----------------------------
(***************************************************************************)
(* The review boards of one simulation (RelationalScenarioReviewService):   *)
(* the ingestion opens one, the two organizations of the relationship       *)
(* approve, reject, send back to analysis, archive and validate as          *)
(* executives.                                                              *)
(*                                                                         *)
(* Every call reads its board, answers its checks from that reading, and    *)
(* then writes in a transaction: a decision only where the status is still  *)
(* the one it read, an executive validation always.  call[c] holds the      *)
(* reading in between.                                                      *)
(*                                                                         *)
(* The corridor, the risk scores and the plans already open can refuse an   *)
(* approval: it is then a call nobody makes.  attachOrchestrationDecision   *)
(* has no caller, nothing expires a review, and both are left out.          *)
(***************************************************************************)
EXTENDS Naturals, FiniteSets

CONSTANTS
    Boards,         \* bound: the boards the ingestion may open
    Calls,          \* bound: the calls in progress at the same time
    Organizations,  \* the participants
    Nobody,         \* no organization has approved first
    MaxDecisions    \* bound: the decisions written

ASSUME NobodyAssumption == Nobody \notin Organizations

ASSUME DecisionsAssumption == MaxDecisions \in Nat

VARIABLES
    dual,   \* the simulation's type is one of those that require a dual validation
    board,  \* board[b]: the row, or NoBoard
    events, \* events[b]: what the rows of the board's journal say
    call,   \* call[c]: what a call has read
    \* what has happened, for the bound and the properties:
    decisions,
    beside, \* a board was opened beside a creation in progress, or reopened beside an open board
    erased  \* boards whose first approval an executive validation overwrote

reviewVars == <<dual, board, events, call, decisions, beside, erased>>

OpenReview == {"PENDING_REVIEW", "UNDER_ANALYSIS", "PARTIALLY_APPROVED"}

TerminalReview == {"APPROVED", "REJECTED", "ARCHIVED"}

ReviewStatus == OpenReview \cup TerminalReview

\* What the code reads of a board's metadata.
Metadata == [first : Organizations \cup {Nobody}, executiveValidated : BOOLEAN]

NoBoard == [status |-> "none"]

Board == [status : ReviewStatus, meta : Metadata, executive : BOOLEAN, planned : BOOLEAN]

\* The journal: the nextStatus of the last decision, whether each decision's previousStatus is
\* the nextStatus of the one before it, whose approvals it holds, and whether it holds an escalation.
Journal == [last : ReviewStatus, linked : BOOLEAN, approvedBy : SUBSET Organizations, escalated : BOOLEAN]

Idle == [at |-> "idle"]

Kind == {"approve", "reject", "reevaluate", "archive", "validate"}

Existing == {b \in Boards : board[b] # NoBoard}

Open == {b \in Existing : board[b].status \in OpenReview}

Init ==
    /\ dual \in BOOLEAN
    /\ board = [b \in Boards |-> NoBoard]
    /\ events = [b \in Boards |-> NoBoard]
    /\ call = [c \in Calls |-> Idle]
    /\ decisions = 0
    /\ beside = FALSE
    /\ erased = {}

-----------------------------------------------------------------------------
(* createReviewFromSimulation. *)

\* Mutant: the open boards are not looked for.
CreatableAlways == TRUE

Creatable == Open = {}

CreateRead(c) ==
    /\ call[c] = Idle
    /\ Creatable
    /\ call' = [call EXCEPT ![c] = [at |-> "create"]]
    /\ UNCHANGED <<dual, board, events, decisions, beside, erased>>

CreateWrite(c) ==
    /\ call[c].at = "create"
    /\ \E b \in Boards \ Existing, executive \in BOOLEAN :
          /\ board' = [board EXCEPT ![b] =
                [status |-> "PENDING_REVIEW", executive |-> executive, planned |-> FALSE,
                 meta |-> [first |-> Nobody, executiveValidated |-> FALSE]]]
          /\ events' = [events EXCEPT ![b] =
                [last |-> "PENDING_REVIEW", linked |-> TRUE, approvedBy |-> {}, escalated |-> FALSE]]
    /\ beside' = (beside \/ \E d \in Calls \ {c} : call[d].at = "create")
    /\ call' = [call EXCEPT ![c] = Idle]
    /\ UNCHANGED <<dual, decisions, erased>>

-----------------------------------------------------------------------------
(* Decisions. *)

\* The checks of approveReview on the row it has read.
ApprovableByAnyone(row, o) ==
    /\ row.status \notin TerminalReview
    /\ row.executive => row.meta.executiveValidated

Approvable(row, o) ==
    /\ row.status \notin TerminalReview
    /\ row.executive => row.meta.executiveValidated
    /\ dual /\ row.status = "PARTIALLY_APPROVED" => row.meta.first # o

\* Archiving, sending back and validating refuse no status.
Admitted(kind, row, o) ==
    CASE kind = "approve" -> Approvable(row, o)
      [] kind = "reject" -> row.status \notin TerminalReview
      [] OTHER -> TRUE

\* What the call goes on with: only an approval and a validation use the metadata again, and
\* only an approval its organization.
Reading(b, kind, o) ==
    CASE kind = "approve" -> [at |-> kind, on |-> b, status |-> board[b].status, meta |-> board[b].meta, by |-> o]
      [] kind = "validate" -> [at |-> kind, on |-> b, meta |-> board[b].meta]
      [] OTHER -> [at |-> kind, on |-> b, status |-> board[b].status]

DecisionRead(c, b, kind, o) ==
    /\ call[c] = Idle
    /\ board[b] # NoBoard
    /\ Admitted(kind, board[b], o)
    /\ call' = [call EXCEPT ![c] = Reading(b, kind, o)]
    /\ UNCHANGED <<dual, board, events, decisions, beside, erased>>

First(seen) == dual /\ seen.status = "PENDING_REVIEW"

NextStatus(seen) ==
    CASE seen.at = "approve" -> IF First(seen) THEN "PARTIALLY_APPROVED" ELSE "APPROVED"
      [] seen.at = "reject" -> "REJECTED"
      [] seen.at = "reevaluate" -> "UNDER_ANALYSIS"
      [] seen.at = "archive" -> "ARCHIVED"

\* The metadata an approval writes is the one it has read, with its own mark on it.
NextMetadata(seen, meta) ==
    IF seen.at # "approve" THEN meta
    ELSE IF First(seen) THEN [seen.meta EXCEPT !.first = seen.by]
    ELSE seen.meta

\* updateMany where the status is the one read: no row, and the call fails.
\* Mutant: the update is by the id alone.
UnmovedAlways(seen) == TRUE

Unmoved(seen) == board[seen.on].status = seen.status

Recorded(journal, seen) ==
    [last |-> NextStatus(seen),
     linked |-> journal.linked /\ seen.status = journal.last,
     approvedBy |-> IF seen.at = "approve" THEN journal.approvedBy \cup {seen.by} ELSE journal.approvedBy,
     escalated |-> journal.escalated \/ seen.at = "reevaluate"]

DecisionWrite(c) ==
    /\ call[c].at \in Kind \ {"validate"}
    /\ LET seen == call[c]
           b == seen.on
           reopens == NextStatus(seen) \in OpenReview /\ b \notin Open
       IN IF Unmoved(seen)
          THEN /\ decisions < MaxDecisions
               /\ decisions' = decisions + 1
               /\ board' = [board EXCEPT ![b].status = NextStatus(seen), ![b].meta = NextMetadata(seen, @)]
               /\ events' = [events EXCEPT ![b] = Recorded(@, seen)]
               /\ beside' = (beside \/ (reopens /\ (Open # {} \/ \E d \in Calls : call[d].at = "create")))
               /\ call' = [call EXCEPT ![c] =
                     IF NextStatus(seen) = "APPROVED" /\ ~board[b].planned THEN [at |-> "attach", on |-> b] ELSE Idle]
          ELSE /\ call' = [call EXCEPT ![c] = Idle]
               /\ UNCHANGED <<board, events, decisions, beside>>
    /\ UNCHANGED <<dual, erased>>

\* After the transaction an approved board is given a plan, whatever has become of it, if
\* the orchestration finds one to make.
Attach(c) ==
    /\ call[c].at = "attach"
    /\ \E made \in BOOLEAN :
          board' = [board EXCEPT ![call[c].on].planned = @ \/ made]
    /\ call' = [call EXCEPT ![c] = Idle]
    /\ UNCHANGED <<dual, events, decisions, beside, erased>>

\* requestExecutiveValidation: the metadata read, marked and written back unconditionally; the
\* event it adds changes no status.
ValidationWrite(c) ==
    /\ call[c].at = "validate"
    /\ LET b == call[c].on
           meta == [call[c].meta EXCEPT !.executiveValidated = TRUE] IN
         /\ board' = [board EXCEPT ![b].meta = meta]
         /\ erased' = IF meta.first # board[b].meta.first THEN erased \cup {b} ELSE erased
    /\ call' = [call EXCEPT ![c] = Idle]
    /\ UNCHANGED <<dual, events, decisions, beside>>

-----------------------------------------------------------------------------

Next ==
    \E c \in Calls :
        \/ CreateRead(c)
        \/ CreateWrite(c)
        \/ \E b \in Boards, kind \in Kind, o \in Organizations : DecisionRead(c, b, kind, o)
        \/ DecisionWrite(c)
        \/ Attach(c)
        \/ ValidationWrite(c)

Spec == Init /\ [][Next]_reviewVars

-----------------------------------------------------------------------------
(* Properties. *)

\* Whatever decisions overlap, each board's journal is one chain of decisions and ends at the
\* status of the board.
JournalExplainsReview ==
    \A b \in Existing : events[b].linked /\ events[b].last = board[b].status

\* An approved board has the executive validation its creation asked for and, for a dual
\* validation, the approvals of both organizations, unless it was sent back to analysis or an
\* executive validation overwrote its first approval.
ApprovedAsRequired ==
    \A b \in Existing : board[b].status = "APPROVED" =>
        /\ board[b].executive => board[b].meta.executiveValidated
        /\ dual => \/ Cardinality(events[b].approvedBy) > 1
                   \/ events[b].escalated
                   \/ b \in erased

\* A simulation has one open board, unless two creations overlapped or a closed board was
\* sent back to analysis beside another.
OneOpenBoard == beside \/ Cardinality(Open) <= 1

\* What the documentation says of the dual validation.
TwoOrganizationsApprove ==
    \A b \in Existing : dual /\ board[b].status = "APPROVED" => Cardinality(events[b].approvedBy) > 1

=============================================================================
