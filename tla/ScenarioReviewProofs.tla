-------------------------- MODULE ScenarioReviewProofs --------------------------
(***************************************************************************)
(* The theorems of ScenarioReview, for any boards, calls and organizations. *)
(*                                                                         *)
(* What has to be strengthened is what the calls in progress have read: a   *)
(* decision whose status is still the one read must be as good as one that  *)
(* reads now, although the metadata it carries may be old (CallsCurrent).   *)
(***************************************************************************)
EXTENDS ScenarioReview, FiniteSetTheorems, TLAPS

\* The states of a call.
ApproveReading ==
    [at : {"approve"}, on : Boards, status : ReviewStatus, meta : Metadata, by : Organizations]

ValidateReading == [at : {"validate"}, on : Boards, meta : Metadata]

OtherReading == [at : {"reject", "reevaluate", "archive"}, on : Boards, status : ReviewStatus]

Attaching == [at : {"attach"}, on : Boards]

CallState ==
    {Idle, [at |-> "create"]} \cup ApproveReading \cup ValidateReading \cup OtherReading \cup Attaching

ReviewTypeOK ==
    /\ dual \in BOOLEAN
    /\ board \in [Boards -> Board \cup {NoBoard}]
    /\ events \in [Boards -> Journal \cup {NoBoard}]
    /\ call \in [Calls -> CallState]
    /\ beside \in BOOLEAN
    /\ erased \subseteq Boards

\* A board has its journal, whose approvals are finitely many, and a call is about a board there is.
BoardsJournalled == \A b \in Existing : events[b] \in Journal /\ IsFiniteSet(events[b].approvedBy)

CallsHeld == \A c \in Calls : call[c].at \in Kind \cup {"attach"} => call[c].on \in Existing

Creating == {c \in Calls : call[c].at = "create"}

\* One open board, said without counting, and none beside a creation in progress.
AtMostOneOpen ==
    beside \/ ((Creating # {} => Open = {}) /\ \A a, b \in Open : a = b)

\* Nothing has happened to b that lets a dual validation be got around.
Regular(b) == dual /\ ~events[b].escalated /\ b \notin erased

\* The approvals a regular board owes its status, and the executive validation.
ApprovalsOwed ==
    \A b \in Existing :
        /\ board[b].status = "UNDER_ANALYSIS" => events[b].escalated
        /\ Regular(b) /\ board[b].status = "PARTIALLY_APPROVED" => board[b].meta.first \in events[b].approvedBy
        /\ Regular(b) /\ board[b].status = "APPROVED" =>
              \E o, p \in events[b].approvedBy : o # p
        /\ board[b].status = "APPROVED" /\ board[b].executive => board[b].meta.executiveValidated

\* An approval in progress was admitted; if its status is still the board's, so is the first
\* approval it has read, and a board not decided yet was never read otherwise.
CallsCurrent ==
    \A c \in Calls : call[c].at = "approve" =>
        LET b == call[c].on IN
        /\ call[c].status \notin TerminalReview
        /\ board[b].executive => call[c].meta.executiveValidated
        /\ dual /\ call[c].status = "PARTIALLY_APPROVED" => call[c].meta.first # call[c].by
        /\ board[b].status = "PENDING_REVIEW" => call[c].status = "PENDING_REVIEW"
        /\ Regular(b) /\ board[b].status = "PARTIALLY_APPROVED" /\ call[c].status = "PARTIALLY_APPROVED"
              => call[c].meta.first = board[b].meta.first

ReviewInv ==
    /\ ReviewTypeOK
    /\ BoardsJournalled
    /\ CallsHeld
    /\ JournalExplainsReview
    /\ AtMostOneOpen
    /\ ApprovalsOwed
    /\ CallsCurrent

-----------------------------------------------------------------------------
\* The states of a call are told apart by the step they are at.
LEMMA CallFacts ==
    ASSUME ReviewTypeOK, NEW c \in Calls
    PROVE  /\ call[c].at = "approve" => call[c] \in ApproveReading
           /\ call[c].at = "validate" => call[c] \in ValidateReading
           /\ call[c].at \in {"reject", "reevaluate", "archive"} => call[c] \in OtherReading
           /\ call[c].at = "attach" => call[c] \in Attaching
BY DEF ReviewTypeOK, CallState, Idle, ApproveReading, ValidateReading, OtherReading, Attaching

\* A board there is, and what its row holds.
LEMMA BoardFacts ==
    ASSUME ReviewTypeOK, NEW b \in Boards
    PROVE  /\ b \in Existing <=> board[b] \in Board
           /\ b \in Existing => /\ board[b].status \in ReviewStatus
                                /\ board[b].meta \in Metadata
                                /\ board[b].executive \in BOOLEAN
<1>1. NoBoard \notin Board
  BY DEF NoBoard, Board, ReviewStatus, OpenReview, TerminalReview
<1> QED BY <1>1 DEF ReviewTypeOK, Existing, Board

\* The invariant holds before the first review.
LEMMA ReviewInitially == Init => ReviewInv
<1> SUFFICES ASSUME Init PROVE ReviewInv
  OBVIOUS
<1>1. Existing = {} /\ Open = {}
  BY DEF Init, Existing, Open
<1>2. ReviewTypeOK
  BY DEF Init, ReviewTypeOK, CallState
<1>3. \A c \in Calls : call[c].at = "idle"
  BY DEF Init, Idle
<1>4. CallsHeld /\ CallsCurrent
  BY <1>3 DEF CallsHeld, CallsCurrent, Kind
<1> QED
  BY <1>1, <1>2, <1>4 DEF ReviewInv, BoardsJournalled, JournalExplainsReview, AtMostOneOpen, ApprovalsOwed

\* A call that only changes what it holds itself, to something the invariant allows.
LEMMA OneCallChanges ==
    ASSUME ReviewInv, NEW c \in Calls, NEW q \in CallState,
           call' = [call EXCEPT ![c] = q],
           UNCHANGED <<dual, board, events, beside, erased>>,
           q.at \in Kind \cup {"attach"} => q.on \in Existing,
           q.at = "create" => Open = {},
           q.at = "approve" =>
             /\ q.status \notin TerminalReview
             /\ board[q.on].executive => q.meta.executiveValidated
             /\ dual /\ q.status = "PARTIALLY_APPROVED" => q.meta.first # q.by
             /\ q.status = board[q.on].status
             /\ q.meta = board[q.on].meta
    PROVE  ReviewInv'
<1>1. Existing' = Existing /\ Open' = Open
  BY DEF Existing, Open
<1>2. \A d \in Calls : call'[d] = IF d = c THEN q ELSE call[d]
  BY DEF ReviewInv, ReviewTypeOK
<1>3. ReviewTypeOK'
  BY DEF ReviewInv, ReviewTypeOK
<1>4. BoardsJournalled' /\ JournalExplainsReview'
  BY <1>1 DEF ReviewInv, BoardsJournalled, JournalExplainsReview
<1>5. CallsHeld'
  BY <1>1, <1>2 DEF ReviewInv, CallsHeld
<1>6. AtMostOneOpen'
  <2>1. Creating' # {} => Creating # {} \/ q.at = "create"
    BY <1>2 DEF Creating
  <2> QED BY <1>1, <2>1 DEF ReviewInv, AtMostOneOpen
<1>7. ApprovalsOwed'
  BY <1>1 DEF ReviewInv, ApprovalsOwed, Regular
<1>8. CallsCurrent'
  <2> SUFFICES ASSUME NEW d \in Calls, call'[d].at = "approve"
               PROVE  LET b == call'[d].on IN
                      /\ call'[d].status \notin TerminalReview
                      /\ board[b].executive => call'[d].meta.executiveValidated
                      /\ dual /\ call'[d].status = "PARTIALLY_APPROVED" => call'[d].meta.first # call'[d].by
                      /\ board[b].status = "PENDING_REVIEW" => call'[d].status = "PENDING_REVIEW"
                      /\ Regular(b) /\ board[b].status = "PARTIALLY_APPROVED" /\ call'[d].status = "PARTIALLY_APPROVED"
                            => call'[d].meta.first = board[b].meta.first
    BY DEF CallsCurrent, Regular
  <2>1. CASE d = c
    BY <2>1, <1>2
  <2>2. CASE d # c
    BY <2>2, <1>2 DEF ReviewInv, CallsCurrent
  <2> QED BY <2>1, <2>2
<1> QED BY <1>3, <1>4, <1>5, <1>6, <1>7, <1>8 DEF ReviewInv

LEMMA CreateReadKeeps ==
    ASSUME ReviewInv, NEW c \in Calls, CreateRead(c)
    PROVE  ReviewInv'
<1> DEFINE q == [at |-> "create"]
<1>1. q \in CallState /\ q.at = "create"
  BY DEF CallState
<1>2. q.at \notin Kind \cup {"attach"} /\ q.at # "approve"
  BY DEF Kind
<1>3. call' = [call EXCEPT ![c] = q] /\ Open = {} /\ UNCHANGED <<dual, board, events, beside, erased>>
  BY DEF CreateRead, Creatable
<1> HIDE DEF q
<1> QED BY <1>1, <1>2, <1>3, OneCallChanges

LEMMA DecisionReadKeeps ==
    ASSUME ReviewInv, NEW c \in Calls, NEW b \in Boards, NEW kind \in Kind, NEW o \in Organizations,
           DecisionRead(c, b, kind, o)
    PROVE  ReviewInv'
<1> DEFINE q == Reading(b, kind, o)
<1>1. b \in Existing /\ board[b] \in Board
  BY BoardFacts DEF ReviewInv, DecisionRead, Existing
<1>2. board[b].status \in ReviewStatus /\ board[b].meta \in Metadata
  BY <1>1 DEF Board
<1>3. q \in CallState /\ q.on = b /\ q.at = kind
  <2>1. CASE kind = "approve"
    BY <1>2, <2>1 DEF Reading, CallState, ApproveReading
  <2>2. CASE kind = "validate"
    BY <1>2, <2>2 DEF Reading, CallState, ValidateReading
  <2>3. CASE kind \in {"reject", "reevaluate", "archive"}
    BY <1>2, <2>3 DEF Reading, CallState, OtherReading
  <2> QED BY <2>1, <2>2, <2>3 DEF Kind
<1>4. ASSUME kind = "approve"
      PROVE  /\ q.status \notin TerminalReview
             /\ board[q.on].executive => q.meta.executiveValidated
             /\ dual /\ q.status = "PARTIALLY_APPROVED" => q.meta.first # q.by
             /\ q.status = board[q.on].status
             /\ q.meta = board[q.on].meta
  <2>1. q = [at |-> kind, on |-> b, status |-> board[b].status, meta |-> board[b].meta, by |-> o]
    BY <1>4 DEF Reading
  <2>2. Approvable(board[b], o)
    BY <1>4 DEF DecisionRead, Admitted
  <2> QED BY <2>1, <2>2 DEF Approvable
<1>5. call' = [call EXCEPT ![c] = q] /\ UNCHANGED <<dual, board, events, beside, erased>>
  BY DEF DecisionRead
<1>6. kind # "create"
  BY DEF Kind
<1> HIDE DEF q
<1> QED BY <1>1, <1>3, <1>4, <1>5, <1>6, OneCallChanges

LEMMA CreateWriteKeeps ==
    ASSUME ReviewInv, NEW c \in Calls, CreateWrite(c)
    PROVE  ReviewInv'
<1> DEFINE meta == [first |-> Nobody, executiveValidated |-> FALSE]
           journal == [last |-> "PENDING_REVIEW", linked |-> TRUE, approvedBy |-> {}, escalated |-> FALSE]
<1>1. PICK b \in Boards \ Existing, executive \in BOOLEAN :
        /\ board' = [board EXCEPT ![b] =
              [status |-> "PENDING_REVIEW", executive |-> executive, planned |-> FALSE, meta |-> meta]]
        /\ events' = [events EXCEPT ![b] = journal]
  BY DEF CreateWrite
<1> DEFINE row == [status |-> "PENDING_REVIEW", executive |-> executive, planned |-> FALSE, meta |-> meta]
<1>2. row \in Board /\ row.status = "PENDING_REVIEW" /\ row # NoBoard
  BY DEF Board, Metadata, ReviewStatus, OpenReview, NoBoard
<1>3. journal \in Journal /\ journal.last = row.status /\ journal.linked /\ IsFiniteSet(journal.approvedBy)
  BY FS_EmptySet DEF Journal, ReviewStatus, OpenReview
<1>4. /\ call[c].at = "create"
      /\ call' = [call EXCEPT ![c] = Idle]
      /\ beside' = (beside \/ \E d \in Calls \ {c} : call[d].at = "create")
      /\ UNCHANGED <<dual, erased>>
  BY DEF CreateWrite
<1>5. board' = [board EXCEPT ![b] = row] /\ events' = [events EXCEPT ![b] = journal]
  BY <1>1
<1> HIDE DEF row, journal
<1>6. /\ \A a \in Boards : board'[a] = IF a = b THEN row ELSE board[a]
      /\ \A a \in Boards : events'[a] = IF a = b THEN journal ELSE events[a]
      /\ \A d \in Calls : call'[d] = IF d = c THEN Idle ELSE call[d]
  BY <1>4, <1>5 DEF ReviewInv, ReviewTypeOK
<1>7. Existing' = Existing \cup {b} /\ Open' = Open \cup {b}
  BY <1>2, <1>6 DEF Existing, Open, OpenReview
<1>8. ReviewTypeOK'
  BY <1>2, <1>3, <1>4, <1>5 DEF ReviewInv, ReviewTypeOK, CallState
<1>9. BoardsJournalled' /\ JournalExplainsReview'
  BY <1>3, <1>6, <1>7 DEF ReviewInv, BoardsJournalled, JournalExplainsReview, Existing
<1>10. CallsHeld'
  BY <1>6, <1>7 DEF ReviewInv, CallsHeld, Idle, Kind
<1>11. AtMostOneOpen'
  <2>1. ASSUME ~beside' PROVE Open = {} /\ Creating' = {}
    <3>1. Creating = {c}
      BY <1>4, <2>1 DEF Creating
    <3>2. Open = {}
      BY <1>4, <2>1, <3>1 DEF ReviewInv, AtMostOneOpen
    <3>3. Creating' = {}
      BY <1>6, <3>1 DEF Creating, Idle
    <3> QED BY <3>2, <3>3
  <2> QED BY <1>7, <2>1 DEF AtMostOneOpen
<1>12. ApprovalsOwed'
  BY <1>2, <1>4, <1>6, <1>7 DEF ReviewInv, ApprovalsOwed, Regular, Existing
<1>13. CallsCurrent'
  <2>1. \A d \in Calls : call'[d].at = "approve" =>
           d # c /\ call'[d] = call[d] /\ call[d].on \in Existing /\ call[d].on # b
    BY <1>6 DEF ReviewInv, CallsHeld, Idle, Kind
  <2>2. \A d \in Calls : call'[d].at = "approve" =>
           /\ call[d].at = "approve"
           /\ board'[call[d].on] = board[call[d].on]
           /\ Regular(call[d].on)' = Regular(call[d].on)
    BY <1>4, <1>6, <2>1 DEF Regular, Existing
  <2> QED BY <1>4, <2>1, <2>2 DEF ReviewInv, CallsCurrent
<1> QED BY <1>8, <1>9, <1>10, <1>11, <1>12, <1>13 DEF ReviewInv

\* What a call ends with when the rows of the boards change in no way the invariant looks at.
LEMMA AttachKeeps ==
    ASSUME ReviewInv, NEW c \in Calls, Attach(c)
    PROVE  ReviewInv'
<1>1. call[c] \in Attaching /\ call[c].on \in Existing
  BY CallFacts DEF ReviewInv, Attach, CallsHeld
<1> DEFINE b == call[c].on
<1>2. PICK made \in BOOLEAN : board' = [board EXCEPT ![b].planned = @ \/ made]
  BY DEF Attach
<1>3. b \in Boards /\ board[b] \in Board
  BY <1>1, BoardFacts DEF ReviewInv, Attaching
<1> DEFINE row == [board[b] EXCEPT !.planned = @ \/ made]
<1>4. /\ row \in Board
      /\ row.status = board[b].status /\ row.meta = board[b].meta /\ row.executive = board[b].executive
  BY <1>3 DEF Board
<1>5. board' = [board EXCEPT ![b] = row]
  BY <1>2, <1>3 DEF ReviewInv, ReviewTypeOK
<1> HIDE DEF row, b
<1>6. /\ \A a \in Boards : board'[a] = IF a = b THEN row ELSE board[a]
      /\ \A d \in Calls : call'[d] = IF d = c THEN Idle ELSE call[d]
      /\ UNCHANGED <<dual, events, beside, erased>>
  BY <1>5 DEF ReviewInv, ReviewTypeOK, Attach
<1>7. row # NoBoard
  BY <1>4 DEF NoBoard, Board, ReviewStatus, OpenReview, TerminalReview
<1>8. Existing' = Existing /\ Open' = Open
  BY <1>3, <1>1, <1>4, <1>6, <1>7 DEF Existing, Open, b
<1>9. ReviewTypeOK'
  BY <1>4, <1>5 DEF ReviewInv, ReviewTypeOK, Attach, CallState
<1>10. BoardsJournalled' /\ JournalExplainsReview'
  BY <1>4, <1>6, <1>8 DEF ReviewInv, BoardsJournalled, JournalExplainsReview, Existing
<1>11. CallsHeld'
  BY <1>6, <1>8 DEF ReviewInv, CallsHeld, Idle, Kind
<1>12. AtMostOneOpen'
  <2>1. Creating' \subseteq Creating
    BY <1>6 DEF Creating, Idle
  <2> QED BY <1>6, <1>8, <2>1 DEF ReviewInv, AtMostOneOpen
<1>13. ApprovalsOwed'
  BY <1>4, <1>6, <1>8 DEF ReviewInv, ApprovalsOwed, Regular, Existing
<1>14. CallsCurrent'
  <2>1. \A d \in Calls : call'[d].at = "approve" =>
           /\ call'[d] = call[d] /\ call[d].on \in Boards
           /\ board'[call[d].on].status = board[call[d].on].status
           /\ board'[call[d].on].meta = board[call[d].on].meta
           /\ board'[call[d].on].executive = board[call[d].on].executive
    BY <1>4, <1>6 DEF ReviewInv, CallsHeld, Idle, Kind, Existing
  <2> QED BY <1>6, <2>1 DEF ReviewInv, CallsCurrent, Regular
<1> QED BY <1>9, <1>10, <1>11, <1>12, <1>13, <1>14 DEF ReviewInv

LEMMA ValidationWriteKeeps ==
    ASSUME ReviewInv, NEW c \in Calls, ValidationWrite(c)
    PROVE  ReviewInv'
<1>1. call[c] \in ValidateReading /\ call[c].on \in Existing
  BY CallFacts DEF ReviewInv, ValidationWrite, CallsHeld, Kind
<1> DEFINE b == call[c].on
           meta == [call[c].meta EXCEPT !.executiveValidated = TRUE]
           row == [board[b] EXCEPT !.meta = meta]
<1>2. b \in Boards /\ board[b] \in Board /\ call[c].meta \in Metadata
  BY <1>1, BoardFacts DEF ReviewInv, ValidateReading
<1>3. meta \in Metadata /\ meta.executiveValidated
  BY <1>2 DEF Metadata
<1>4. /\ row \in Board
      /\ row.status = board[b].status /\ row.meta = meta /\ row.executive = board[b].executive
  BY <1>2, <1>3 DEF Board
<1>5. /\ board' = [board EXCEPT ![b] = row]
      /\ erased' = IF meta.first # board[b].meta.first THEN erased \cup {b} ELSE erased
      /\ call' = [call EXCEPT ![c] = Idle]
      /\ UNCHANGED <<dual, events, beside>>
  BY <1>2 DEF ReviewInv, ReviewTypeOK, ValidationWrite
<1> HIDE DEF row, meta, b
<1>6. /\ \A a \in Boards : board'[a] = IF a = b THEN row ELSE board[a]
      /\ \A d \in Calls : call'[d] = IF d = c THEN Idle ELSE call[d]
  BY <1>5 DEF ReviewInv, ReviewTypeOK
<1>7. row # NoBoard
  BY <1>4 DEF NoBoard, Board, ReviewStatus, OpenReview, TerminalReview
<1>8. Existing' = Existing /\ Open' = Open
  BY <1>2, <1>1, <1>4, <1>6, <1>7 DEF Existing, Open, b
<1>9. ReviewTypeOK'
  BY <1>2, <1>4, <1>5 DEF ReviewInv, ReviewTypeOK, CallState
<1>10. BoardsJournalled' /\ JournalExplainsReview'
  BY <1>4, <1>5, <1>6, <1>8 DEF ReviewInv, BoardsJournalled, JournalExplainsReview, Existing
<1>11. CallsHeld'
  BY <1>6, <1>8 DEF ReviewInv, CallsHeld, Idle, Kind
<1>12. AtMostOneOpen'
  <2>1. Creating' \subseteq Creating
    BY <1>6 DEF Creating, Idle
  <2> QED BY <1>5, <1>8, <2>1 DEF ReviewInv, AtMostOneOpen
\* The first approval of a board is still there, or the board is not regular.
<1>13. \A a \in Existing : Regular(a)' => Regular(a) /\ board'[a].meta.first = board[a].meta.first
  BY <1>2, <1>4, <1>5, <1>6 DEF Regular, Existing
<1>14. \A a \in Existing : /\ board'[a].status = board[a].status
                           /\ board'[a].executive = board[a].executive
                           /\ board[a].meta.executiveValidated => board'[a].meta.executiveValidated
  BY <1>3, <1>4, <1>6 DEF Existing
<1>15. ApprovalsOwed'
  BY <1>5, <1>8, <1>13, <1>14 DEF ReviewInv, ApprovalsOwed
<1>16. CallsCurrent'
  <2>1. \A d \in Calls : call'[d].at = "approve" => call'[d] = call[d] /\ call[d].on \in Existing
    BY <1>6 DEF ReviewInv, CallsHeld, Idle, Kind
  <2> QED BY <1>5, <1>13, <1>14, <2>1 DEF ReviewInv, CallsCurrent
<1> QED BY <1>9, <1>10, <1>11, <1>12, <1>15, <1>16 DEF ReviewInv

\* A decision in progress: what it is, and what it would leave the board with.
Deciding == Kind \ {"validate"}

LEMMA DecisionFacts ==
    ASSUME ReviewInv, NEW c \in Calls, call[c].at \in Deciding
    PROVE  /\ call[c].on \in Existing /\ call[c].on \in Boards
           /\ call[c].status \in ReviewStatus
           /\ call[c].at = "approve" => call[c].meta \in Metadata /\ call[c].by \in Organizations
           /\ NextStatus(call[c]) \in ReviewStatus \ {"PENDING_REVIEW"}
           /\ NextStatus(call[c]) = "APPROVED" => call[c].at = "approve" /\ ~First(call[c])
           /\ NextStatus(call[c]) = "PARTIALLY_APPROVED" => call[c].at = "approve" /\ First(call[c])
           /\ NextStatus(call[c]) = "UNDER_ANALYSIS" => call[c].at = "reevaluate"
<1>1. call[c].on \in Existing
  BY DEF ReviewInv, CallsHeld, Deciding
<1>2. call[c].status \in ReviewStatus /\ call[c].on \in Boards
  BY CallFacts DEF ReviewInv, Deciding, Kind, ApproveReading, OtherReading
<1>3. call[c].at = "approve" => call[c].meta \in Metadata /\ call[c].by \in Organizations
  BY CallFacts DEF ReviewInv, ApproveReading
<1>4. /\ call[c].at = "approve" => NextStatus(call[c]) = IF First(call[c]) THEN "PARTIALLY_APPROVED" ELSE "APPROVED"
      /\ call[c].at = "reject" => NextStatus(call[c]) = "REJECTED"
      /\ call[c].at = "reevaluate" => NextStatus(call[c]) = "UNDER_ANALYSIS"
      /\ call[c].at = "archive" => NextStatus(call[c]) = "ARCHIVED"
  BY DEF NextStatus
<1>5. call[c].at \in {"approve", "reject", "reevaluate", "archive"}
  BY DEF Deciding, Kind
<1> QED BY <1>1, <1>2, <1>3, <1>4, <1>5 DEF ReviewStatus, OpenReview, TerminalReview

LEMMA DecisionWriteKeeps ==
    ASSUME ReviewInv, NEW c \in Calls, DecisionWrite(c)
    PROVE  ReviewInv'
<1> DEFINE seen == call[c]
<1>1. seen.at \in Deciding
  BY DEF DecisionWrite, Deciding
<1>4. PICK b \in Boards : b = seen.on
  BY <1>1, DecisionFacts
<1>2. CASE ~Unmoved(seen)
  <2>1. call' = [call EXCEPT ![c] = Idle] /\ UNCHANGED <<dual, board, events, beside, erased>>
    BY <1>2 DEF DecisionWrite
  <2>2. Idle \in CallState /\ Idle.at \notin Kind \cup {"attach", "create", "approve"}
    BY DEF CallState, Idle, Kind
  <2> QED BY <2>1, <2>2, OneCallChanges
<1>3. CASE Unmoved(seen)
  <2> DEFINE meta == NextMetadata(seen, board[b].meta)
             next == NextStatus(seen)
             row == [board[b] EXCEPT !.status = next, !.meta = meta]
             journal == Recorded(events[b], seen)
             reopens == next \in OpenReview /\ b \notin Open
             after == IF next = "APPROVED" /\ ~board[b].planned THEN [at |-> "attach", on |-> b] ELSE Idle
  <2>1. /\ b \in Existing /\ b \in Boards /\ board[b] \in Board /\ events[b] \in Journal
        /\ IsFiniteSet(events[b].approvedBy)
        /\ seen.status = board[b].status
    BY <1>1, <1>3, <1>4, DecisionFacts, BoardFacts DEF ReviewInv, BoardsJournalled, Unmoved
  <2>2. next \in ReviewStatus \ {"PENDING_REVIEW"}
    BY <1>1, DecisionFacts
  <2>3. meta \in Metadata
    BY <1>1, <2>1, DecisionFacts DEF NextMetadata, Metadata, Board
  <2>4. /\ row \in Board /\ row # NoBoard
        /\ row.status = next /\ row.meta = meta /\ row.executive = board[b].executive
    BY <2>1, <2>2, <2>3 DEF Board, NoBoard, ReviewStatus, OpenReview, TerminalReview
  <2>5. /\ journal \in Journal /\ IsFiniteSet(journal.approvedBy)
        /\ journal.last = next
        /\ journal.linked = (events[b].linked /\ seen.status = events[b].last)
        /\ journal.escalated = (events[b].escalated \/ seen.at = "reevaluate")
        /\ events[b].approvedBy \subseteq journal.approvedBy
        /\ seen.at = "approve" => seen.by \in journal.approvedBy
    <3>1. seen.at = "approve" => seen.by \in Organizations
      BY <1>1, DecisionFacts
    <3>2. IsFiniteSet(journal.approvedBy)
      BY <2>1, FS_AddElement DEF Recorded
    <3> QED BY <2>1, <2>2, <3>1, <3>2 DEF Recorded, Journal
  <2>6. after \in CallState /\ after.at \in {"attach", "idle"} /\ (after.at = "attach" => after.on = b)
    BY <2>1 DEF CallState, Attaching, Idle
  <2>7. /\ board' = [board EXCEPT ![b] = row]
        /\ events' = [events EXCEPT ![b] = journal]
        /\ call' = [call EXCEPT ![c] = after]
        /\ beside' = (beside \/ (reopens /\ (Open # {} \/ \E d \in Calls : call[d].at = "create")))
        /\ UNCHANGED <<dual, erased>>
    BY <1>3, <1>4, <2>1 DEF DecisionWrite, ReviewInv, ReviewTypeOK
  <2> HIDE DEF row, journal, after, meta, next, reopens, seen
  <2>8. /\ \A a \in Boards : board'[a] = IF a = b THEN row ELSE board[a]
        /\ \A a \in Boards : events'[a] = IF a = b THEN journal ELSE events[a]
        /\ \A d \in Calls : call'[d] = IF d = c THEN after ELSE call[d]
    BY <2>7 DEF ReviewInv, ReviewTypeOK
  <2>9. /\ Existing' = Existing
        /\ Open' = IF next \in OpenReview THEN Open \cup {b} ELSE Open \ {b}
    BY <2>1, <2>4, <2>8 DEF Existing, Open
  <2>10. ReviewTypeOK'
    BY <2>1, <2>4, <2>5, <2>6, <2>7 DEF ReviewInv, ReviewTypeOK
  <2>11. BoardsJournalled'
    BY <2>5, <2>8, <2>9 DEF ReviewInv, BoardsJournalled, Existing
  <2>12. JournalExplainsReview'
    BY <2>1, <2>4, <2>5, <2>8, <2>9 DEF ReviewInv, JournalExplainsReview, Existing
  <2>13. CallsHeld'
    BY <2>1, <2>6, <2>8, <2>9 DEF ReviewInv, CallsHeld, Kind
  <2>14. AtMostOneOpen'
    <3> SUFFICES ASSUME ~beside'
                 PROVE  (Creating' # {} => Open' = {}) /\ \A x, y \in Open' : x = y
      BY DEF AtMostOneOpen
    <3>1. ~beside /\ Creating' \subseteq Creating
      BY <2>6, <2>7, <2>8 DEF Creating
    <3>2. CASE reopens
      <4>1. Open = {} /\ Creating = {}
        BY <2>7, <3>2 DEF Creating
      <4> QED BY <2>9, <3>1, <4>1
    <3>3. CASE ~reopens
      <4>1. Open' \subseteq Open
        BY <2>9, <3>3 DEF reopens
      <4> QED BY <3>1, <4>1 DEF ReviewInv, AtMostOneOpen
    <3> QED BY <3>2, <3>3
  \* What the decision owes: b was as its call has read it.
  <2>15. seen.at = "approve" =>
            /\ seen.status \notin TerminalReview
            /\ board[b].executive => seen.meta.executiveValidated
            /\ dual /\ seen.status = "PARTIALLY_APPROVED" => seen.meta.first # seen.by
            /\ Regular(b) /\ seen.status = "PARTIALLY_APPROVED" => seen.meta.first = board[b].meta.first
    BY <1>4, <2>1 DEF ReviewInv, CallsCurrent, seen
  <2>16. /\ next = "APPROVED" => seen.at = "approve" /\ ~First(seen)
         /\ next = "PARTIALLY_APPROVED" => seen.at = "approve" /\ First(seen)
         /\ next = "UNDER_ANALYSIS" => seen.at = "reevaluate"
    BY <1>1, DecisionFacts DEF seen, next
  <2>17. /\ seen.at = "approve" /\ First(seen) => meta.first = seen.by
         /\ seen.at = "approve" => meta.executiveValidated = seen.meta.executiveValidated
    <3>1. seen.at = "approve" => seen.meta \in Metadata /\ seen.by \in Organizations
      BY <1>1, DecisionFacts DEF seen
    <3> QED BY <3>1 DEF NextMetadata, meta, Metadata
  <2>18. Regular(b)' => Regular(b) /\ seen.at # "reevaluate"
    BY <2>1, <2>5, <2>7, <2>8 DEF Regular
  <2>19. \A a \in Existing : a # b => /\ board'[a] = board[a] /\ events'[a] = events[a]
                                      /\ Regular(a)' = Regular(a)
    BY <2>7, <2>8 DEF Regular, Existing
  <2>20. ApprovalsOwed'
    <3>1. next = "UNDER_ANALYSIS" => journal.escalated
      BY <2>5, <2>16
    <3>2. Regular(b)' /\ next = "PARTIALLY_APPROVED" => meta.first \in journal.approvedBy
      BY <2>5, <2>16, <2>17
    <3>3. ASSUME Regular(b)', next = "APPROVED"
          PROVE  \E o, p \in journal.approvedBy : o # p
      <4>1. seen.at = "approve" /\ ~First(seen) /\ dual
        BY <2>16, <2>18, <3>3 DEF Regular
      <4>2. seen.status = "PARTIALLY_APPROVED"
        <5>1. seen.status # "UNDER_ANALYSIS"
          BY <2>1, <2>18, <3>3 DEF ReviewInv, ApprovalsOwed, Regular
        <5>2. seen.status \in ReviewStatus
          BY <1>1, DecisionFacts DEF seen
        <5> QED BY <2>15, <4>1, <5>1, <5>2 DEF First, ReviewStatus, OpenReview
      <4>3. board[b].meta.first \in events[b].approvedBy /\ board[b].meta.first # seen.by
        BY <2>1, <2>15, <2>18, <3>3, <4>1, <4>2 DEF ReviewInv, ApprovalsOwed
      <4> QED BY <2>5, <4>1, <4>3
    <3>4. next = "APPROVED" /\ board[b].executive => meta.executiveValidated
      BY <2>15, <2>16, <2>17
    <3>5. board'[b] = row /\ events'[b] = journal
      BY <2>1, <2>8
    <3> SUFFICES ASSUME NEW a \in Existing
                 PROVE  /\ board'[a].status = "UNDER_ANALYSIS" => events'[a].escalated
                        /\ Regular(a)' /\ board'[a].status = "PARTIALLY_APPROVED"
                              => board'[a].meta.first \in events'[a].approvedBy
                        /\ Regular(a)' /\ board'[a].status = "APPROVED" =>
                              \E o, p \in events'[a].approvedBy : o # p
                        /\ board'[a].status = "APPROVED" /\ board'[a].executive
                              => board'[a].meta.executiveValidated
      BY <2>9 DEF ApprovalsOwed
    <3>6. CASE a = b
      <4>1. Regular(a)' <=> Regular(b)'
        BY <3>6
      <4> QED BY <2>4, <3>1, <3>2, <3>3, <3>4, <3>5, <3>6, <4>1
    <3>7. CASE a # b
      BY <2>19, <3>7 DEF ReviewInv, ApprovalsOwed
    <3> QED BY <3>6, <3>7
  <2>21. CallsCurrent'
    <3> SUFFICES ASSUME NEW d \in Calls, call'[d].at = "approve", NEW e, e = call'[d].on
                 PROVE  /\ call'[d].status \notin TerminalReview
                        /\ board'[e].executive => call'[d].meta.executiveValidated
                        /\ dual' /\ call'[d].status = "PARTIALLY_APPROVED" => call'[d].meta.first # call'[d].by
                        /\ board'[e].status = "PENDING_REVIEW" => call'[d].status = "PENDING_REVIEW"
                        /\ Regular(e)' /\ board'[e].status = "PARTIALLY_APPROVED"
                              /\ call'[d].status = "PARTIALLY_APPROVED"
                              => call'[d].meta.first = board'[e].meta.first
      BY DEF CallsCurrent, Regular
    <3>1. d # c /\ call'[d] = call[d] /\ e = call[d].on /\ e \in Existing
      BY <2>6, <2>8 DEF ReviewInv, CallsHeld, Kind
    <3>2. /\ call[d].status \notin TerminalReview
          /\ board[e].executive => call[d].meta.executiveValidated
          /\ dual /\ call[d].status = "PARTIALLY_APPROVED" => call[d].meta.first # call[d].by
          /\ board[e].status = "PENDING_REVIEW" => call[d].status = "PENDING_REVIEW"
          /\ Regular(e) /\ board[e].status = "PARTIALLY_APPROVED"
                /\ call[d].status = "PARTIALLY_APPROVED"
                => call[d].meta.first = board[e].meta.first
      BY <3>1 DEF ReviewInv, CallsCurrent, Regular
    <3>3. CASE e # b
      BY <2>7, <2>19, <3>1, <3>2, <3>3
    <3>4. CASE e = b
      <4>1. board'[b] = row
        BY <2>1, <2>8
      <4>2. next # "PENDING_REVIEW"
        BY <2>2
      \* A board half approved by this step was pending, and nobody had read it otherwise.
      <4>3. next = "PARTIALLY_APPROVED" => call[d].status = "PENDING_REVIEW"
        BY <2>1, <2>16, <3>2, <3>4 DEF First
      <4> QED BY <2>4, <2>7, <3>1, <3>2, <3>4, <4>1, <4>2, <4>3
    <3> QED BY <3>3, <3>4
  <2> QED BY <2>10, <2>11, <2>12, <2>13, <2>14, <2>20, <2>21 DEF ReviewInv
<1> QED BY <1>2, <1>3

-----------------------------------------------------------------------------
\* The inductive invariant: whatever calls overlap, the readings in progress are current enough.
THEOREM ReviewInductive == Spec => []ReviewInv
<1>1. ReviewInv /\ [Next]_reviewVars => ReviewInv'
  <2> SUFFICES ASSUME ReviewInv, [Next]_reviewVars PROVE ReviewInv'
    OBVIOUS
  <2>1. CASE UNCHANGED reviewVars
    BY <2>1 DEF reviewVars, ReviewInv, ReviewTypeOK, BoardsJournalled, CallsHeld, JournalExplainsReview,
                AtMostOneOpen, ApprovalsOwed, CallsCurrent, Existing, Open, Creating, Regular
  <2>2. CASE Next
    <3> SUFFICES ASSUME NEW c \in Calls,
                        \/ CreateRead(c)
                        \/ CreateWrite(c)
                        \/ \E b \in Boards, kind \in Kind, o \in Organizations : DecisionRead(c, b, kind, o)
                        \/ DecisionWrite(c)
                        \/ Attach(c)
                        \/ ValidationWrite(c)
                 PROVE  ReviewInv'
      BY <2>2 DEF Next
    <3> QED BY CreateReadKeeps, CreateWriteKeeps, DecisionReadKeeps, DecisionWriteKeeps, AttachKeeps,
               ValidationWriteKeeps
  <2> QED BY <2>1, <2>2
<1> QED BY ReviewInitially, <1>1, PTL DEF Spec

\* Each board's journal is one chain of decisions that ends at its status, for any number of
\* overlapping calls: the update where the status is the one read makes it so.
THEOREM JournalExplains == Spec => []JournalExplainsReview
<1>1. ReviewInv => JournalExplainsReview
  BY DEF ReviewInv
<1> QED BY <1>1, ReviewInductive, PTL

\* Two distinct approvals are more than one.
LEMMA TwoMembers ==
    ASSUME NEW S, IsFiniteSet(S), \E o, p \in S : o # p
    PROVE  Cardinality(S) > 1
<1>1. Cardinality(S) \in Nat /\ S # {}
  BY FS_CardinalityType
<1>2. Cardinality(S) # 0 /\ Cardinality(S) # 1
  BY <1>1, FS_EmptySet, FS_Singleton
<1> QED BY <1>1, <1>2

\* An approved board has the approvals and the validation it needs, for any number of calls and
\* organizations, with the two exceptions the property names.
THEOREM ApprovedOnlyAsRequired == Spec => []ApprovedAsRequired
<1>1. ReviewInv => ApprovedAsRequired
  <2> SUFFICES ASSUME ReviewInv, NEW b \in Existing, board[b].status = "APPROVED"
               PROVE  /\ board[b].executive => board[b].meta.executiveValidated
                      /\ dual => \/ Cardinality(events[b].approvedBy) > 1
                                 \/ events[b].escalated
                                 \/ b \in erased
    BY DEF ApprovedAsRequired
  <2>1. IsFiniteSet(events[b].approvedBy)
    BY DEF ReviewInv, BoardsJournalled
  <2>2. Regular(b) => \E o, p \in events[b].approvedBy : o # p
    BY DEF ReviewInv, ApprovalsOwed
  <2>3. board[b].executive => board[b].meta.executiveValidated
    BY DEF ReviewInv, ApprovalsOwed
  <2> QED BY <2>1, <2>2, <2>3, TwoMembers DEF Regular
<1> QED BY <1>1, ReviewInductive, PTL

\* A simulation has one open board, for any number of ingestions and decisions, with the two
\* exceptions the property names.
THEOREM OneBoardOpen == Spec => []OneOpenBoard
<1>1. ReviewInv => OneOpenBoard
  <2> SUFFICES ASSUME ReviewInv, ~beside PROVE Cardinality(Open) <= 1
    BY DEF OneOpenBoard
  <2>1. \A a, b \in Open : a = b
    BY DEF ReviewInv, AtMostOneOpen
  <2>2. CASE Open = {}
    BY <2>2, FS_EmptySet
  <2>3. CASE Open # {}
    <3>1. PICK b \in Open : TRUE
      BY <2>3
    <3>2. Open = {b}
      BY <2>1, <3>1
    <3> QED BY <3>2, FS_Singleton
  <2> QED BY <2>2, <2>3
<1> QED BY <1>1, ReviewInductive, PTL

=============================================================================
