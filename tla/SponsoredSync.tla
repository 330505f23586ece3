----------------------------- MODULE SponsoredSync -----------------------------
(***************************************************************************)
(* The sponsored side of a relationship asked for from a sponsored          *)
(* conversation: its window, its requests, and syncFromRelationshipId,      *)
(* called after each moderation decision, which claims the window, updates  *)
(* the requests, applies the outcome to the corridor and, if that           *)
(* succeeded, announces it.                                                 *)
(*                                                                         *)
(* A window can be asked for a relationship again, and names the last one:  *)
(* the relationship of CorridorGovernance is "own", the other is "other",   *)
(* of which only the syncs are here, up to its own corridor.                *)
(*                                                                         *)
(* It runs among the calls of CorridorGovernance, on the same tasks.        *)
(***************************************************************************)
EXTENDS CorridorGovernance

CONSTANTS
    MaxDecisions,   \* bound: the changes of Relationship.status and the syncs of the other relationship
    AskNamed        \* bound: whether the other relationship is asked for while the window names it

ASSUME DecisionsAssumption == MaxDecisions \in Nat /\ AskNamed \in BOOLEAN

VARIABLES
    window,     \* sponsoredConversationWindow.state
    names,      \* its relationshipId
    converted,  \* its convertedToRelationship
    requests,   \* the values of requestState among the window's requests
    asked,      \* the relationships whose request is there and whose window is to be updated
    due,        \* expiresAt is past
    \* what has happened, for the properties and the bound:
    decisions,
    announced,  \* how many accepted_synced events were published
    rejections, \* how many times the window was claimed as rejected before it was due
    raced       \* a sync claimed the window between the claim of another and its requests

windowVars == <<window, names, converted, requests, asked, due>>

historyVars == <<decisions, announced, rejections, raced>>

sponsoredVars == <<governanceVars, windowVars, historyVars>>

Outcome == {"accepted", "rejected"}

Relationships == {"own", "other"}

\* The state a sync leaves the window in, and its requests.
WindowOf(outcome) == IF outcome = "accepted" THEN "RELATIONSHIP_ACCEPTED" ELSE "RELATIONSHIP_REJECTED"

RequestStateOf(outcome) ==
    IF outcome = "accepted" THEN "RELATIONSHIP_ACCEPTED_SYNCED" ELSE "REJECTED_COMMERCIAL"

\* Mutant: only the requests still submitted are updated.
RequestsOnce(outcome) == {IF r = "SUBMITTED" THEN RequestStateOf(outcome) ELSE r : r \in requests}

RequestsAfter(outcome) == {RequestStateOf(outcome)}

OutcomeOf(s) == IF s = "ACCEPTED" THEN "accepted" ELSE "rejected"

\* The steps of a sync, besides those of the corridor functions it calls.
Claiming(r, o) == [at |-> "claim", of |-> r, outcome |-> o]

Claimed(r, o) == [at |-> "claimed", of |-> r, outcome |-> o]

Applying(o) == [at |-> "apply", outcome |-> o]

Announcing(o) == [at |-> "announce", outcome |-> o]

SponsoredInit ==
    /\ Init
    /\ window = "SPONSORED_NEGOTIATION_ACTIVE"
    /\ names = "none"
    /\ converted = FALSE
    /\ requests = {"SUBMITTED"}
    /\ asked = {"own"}
    /\ due = FALSE
    /\ decisions = 0
    /\ announced = 0
    /\ rejections = 0
    /\ raced = FALSE

-----------------------------------------------------------------------------

\* requestOfficialRelationship again: nothing but the expiry is checked, and that well before the
\* request is there, so that it may be due by now. Bounds: MaxDecisions and AskNamed.
RequestAgain ==
    /\ "other" \notin asked
    /\ decisions < MaxDecisions
    /\ names = "other" => AskNamed
    /\ asked' = asked \cup {"other"}
    /\ requests' = requests \cup {"SUBMITTED"}
    /\ UNCHANGED <<governanceVars, window, names, converted, due, historyVars>>

\* Its last write, whatever the window has become.
LinkWindow(r) ==
    /\ r \in asked
    /\ asked' = asked \ {r}
    /\ window' = "RELATIONSHIP_REQUESTED"
    /\ names' = r
    /\ UNCHANGED <<governanceVars, converted, requests, due, historyVars>>

\* handleRelationshipModerationDecision: refused while pending, skipped without a window that names
\* the relationship or when the window is already what the decision calls for.
Sync(t) ==
    /\ task[t] = Idle
    /\ status # "PENDING"
    /\ names = "own"
    /\ window # WindowOf(OutcomeOf(status))
    /\ Become(t, Claiming("own", OutcomeOf(status)))
    /\ UNCHANGED <<rows, touched, crashes, failures, windowVars, historyVars>>

\* The same for the other relationship, whichever way it was decided.
SyncOther(t, o) ==
    /\ task[t] = Idle
    /\ decisions < MaxDecisions
    /\ decisions' = decisions + 1
    /\ names = "other"
    /\ window # WindowOf(o)
    /\ Become(t, Claiming("other", o))
    /\ UNCHANGED <<rows, touched, crashes, failures, windowVars, announced, rejections, raced>>

\* The conditional update of the window: it gives up if another sync was there first.
\* Mutant: the update is by the id alone.
UnclaimedAlways(o) == TRUE

Unclaimed(o) == window # WindowOf(o)

Claim(t) ==
    /\ task[t].at = "claim"
    /\ LET o == task[t].outcome IN
         IF Unclaimed(o)
         THEN /\ window' = WindowOf(o)
              /\ converted' = (converted \/ o = "accepted")
              /\ rejections' = IF o = "rejected" /\ ~due THEN rejections + 1 ELSE rejections
              /\ raced' = (raced \/ \E u \in Tasks \ {t} : task[u].at = "claimed")
              /\ Become(t, Claimed(task[t].of, o))
         ELSE /\ Become(t, Idle)
              /\ UNCHANGED <<window, converted, rejections, raced>>
    /\ UNCHANGED <<rows, touched, crashes, failures, names, requests, asked, due, decisions, announced>>

\* All the requests of the window; the other relationship's sync goes on to a corridor of its own.
UpdateRequests(t) ==
    /\ task[t].at = "claimed"
    /\ requests' = RequestsAfter(task[t].outcome)
    /\ Become(t, IF task[t].of = "own" THEN Applying(task[t].outcome) ELSE Idle)
    /\ UNCHANGED <<rows, touched, crashes, failures, window, names, converted, asked, due, historyVars>>

\* What applySponsoredRelationshipOutcome asks of an acceptance.
Activable ==
    /\ status = "ACCEPTED"
    /\ names = "own"
    /\ window # "SPONSORED_WINDOW_EXPIRED" /\ ~due
    /\ corridor \notin {"BLOCKED", "SUSPENDED"}
    /\ converted /\ "RELATIONSHIP_ACCEPTED_SYNCED" \in requests

\* The corridor state of a rejection, by the status read again.
RejectionTarget == IF status \in {"BLOCKED", "SUSPENDED"} THEN status ELSE "TERMINATED"

\* applySponsoredRelationshipOutcome moves the corridor and computes its health; where it throws
\* the sync ends without an announcement.
ApplyOutcome(t) ==
    /\ task[t].at = "apply"
    /\ LET then == Computing(Announcing(task[t].outcome)) IN
         Become(t, IF task[t].outcome = "rejected" THEN Moving(RejectionTarget, then, Idle)
                   ELSE IF Activable THEN Moving("ACTIVE", then, Idle)
                   ELSE Idle)
    /\ UNCHANGED <<rows, touched, crashes, failures, windowVars, historyVars>>

Announce(t) ==
    /\ task[t].at = "announce"
    /\ announced' = IF task[t].outcome = "accepted" THEN announced + 1 ELSE announced
    /\ Become(t, Idle)
    /\ UNCHANGED <<rows, touched, crashes, failures, windowVars, decisions, rejections, raced>>

\* Time passes.
FallDue ==
    /\ ~due
    /\ due' = TRUE
    /\ UNCHANGED <<governanceVars, window, names, converted, requests, asked, historyVars>>

\* expireDueWindows: any window that is due, an accepted one included.
ExpireWindow ==
    /\ due
    /\ window # "SPONSORED_WINDOW_EXPIRED"
    /\ window' = "SPONSORED_WINDOW_EXPIRED"
    /\ UNCHANGED <<governanceVars, names, converted, requests, asked, due, historyVars>>

-----------------------------------------------------------------------------

\* A step of CorridorGovernance, counting the decisions; a restart ends the requests in progress.
GovernanceStep ==
    /\ Next
    /\ IF status' = status THEN decisions' = decisions
       ELSE decisions < MaxDecisions /\ decisions' = decisions + 1
    /\ asked' = IF crashes' = crashes THEN asked ELSE {}
    /\ UNCHANGED <<window, names, converted, requests, due, announced, rejections, raced>>

SponsoredNext ==
    \/ GovernanceStep
    \/ \E t \in Tasks :
          \/ Sync(t) \/ Claim(t) \/ UpdateRequests(t) \/ ApplyOutcome(t) \/ Announce(t)
          \/ \E o \in Outcome : SyncOther(t, o)
    \/ RequestAgain
    \/ \E r \in Relationships : LinkWindow(r)
    \/ FallDue
    \/ ExpireWindow

SponsoredSpec == SponsoredInit /\ [][SponsoredNext]_sponsoredVars

-----------------------------------------------------------------------------
(* Properties. *)

\* However many syncs run for the same decision, sponsored.relationship.accepted_synced is
\* published once: a second time only after the window was claimed as rejected in between and
\* before it was due, whatever expires, restarts or is asked of the window again.
AnnouncedOnce == announced <= 1 + rejections

Settling == \E t \in Tasks : task[t].at = "claimed"

\* Once no sync is between its two updates and no request is to be linked, the requests all say
\* what the window says, unless two syncs overlapped there or a restart came between the two.
RequestsFollowWindow ==
    \/ raced \/ crashes > 0 \/ Settling \/ asked # {}
    \/ /\ window = "RELATIONSHIP_ACCEPTED" => converted /\ requests = {"RELATIONSHIP_ACCEPTED_SYNCED"}
       /\ window = "RELATIONSHIP_REJECTED" => requests = {"REJECTED_COMMERCIAL"}

=============================================================================
