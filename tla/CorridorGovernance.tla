--------------------------- MODULE CorridorGovernance ---------------------------
(***************************************************************************)
(* One relationship and its corridor: the decisions of the two              *)
(* organizations and of the back office on Relationship.status, and the     *)
(* background work of RelationshipGovernanceService that moves              *)
(* Relationship.corridorState after them.                                   *)
(*                                                                         *)
(* That work is promises nobody awaits and a timer, none in a transaction:  *)
(* every await is a place where another call may run.  task[t] is such a    *)
(* call and what it has read; the field "then" is the state it goes on to   *)
(* when a function it has called returns, "otherwise" when it throws.       *)
(*                                                                         *)
(* Orders, negotiations and trust are left out: the state the health        *)
(* computation suggests for an accepted relationship is any of the three it *)
(* can suggest.  So are scores, signals, snapshots and realtime events,     *)
(* which nothing here reads back.                                           *)
(***************************************************************************)
EXTENDS Naturals, FiniteSets

CONSTANTS
    Tasks,      \* bound: the calls in progress at the same time
    MaxCrashes, \* bound: the restarts of the process
    MaxFailures \* bound: the queries that fail

ASSUME CrashesAssumption == MaxCrashes \in Nat /\ MaxFailures \in Nat

VARIABLES
    status,     \* Relationship.status
    corridor,   \* Relationship.corridorState
    touched,    \* the relationship is in pendingTouches and the touch timer is armed
    task,
    crashes,
    failures

rows == <<status, corridor>>

governanceVars == <<status, corridor, touched, task, crashes, failures>>

RelationshipStatus == {"PENDING", "ACCEPTED", "REJECTED", "BLOCKED", "SUSPENDED"}

\* ALLOWED_CORRIDOR_TRANSITIONS
AllowedCorridorTransitions ==
    [INVITED        |-> {"PENDING_REVIEW", "ACCEPTED", "TERMINATED", "BLOCKED"},
     PENDING_REVIEW |-> {"ACCEPTED", "ACTIVE", "TERMINATED", "BLOCKED", "RESTRICTED"},
     ACCEPTED       |-> {"ACTIVE", "TERMINATED", "BLOCKED", "SUSPENDED", "RESTRICTED", "DORMANT", "DEGRADED"},
     ACTIVE         |-> {"DEGRADED", "DORMANT", "RESTRICTED", "SUSPENDED", "BLOCKED", "TERMINATED"},
     DEGRADED       |-> {"ACTIVE", "RESTRICTED", "SUSPENDED", "BLOCKED", "TERMINATED", "DORMANT"},
     DORMANT        |-> {"ACTIVE", "DEGRADED", "TERMINATED", "BLOCKED", "SUSPENDED"},
     RESTRICTED     |-> {"ACTIVE", "DEGRADED", "SUSPENDED", "BLOCKED", "TERMINATED"},
     SUSPENDED      |-> {"ACTIVE", "RESTRICTED", "BLOCKED", "TERMINATED"},
     BLOCKED        |-> {"TERMINATED"},
     TERMINATED     |-> {}]

CorridorState == DOMAIN AllowedCorridorTransitions

ProtectedCorridorStates == {"BLOCKED", "SUSPENDED", "RESTRICTED", "TERMINATED", "PENDING_REVIEW"}

SuggestedStates == {"DORMANT", "DEGRADED", "ACTIVE"}

\* validateRelationshipTransition
Allowed(from, to) == from = to \/ to \in AllowedCorridorTransitions[from]

StateOfPendingAsIs(s) == IF s = "REJECTED" THEN "TERMINATED" ELSE s

\* The corridor state a status calls for: the same table in the mirror and in the health computation.
StateOf(s) ==
    CASE s = "PENDING" -> "INVITED"
      [] s = "REJECTED" -> "TERMINATED"
      [] OTHER -> s

-----------------------------------------------------------------------------
(* The calls in progress. *)

Idle == [at |-> "idle"]

Accepting == [at |-> "accepting"]

Syncing == [at |-> "sync"]

Mirroring(s) == [at |-> "mirror", status |-> s]

Computing(then) == [at |-> "compute", then |-> then]

Computed(from, to, then) == [at |-> "computed", from |-> from, to |-> to, then |-> then]

Moving(to, then, otherwise) == [at |-> "move", to |-> to, then |-> then, otherwise |-> otherwise]

Moved(from, to, then) == [at |-> "moved", from |-> from, to |-> to, then |-> then]

\* The states of a task whose functions return to a state of the set After.
TaskStates(After) ==
    {Accepting, Syncing} \cup After
        \cup {Mirroring(s) : s \in RelationshipStatus}
        \cup [at : {"compute"}, then : After]
        \cup [at : {"computed"}, from : CorridorState, to : CorridorState, then : After]
        \cup [at : {"move"}, to : CorridorState, then : After \cup [at : {"compute"}, then : After], otherwise : After]
        \cup [at : {"moved"}, from : CorridorState, to : CorridorState,
              then : After \cup [at : {"compute"}, then : After]]

Become(t, state) == task' = [task EXCEPT ![t] = state]

Init ==
    /\ status = "PENDING"
    /\ corridor = "INVITED"
    /\ touched = FALSE
    /\ task = [t \in Tasks |-> Idle]
    /\ crashes = 0
    /\ failures = 0

-----------------------------------------------------------------------------
(* Decisions on the relationship. *)

\* accept: the relationship is read pending, its organizations are looked up ...
AcceptRead(t) ==
    /\ task[t] = Idle
    /\ status = "PENDING"
    /\ Become(t, Accepting)
    /\ UNCHANGED <<rows, touched, crashes, failures>>

\* ... and it is accepted whatever it has become.
AcceptWrite(t) ==
    /\ task[t] = Accepting
    /\ status' = "ACCEPTED"
    /\ Become(t, Syncing)
    /\ UNCHANGED <<corridor, touched, crashes, failures>>

\* reject and block: no status is excluded.
Decide(t, s) ==
    /\ task[t] = Idle
    /\ status' = s
    /\ Become(t, Syncing)
    /\ UNCHANGED <<corridor, touched, crashes, failures>>

\* patchRelationship of the back office: any status, and no one tells the corridor.
PatchRelationship(s) ==
    /\ status' = s
    /\ UNCHANGED <<corridor, touched, task, crashes, failures>>

-----------------------------------------------------------------------------
(* The graph lifecycle mirror. *)

SyncRead(t) ==
    /\ task[t] = Syncing
    /\ Become(t, Mirroring(status))
    /\ UNCHANGED <<rows, touched, crashes, failures>>

\* applyGraphLifecycleCorridorMirror: outside the matrix, then a touch.
Mirror(t) ==
    /\ task[t].at = "mirror"
    /\ corridor' = StateOf(task[t].status)
    /\ touched' = TRUE
    /\ Become(t, Idle)
    /\ UNCHANGED <<status, crashes, failures>>

\* touchRelationship, by a cart, an order, a draft or a negotiation: the timer is armed once.
TouchRelationship ==
    /\ ~touched
    /\ touched' = TRUE
    /\ UNCHANGED <<rows, task, crashes, failures>>

\* The timer fires and flushTouches takes the batch; a touch from now on arms it again.
FlushTouches(t) ==
    /\ touched
    /\ task[t] = Idle
    /\ touched' = FALSE
    /\ Become(t, Computing(Idle))
    /\ UNCHANGED <<rows, crashes, failures>>

\* The internal recompute route.
Recompute(t) ==
    /\ task[t] = Idle
    /\ Become(t, Computing(Idle))
    /\ UNCHANGED <<rows, touched, crashes, failures>>

-----------------------------------------------------------------------------
(* computeCorridorHealth and applyCorridorStateTransition. *)

\* What the computation writes back over the state it has read.
FinalStateUnprotected(persisted, suggested) == IF Allowed(persisted, suggested) THEN suggested ELSE persisted

FinalState(persisted, suggested) ==
    IF persisted \notin ProtectedCorridorStates /\ Allowed(persisted, suggested) THEN suggested ELSE persisted

\* What the computation goes on to: the write of a state, or a move to the one the status calls for.
ComputedFromAccepted(then) ==
    IF status = "ACCEPTED" THEN {Computed(corridor, FinalState(corridor, s), then) : s \in SuggestedStates}
    ELSE {then}

ComputedFrom(then) ==
    IF status = "ACCEPTED" THEN {Computed(corridor, FinalState(corridor, s), then) : s \in SuggestedStates}
    ELSE {Moving(StateOf(status), then, then)}

ComputeRead(t) ==
    /\ task[t].at = "compute"
    /\ \E state \in ComputedFrom(task[t].then) : Become(t, state)
    /\ UNCHANGED <<rows, touched, crashes, failures>>

\* persistCorridorStateRow with HEALTH_COMPUTE: unconditional.
ComputeWrite(t) ==
    /\ task[t].at = "computed"
    /\ corridor' = task[t].to
    /\ Become(t, task[t].then)
    /\ UNCHANGED <<status, touched, crashes, failures>>

\* validateRelationshipGovernance, on the row just read.
MoveRead(t) ==
    /\ task[t].at = "move"
    /\ Become(t, IF Allowed(corridor, task[t].to) THEN Moved(corridor, task[t].to, task[t].then)
                                                  ELSE task[t].otherwise)
    /\ UNCHANGED <<rows, touched, crashes, failures>>

\* persistCorridorStateRow with MATRIX_TRANSITION: unconditional as well.
MoveWrite(t) ==
    /\ task[t].at = "moved"
    /\ corridor' = task[t].to
    /\ Become(t, task[t].then)
    /\ UNCHANGED <<status, touched, crashes, failures>>

\* A query of a function fails before it has written: the mirror's error is swallowed before the
\* touch, the timer's ends the computation of this relationship, and a computation swallows that
\* of the move it asks for.
QueryFails(t) ==
    /\ failures < MaxFailures
    /\ failures' = failures + 1
    /\ task[t].at \in {"mirror", "compute", "move"}
    /\ Become(t, IF task[t].at = "move" THEN task[t].otherwise ELSE Idle)
    /\ UNCHANGED <<rows, touched, crashes>>

\* The process restarts: calls in progress and pending touches are gone.
Crash ==
    /\ crashes < MaxCrashes
    /\ crashes' = crashes + 1
    /\ task' = [t \in Tasks |-> Idle]
    /\ touched' = FALSE
    /\ UNCHANGED <<rows, failures>>

-----------------------------------------------------------------------------

\* The steps a call in progress takes by itself.
Advance(t) ==
    \/ AcceptWrite(t) \/ SyncRead(t) \/ Mirror(t)
    \/ ComputeRead(t) \/ ComputeWrite(t) \/ MoveRead(t) \/ MoveWrite(t)

Next ==
    \/ \E t \in Tasks :
          \/ AcceptRead(t)
          \/ \E s \in {"REJECTED", "BLOCKED"} : Decide(t, s)
          \/ Recompute(t)
          \/ FlushTouches(t)
          \/ Advance(t)
          \/ QueryFails(t)
    \/ \E s \in RelationshipStatus : PatchRelationship(s)
    \/ TouchRelationship
    \/ Crash

\* A promise of a process that stays up resumes, and its timer fires.  The timer's fairness is
\* strong because the model makes it wait for one of Tasks, which the code has no bound on.
Fairness ==
    /\ \A t \in Tasks : WF_governanceVars(Advance(t))
    /\ SF_governanceVars(\E t \in Tasks : FlushTouches(t))

Spec == Init /\ [][Next]_governanceVars /\ Fairness

-----------------------------------------------------------------------------
(* Properties. *)

\* Every variable has its type.
CorridorTypeOK ==
    /\ status \in RelationshipStatus
    /\ corridor \in CorridorState
    /\ touched \in BOOLEAN
    /\ task \in [Tasks -> TaskStates({Idle})]
    /\ crashes \in 0..MaxCrashes
    /\ failures \in 0..MaxFailures

MirrorWrite(t) == task[t].at = "mirror" /\ task'[t] # task[t]

\* t writes the corridor from a reading the row no longer agrees with.
StaleWrite(t) == task[t].at \in {"computed", "moved"} /\ task[t].from # corridor /\ task'[t] # task[t]

\* The corridor makes a move its matrix forbids, and a health computation overwrites a protected
\* state, only where the status is mirrored or a writer has not seen the last write: one
\* computation or transition at a time keeps the matrix and the protected states.
LegalOrStale ==
    [][ \/ \E t \in Tasks : MirrorWrite(t) \/ StaleWrite(t)
        \/ Allowed(corridor, corridor')
             /\ \A t \in Tasks : task[t].at = "computed" /\ task'[t] # task[t]
                                    => corridor \notin ProtectedCorridorStates
      ]_corridor

Closed == {"BLOCKED", "TERMINATED"}

Interrupted == crashes + failures

\* A block somebody is going to look at, after n restarts and failures: its mirror has not read
\* it yet, or a touch is pending.
BlockNoticed(n) ==
    /\ status = "BLOCKED" /\ Interrupted = n
    /\ touched \/ \E t \in Tasks : task[t] = Syncing

\* A block reaches the corridor, whoever wrote it (the back office does not mirror it) and
\* whatever computations overlap, as long as the relationship is touched and from then on the
\* process stays up and no query fails.
BlockReachesCorridor ==
    \A n \in 0..(MaxCrashes + MaxFailures) :
        BlockNoticed(n) ~> (corridor \in Closed \/ status # "BLOCKED" \/ Interrupted # n)

=============================================================================
