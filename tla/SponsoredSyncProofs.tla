--------------------------- MODULE SponsoredSyncProofs ---------------------------
(***************************************************************************)
(* The theorems of CorridorGovernance and of SponsoredSync, which extends   *)
(* it, for any number of calls, decisions and restarts.                     *)
(*                                                                         *)
(* The corridor: its types, and that it leaves its matrix or a protected    *)
(* state only by the mirror or a writer that has not seen the last write.   *)
(* The strengthening is about what the writers hold: a legal move out of    *)
(* the state they have read (WritersLegal).                                 *)
(*                                                                         *)
(* The conversation: an acceptance is announced once because each           *)
(* announcement is paid for: a window not yet accepted is worth one, a sync *)
(* that has claimed it as accepted takes that over and keeps it until it    *)
(* announces, and only a claim as rejected makes the window worth one again *)
(* (Worth).  A window that is asked for again is worth nothing to this      *)
(* relationship once it names the other, and names this one only once.      *)
(***************************************************************************)
EXTENDS SponsoredSync, FiniteSetTheorems, TLAPS

-----------------------------------------------------------------------------
(* CorridorGovernance on its own. *)

\* Where a function of the corridor alone returns to: nowhere, or the health computation of the sponsored outcome.
OwnReturns == {Idle} \cup [at : {"compute"}, then : {Idle}]

\* What a writer is about to write is a legal move out of what it has read.
WritersLegal ==
    \A t \in Tasks :
        /\ task[t].at = "moved" => Allowed(task[t].from, task[t].to)
        /\ task[t].at = "computed" =>
              \/ task[t].to = task[t].from
              \/ Allowed(task[t].from, task[t].to) /\ task[t].from \notin ProtectedCorridorStates

CorridorInv == CorridorTypeOK /\ WritersLegal

-----------------------------------------------------------------------------
\* Every state the matrix speaks of is a state of the corridor.
LEMMA MatrixStates ==
    /\ CorridorState = {"INVITED", "PENDING_REVIEW", "ACCEPTED", "ACTIVE", "DEGRADED", "DORMANT",
                        "RESTRICTED", "SUSPENDED", "BLOCKED", "TERMINATED"}
    /\ SuggestedStates \subseteq CorridorState
    /\ \A s \in RelationshipStatus : StateOf(s) \in CorridorState
BY DEF CorridorState, AllowedCorridorTransitions, SuggestedStates, RelationshipStatus, StateOf

\* A call is in one of the states its functions make.
LEMMA TaskMade ==
    /\ Idle \in TaskStates({Idle}) /\ Accepting \in TaskStates({Idle}) /\ Syncing \in TaskStates({Idle})
    /\ \A s \in RelationshipStatus : Mirroring(s) \in TaskStates({Idle})
    /\ Computing(Idle) \in TaskStates({Idle})
    /\ \A f, g \in CorridorState : Computed(f, g, Idle) \in TaskStates({Idle})
    /\ \A f \in CorridorState : Moving(f, Idle, Idle) \in TaskStates({Idle})
    /\ \A f, g \in CorridorState, then \in OwnReturns : Moved(f, g, then) \in TaskStates({Idle})
    /\ OwnReturns \subseteq TaskStates({Idle})
BY DEF TaskStates, Idle, Accepting, Syncing, Mirroring, Computing, Computed, Moving, Moved, OwnReturns

LEMMA TaskFacts ==
    ASSUME CorridorTypeOK, NEW t \in Tasks
    PROVE  /\ task[t].at = "mirror" => task[t].status \in RelationshipStatus
           /\ task[t].at = "compute" => task[t].then = Idle
           /\ task[t].at = "computed" => /\ task[t].from \in CorridorState /\ task[t].to \in CorridorState
                                         /\ task[t].then = Idle
           /\ task[t].at = "move" => /\ task[t].to \in CorridorState /\ task[t].otherwise = Idle
                                     /\ task[t].then \in OwnReturns
           /\ task[t].at = "moved" => /\ task[t].from \in CorridorState /\ task[t].to \in CorridorState
                                      /\ task[t].then \in OwnReturns
<1>1. task[t] \in TaskStates({Idle})
  BY DEF CorridorTypeOK
<1> QED BY <1>1 DEF TaskStates, Idle, Accepting, Syncing, Mirroring, OwnReturns

\* A call that goes on to q, writing nothing a writer of another call holds.
LEMMA BecomeKeeps ==
    ASSUME CorridorInv, NEW t \in Tasks, NEW q \in TaskStates({Idle}), Become(t, q),
           status' \in RelationshipStatus, corridor' \in CorridorState, touched' \in BOOLEAN, crashes' = crashes,
           failures' \in 0..MaxFailures,
           q.at = "moved" => Allowed(q.from, q.to),
           q.at = "computed" => \/ q.to = q.from
                                \/ Allowed(q.from, q.to) /\ q.from \notin ProtectedCorridorStates
    PROVE  CorridorInv'
<1>1. task' = [task EXCEPT ![t] = q] /\ \A u \in Tasks : task'[u] = IF u = t THEN q ELSE task[u]
  BY DEF CorridorInv, CorridorTypeOK, Become
<1>2. CorridorTypeOK'
  BY <1>1 DEF CorridorInv, CorridorTypeOK
<1>3. WritersLegal'
  BY <1>1 DEF CorridorInv, WritersLegal
<1> QED BY <1>2, <1>3 DEF CorridorInv

-----------------------------------------------------------------------------
\* The computation is left with a write it may make, or a move to ask for.
LEMMA ComputeReadKeeps ==
    ASSUME CorridorInv, NEW t \in Tasks, ComputeRead(t)
    PROVE  CorridorInv'
<1> DEFINE then == task[t].then
<1>1. /\ then = Idle /\ corridor \in CorridorState /\ status \in RelationshipStatus /\ touched \in BOOLEAN
      /\ failures \in 0..MaxFailures
  BY TaskFacts DEF ComputeRead, CorridorInv, CorridorTypeOK
<1>2. PICK q \in ComputedFrom(then) : Become(t, q)
  BY DEF ComputeRead
<1>3. UNCHANGED <<status, corridor, touched, crashes, failures>>
  BY DEF ComputeRead, rows
<1>4. CASE status = "ACCEPTED"
  <2>1. PICK s \in SuggestedStates : q = Computed(corridor, FinalState(corridor, s), then)
    BY <1>2, <1>4 DEF ComputedFrom
  <2> DEFINE to == FinalState(corridor, s)
  <2>2. to \in CorridorState
    BY <1>1, MatrixStates DEF FinalState
  <2>3. \/ to = corridor
        \/ Allowed(corridor, to) /\ corridor \notin ProtectedCorridorStates
    BY DEF FinalState
  <2>4. q = Computed(corridor, to, Idle)
    BY <1>1, <2>1
  <2> HIDE DEF to
  <2>5. q \in TaskStates({Idle}) /\ q.at = "computed" /\ q.from = corridor /\ q.to = to
    BY <1>1, <2>2, <2>4, TaskMade DEF Computed
  <2> QED BY <1>1, <1>2, <1>3, <2>3, <2>5, BecomeKeeps
<1>5. CASE status # "ACCEPTED"
  <2>1. q = Moving(StateOf(status), Idle, Idle)
    BY <1>1, <1>2, <1>5 DEF ComputedFrom
  <2>2. q \in TaskStates({Idle}) /\ q.at = "move"
    BY <1>1, <2>1, MatrixStates, TaskMade DEF Moving
  <2> QED BY <1>1, <1>2, <1>3, <2>2, BecomeKeeps
<1> QED BY <1>4, <1>5

\* The steps of the other functions a call is in.
LEMMA AdvanceKeeps ==
    ASSUME CorridorInv, NEW t \in Tasks, Advance(t)
    PROVE  CorridorInv'
<1>1. /\ status \in RelationshipStatus /\ corridor \in CorridorState /\ touched \in BOOLEAN
      /\ failures \in 0..MaxFailures
  BY DEF CorridorInv, CorridorTypeOK
<1>2. ASSUME AcceptWrite(t) PROVE CorridorInv'
  <2>1. Syncing \in TaskStates({Idle}) /\ Syncing.at = "sync"
    BY TaskMade DEF Syncing
  <2> QED BY <1>1, <1>2, <2>1, BecomeKeeps DEF AcceptWrite, RelationshipStatus
<1>3. ASSUME SyncRead(t) PROVE CorridorInv'
  <2>1. Mirroring(status) \in TaskStates({Idle}) /\ Mirroring(status).at = "mirror"
    BY <1>1, TaskMade DEF Mirroring
  <2> QED BY <1>1, <1>3, <2>1, BecomeKeeps DEF SyncRead, rows
<1>4. ASSUME Mirror(t) PROVE CorridorInv'
  <2>1. StateOf(task[t].status) \in CorridorState
    BY <1>4, TaskFacts, MatrixStates DEF CorridorInv, Mirror
  <2>2. Idle \in TaskStates({Idle}) /\ Idle.at = "idle"
    BY TaskMade DEF Idle
  <2> QED BY <1>1, <1>4, <2>1, <2>2, BecomeKeeps DEF Mirror
<1>5. ASSUME ComputeRead(t) PROVE CorridorInv'
  BY <1>5, ComputeReadKeeps
<1>6. ASSUME ComputeWrite(t) PROVE CorridorInv'
  <2>1. task[t].to \in CorridorState /\ task[t].then = Idle
    BY <1>6, TaskFacts DEF CorridorInv, ComputeWrite
  <2>2. Idle \in TaskStates({Idle}) /\ Idle.at = "idle"
    BY TaskMade DEF Idle
  <2> QED BY <1>1, <1>6, <2>1, <2>2, BecomeKeeps DEF ComputeWrite
<1>7. ASSUME MoveRead(t) PROVE CorridorInv'
  <2>1. task[t].to \in CorridorState /\ task[t].otherwise = Idle /\ task[t].then \in OwnReturns
    BY <1>7, TaskFacts DEF CorridorInv, MoveRead
  <2>2. Idle \in TaskStates({Idle}) /\ Idle.at = "idle"
    BY TaskMade DEF Idle
  <2> DEFINE q == Moved(corridor, task[t].to, task[t].then)
  <2>3. q \in TaskStates({Idle}) /\ q.at = "moved" /\ q.from = corridor /\ q.to = task[t].to
    BY <1>1, <2>1, TaskMade DEF Moved
  <2>4. UNCHANGED <<status, corridor, touched, crashes, failures>>
    BY <1>7 DEF MoveRead, rows
  <2>5. CASE Allowed(corridor, task[t].to)
    <3>1. Become(t, q)
      BY <1>7, <2>5 DEF MoveRead
    <3> HIDE DEF q
    <3> QED BY <1>1, <2>3, <2>4, <2>5, <3>1, BecomeKeeps
  <2>6. CASE ~Allowed(corridor, task[t].to)
    <3>1. Become(t, Idle)
      BY <1>7, <2>1, <2>6 DEF MoveRead
    <3> QED BY <1>1, <2>2, <2>4, <3>1, BecomeKeeps
  <2> QED BY <2>5, <2>6
<1>8. ASSUME MoveWrite(t) PROVE CorridorInv'
  <2>1. task[t].to \in CorridorState /\ task[t].then \in OwnReturns
    BY <1>8, TaskFacts DEF CorridorInv, MoveWrite
  <2>2. task[t].then \in TaskStates({Idle}) /\ task[t].then.at \in {"idle", "compute"}
    BY <2>1, TaskMade DEF OwnReturns, Idle
  <2> QED BY <1>1, <1>8, <2>1, <2>2, BecomeKeeps DEF MoveWrite
<1> QED BY <1>2, <1>3, <1>4, <1>5, <1>6, <1>7, <1>8 DEF Advance

LEMMA CorridorInitially == Init => CorridorInv
<1> SUFFICES ASSUME Init PROVE CorridorInv
  OBVIOUS
<1>1. CorridorTypeOK
  <2>1. Idle \in TaskStates({Idle})
    BY TaskMade
  <2> DEFINE states == TaskStates({Idle})
  <2>2. [t \in Tasks |-> Idle] \in [Tasks -> states]
    BY <2>1
  <2>3. "INVITED" \in CorridorState /\ "PENDING" \in RelationshipStatus /\ 0 \in 0..MaxCrashes /\ 0 \in 0..MaxFailures
    BY MatrixStates, CrashesAssumption DEF RelationshipStatus
  <2> QED BY <2>2, <2>3 DEF Init, CorridorTypeOK
<1>2. WritersLegal
  BY DEF Init, WritersLegal, Idle
<1> QED BY <1>1, <1>2 DEF CorridorInv

LEMMA CorridorStep == CorridorInv /\ [Next]_governanceVars => CorridorInv'
<1> SUFFICES ASSUME CorridorInv, [Next]_governanceVars PROVE CorridorInv'
  OBVIOUS
<1>1. /\ status \in RelationshipStatus /\ corridor \in CorridorState /\ touched \in BOOLEAN
      /\ failures \in 0..MaxFailures
  BY DEF CorridorInv, CorridorTypeOK
<1>2. ASSUME NEW t \in Tasks, AcceptRead(t) PROVE CorridorInv'
  <2>1. Accepting \in TaskStates({Idle}) /\ Accepting.at = "accepting"
    BY TaskMade DEF Accepting
  <2> QED BY <1>1, <1>2, <2>1, BecomeKeeps DEF AcceptRead, rows
<1>3. ASSUME NEW t \in Tasks, NEW s \in {"REJECTED", "BLOCKED"}, Decide(t, s) PROVE CorridorInv'
  <2>1. Syncing \in TaskStates({Idle}) /\ Syncing.at = "sync"
    BY TaskMade DEF Syncing
  <2> QED BY <1>1, <1>3, <2>1, BecomeKeeps DEF Decide, RelationshipStatus
<1>4. ASSUME NEW t \in Tasks, Recompute(t) \/ FlushTouches(t) PROVE CorridorInv'
  <2>1. Computing(Idle) \in TaskStates({Idle}) /\ Computing(Idle).at = "compute"
    BY TaskMade DEF Computing
  <2> QED BY <1>1, <1>4, <2>1, BecomeKeeps DEF Recompute, FlushTouches, rows
<1>5. ASSUME NEW s \in RelationshipStatus, PatchRelationship(s) PROVE CorridorInv'
  BY <1>5 DEF PatchRelationship, CorridorInv, CorridorTypeOK, WritersLegal
<1>6. ASSUME TouchRelationship PROVE CorridorInv'
  BY <1>6 DEF TouchRelationship, rows, CorridorInv, CorridorTypeOK, WritersLegal
<1>7. ASSUME Crash PROVE CorridorInv'
  <2>1. CorridorTypeOK'
    <3>1. Idle \in TaskStates({Idle})
      BY TaskMade
    <3> DEFINE states == TaskStates({Idle})
    <3>2. [t \in Tasks |-> Idle] \in [Tasks -> states]
      BY <3>1
    <3>3. crashes + 1 \in 0..MaxCrashes
      BY <1>7, CrashesAssumption DEF Crash, CorridorInv, CorridorTypeOK
    <3> QED BY <1>7, <3>2, <3>3 DEF Crash, rows, CorridorInv, CorridorTypeOK
  <2>2. WritersLegal'
    BY <1>7 DEF Crash, WritersLegal, Idle
  <2> QED BY <2>1, <2>2 DEF CorridorInv
<1>8. ASSUME NEW t \in Tasks, QueryFails(t) PROVE CorridorInv'
  <2>1. /\ Idle \in TaskStates({Idle}) /\ Idle.at = "idle"
        /\ Become(t, Idle)
    BY <1>8, TaskMade, TaskFacts DEF QueryFails, CorridorInv, Idle
  <2>2. failures' \in 0..MaxFailures
    BY <1>1, <1>8, CrashesAssumption DEF QueryFails
  <2> QED BY <1>1, <1>8, <2>1, <2>2, BecomeKeeps DEF QueryFails, rows
<1>9. ASSUME UNCHANGED governanceVars PROVE CorridorInv'
  BY <1>9 DEF governanceVars, CorridorInv, CorridorTypeOK, WritersLegal
<1> QED BY <1>2, <1>3, <1>4, <1>5, <1>6, <1>7, <1>8, <1>9, AdvanceKeeps DEF Next

-----------------------------------------------------------------------------
\* Status, corridor, touches and calls keep their types for any number of calls and restarts.
THEOREM CorridorTypeCorrect == Spec => []CorridorTypeOK
<1>1. CorridorInv => CorridorTypeOK
  BY DEF CorridorInv
<1> QED BY CorridorInitially, CorridorStep, <1>1, PTL DEF Spec

\* The corridor leaves its matrix, or a health computation a protected state, only by the mirror
\* or by a writer whose reading is stale, for any number of calls and restarts.
THEOREM CorridorLegalOrStale == Spec => LegalOrStale
<1> DEFINE Legal ==
      \/ \E t \in Tasks : MirrorWrite(t) \/ StaleWrite(t)
      \/ Allowed(corridor, corridor')
           /\ \A t \in Tasks : task[t].at = "computed" /\ task'[t] # task[t]
                                  => corridor \notin ProtectedCorridorStates
<1>1. CorridorInv /\ [Next]_governanceVars => [Legal]_corridor
  <2> SUFFICES ASSUME CorridorInv, [Next]_governanceVars, corridor' # corridor PROVE Legal
    OBVIOUS
  <2>1. PICK t \in Tasks : Mirror(t) \/ ComputeWrite(t) \/ MoveWrite(t)
    BY DEF governanceVars, rows, Next, Advance, AcceptRead, AcceptWrite, Decide, PatchRelationship, SyncRead,
           TouchRelationship, FlushTouches, Recompute, ComputeRead, MoveRead, QueryFails, Crash
  <2>2. CASE Mirror(t)
    <3>1. task[t].at = "mirror" /\ task'[t] = Idle
      BY <2>2 DEF Mirror, Become, CorridorInv, CorridorTypeOK
    <3> QED BY <3>1 DEF MirrorWrite, Idle
  <2>3. CASE ComputeWrite(t)
    <3>1. /\ task[t].at = "computed" /\ corridor' = task[t].to
          /\ task'[t] # task[t]
          /\ \A u \in Tasks : task'[u] # task[u] => u = t
      <4>1. task[t].then = Idle
        BY <2>3, TaskFacts DEF ComputeWrite, CorridorInv
      <4> QED BY <2>3, <4>1 DEF ComputeWrite, Become, CorridorInv, CorridorTypeOK, Idle
    <3> QED BY <3>1 DEF StaleWrite, CorridorInv, WritersLegal
  <2>4. CASE MoveWrite(t)
    <3>1. /\ task[t].at = "moved" /\ corridor' = task[t].to
          /\ task'[t] # task[t]
          /\ \A u \in Tasks : task'[u] # task[u] => u = t
      <4>1. task[t].then.at \in {"idle", "compute"}
        BY <2>4, TaskFacts DEF MoveWrite, CorridorInv, OwnReturns, Idle
      <4> QED BY <2>4, <4>1 DEF MoveWrite, Become, CorridorInv, CorridorTypeOK
    <3> QED BY <3>1 DEF StaleWrite, CorridorInv, WritersLegal
  <2> QED BY <2>1, <2>2, <2>3, <2>4
<1>2. CorridorInv /\ [Next]_governanceVars => CorridorInv'
  BY CorridorStep
<1> QED BY CorridorInitially, <1>1, <1>2, PTL DEF Spec, LegalOrStale

-----------------------------------------------------------------------------
(* SponsoredSync. *)

\* Where a corridor function returns to.
Ends == {Idle, Announcing("accepted"), Announcing("rejected")}

Returns == Ends \cup {Computing(e) : e \in Ends}

\* What is needed of the state of a task, here and in CorridorGovernance.
Shaped(q) ==
    /\ q.at \in {"compute", "computed"} => q.then \in Ends
    /\ q.at = "move" => q.then \in Returns /\ q.otherwise \in {Idle, q.then}
    /\ q.at = "moved" => q.then \in Returns
    /\ q.at \in {"claim", "claimed", "apply"} => q.outcome \in Outcome
    /\ q.at \in {"claim", "claimed"} => q.of \in Relationships
    /\ q.at = "announce" => q \in Ends

SponsoredShape ==
    /\ task = [t \in Tasks |-> task[t]]
    /\ \A t \in Tasks : Shaped(task[t])
    /\ announced \in Nat /\ rejections \in Nat /\ crashes \in Nat
    /\ {due, converted, raced} \subseteq BOOLEAN

\* A call that will announce an acceptance if nothing stops it, and one that may come to it.
Promising(q) ==
    \/ q = Announcing("accepted")
    \/ q.at \in {"compute", "computed"} /\ q.then = Announcing("accepted")
    \/ q.at \in {"move", "moved"}
         /\ q.then \in {Announcing("accepted"), Computing(Announcing("accepted"))}

\* A sync of this relationship, up to the corridor.
Own(q) == q.at = "apply" \/ (q.at \in {"claim", "claimed"} /\ q.of = "own")

Undecided(q) == Own(q) /\ q.at # "claim" /\ q.outcome = "accepted"

Promises == {t \in Tasks : Promising(task[t])}

Candidates == {t \in Tasks : Undecided(task[t])}

\* What the window is worth: nothing once it names another relationship for good.
WindowWorth ==
    IF "own" \in asked THEN 1
    ELSE IF names # "own" THEN 0
    ELSE Cardinality(Candidates) + IF window = "RELATIONSHIP_ACCEPTED" THEN 0 ELSE 1

\* The announcements still to come.
Worth == Cardinality(Promises) + IF due THEN 0 ELSE WindowWorth

AnnouncementsPaid ==
    /\ IsFiniteSet(Promises) /\ IsFiniteSet(Candidates)
    /\ announced + Worth <= 1 + rejections

\* While no two syncs overlap there, the one between its two updates has claimed the window.
ClaimsHeld ==
    \/ raced \/ crashes > 0
    \/ \A t \in Tasks : task[t].at = "claimed" =>
          /\ \A u \in Tasks : task[u].at = "claimed" => u = t
          /\ window \in {WindowOf(task[t].outcome), "SPONSORED_WINDOW_EXPIRED", "RELATIONSHIP_REQUESTED"}
          /\ task[t].outcome = "accepted" => converted

\* Until the window names this relationship, nothing is synchronised for it.
LinkedFirst == "own" \in asked => names # "own" /\ \A t \in Tasks : ~Own(task[t])

SponsoredInv ==
    /\ SponsoredShape
    /\ AnnouncementsPaid
    /\ ClaimsHeld
    /\ LinkedFirst
    /\ RequestsFollowWindow

-----------------------------------------------------------------------------
\* The states a call can be left in, and what they promise.
LEMMA Shapes ==
    /\ \A q \in {Idle, Accepting, Syncing} : Shaped(q) /\ ~Promising(q) /\ ~Own(q) /\ ~Undecided(q) /\ q.at # "claimed"
    /\ \A s \in RelationshipStatus :
          LET q == Mirroring(s) IN Shaped(q) /\ ~Promising(q) /\ ~Own(q) /\ ~Undecided(q) /\ q.at # "claimed"
BY DEF Shaped, Promising, Own, Undecided, Idle, Accepting, Syncing, Mirroring, Announcing

\* The states that carry where a function returns to.
LEMMA ReturnShapes ==
    ASSUME NEW e \in Ends, NEW r \in Returns, NEW f, NEW g
    PROVE  /\ Shaped(e) /\ ~Own(e) /\ ~Undecided(e) /\ e.at # "claimed"
           /\ Promising(e) <=> e = Announcing("accepted")
           /\ Shaped(r) /\ ~Own(r) /\ ~Undecided(r) /\ r.at # "claimed"
           /\ Promising(r) <=> r \in {Announcing("accepted"), Computing(Announcing("accepted"))}
           /\ LET q == Computing(e) IN /\ Shaped(q) /\ ~Own(q) /\ ~Undecided(q) /\ q.at # "claimed"
                                       /\ Promising(q) <=> Promising(e)
           /\ LET q == Computed(f, g, e) IN /\ Shaped(q) /\ ~Own(q) /\ ~Undecided(q) /\ q.at # "claimed"
                                            /\ Promising(q) <=> Promising(e)
           /\ LET q == Moved(f, g, r) IN /\ Shaped(q) /\ ~Own(q) /\ ~Undecided(q) /\ q.at # "claimed"
                                         /\ Promising(q) <=> Promising(r)
           /\ LET q == Moving(f, r, Idle) IN /\ Shaped(q) /\ ~Own(q) /\ ~Undecided(q) /\ q.at # "claimed"
                                             /\ Promising(q) <=> Promising(r)
           /\ LET q == Moving(f, r, r) IN /\ Shaped(q) /\ ~Own(q) /\ ~Undecided(q) /\ q.at # "claimed"
                                          /\ Promising(q) <=> Promising(r)
<1>1. /\ Idle.at = "idle"
      /\ \A o : Announcing(o).at = "announce" /\ Announcing(o).outcome = o
      /\ \A x : Computing(x).at = "compute" /\ Computing(x).then = x
  BY DEF Idle, Announcing, Computing
<1>2. /\ Computed(f, g, e).at = "computed" /\ Computed(f, g, e).then = e
      /\ Moved(f, g, r).at = "moved" /\ Moved(f, g, r).then = r
      /\ \A x, y : Moving(f, x, y).at = "move" /\ Moving(f, x, y).then = x /\ Moving(f, x, y).otherwise = y
  BY DEF Computed, Moved, Moving
<1>3. /\ e = Idle \/ e = Announcing("accepted") \/ e = Announcing("rejected")
      /\ Announcing("accepted") # Announcing("rejected") /\ Idle # Announcing("accepted")
  BY <1>1 DEF Ends
<1>4. Shaped(e) /\ ~Own(e) /\ ~Undecided(e) /\ e.at # "claimed" /\ (Promising(e) <=> e = Announcing("accepted"))
  BY <1>1, <1>3 DEF Shaped, Own, Undecided, Promising, Outcome
<1>5. r \in Ends \/ \E x \in Ends : r = Computing(x)
  BY DEF Returns
<1>6. /\ Shaped(r) /\ ~Own(r) /\ ~Undecided(r) /\ r.at # "claimed"
      /\ Promising(r) <=> r \in {Announcing("accepted"), Computing(Announcing("accepted"))}
  <2>1. CASE r \in Ends
    <3>1. r = Idle \/ r = Announcing("accepted") \/ r = Announcing("rejected")
      BY <2>1 DEF Ends
    <3> QED BY <1>1, <1>3, <2>1, <3>1 DEF Shaped, Own, Undecided, Promising, Outcome
  <2>2. CASE \E x \in Ends : r = Computing(x)
    <3>1. PICK x \in Ends : r = Computing(x)
      BY <2>2
    <3>2. r.at = "compute" /\ r.then = x
      BY <1>1, <3>1
    <3> QED BY <1>1, <3>1, <3>2 DEF Shaped, Own, Undecided, Promising
  <2> QED BY <1>5, <2>1, <2>2
<1>7. LET q == Computing(e) IN Shaped(q) /\ ~Own(q) /\ ~Undecided(q) /\ q.at # "claimed" /\ (Promising(q) <=> Promising(e))
  BY <1>1, <1>4 DEF Shaped, Own, Undecided, Promising
<1>8. LET q == Computed(f, g, e) IN
        Shaped(q) /\ ~Own(q) /\ ~Undecided(q) /\ q.at # "claimed" /\ (Promising(q) <=> Promising(e))
  BY <1>1, <1>2, <1>4 DEF Shaped, Own, Undecided, Promising
<1>9. LET q == Moved(f, g, r) IN
        Shaped(q) /\ ~Own(q) /\ ~Undecided(q) /\ q.at # "claimed" /\ (Promising(q) <=> Promising(r))
  BY <1>1, <1>2, <1>6 DEF Shaped, Own, Undecided, Promising
<1>10. \A y \in {Idle, r} : LET q == Moving(f, r, y) IN
        Shaped(q) /\ ~Own(q) /\ ~Undecided(q) /\ q.at # "claimed" /\ (Promising(q) <=> Promising(r))
  BY <1>1, <1>2, <1>6 DEF Shaped, Own, Undecided, Promising
<1> QED BY <1>4, <1>6, <1>7, <1>8, <1>9, <1>10

\* The promises and the candidates after a step of one call.
LEMMA OneTask ==
    ASSUME SponsoredShape, NEW t \in Tasks, NEW q, Shaped(q), Become(t, q)
    PROVE  /\ task' = [u \in Tasks |-> task'[u]]
           /\ \A u \in Tasks : task'[u] = (IF u = t THEN q ELSE task[u]) /\ Shaped(task'[u])
           /\ Promises' = IF Promising(q) THEN Promises \cup {t} ELSE Promises \ {t}
           /\ Candidates' = IF Undecided(q) THEN Candidates \cup {t} ELSE Candidates \ {t}
<1>1. task' = [u \in Tasks |-> IF u = t THEN q ELSE task[u]]
  BY DEF SponsoredShape, Become
<1>2. \A u \in Tasks : task'[u] = IF u = t THEN q ELSE task[u]
  BY <1>1
<1>3. Promises' = IF Promising(q) THEN Promises \cup {t} ELSE Promises \ {t}
  <2>1. Promises' = {u \in Tasks : Promising(task'[u])}
    BY DEF Promises, Promising
  <2> QED BY <1>2, <2>1 DEF Promises
<1>4. Candidates' = IF Undecided(q) THEN Candidates \cup {t} ELSE Candidates \ {t}
  <2>1. Candidates' = {u \in Tasks : Undecided(task'[u])}
    BY DEF Candidates, Own, Undecided
  <2> QED BY <1>2, <2>1 DEF Candidates
<1> QED BY <1>1, <1>2, <1>3, <1>4 DEF SponsoredShape

\* A call that goes on without promising more, and touches nothing of the sponsored side.
LEMMA QuietTask ==
    ASSUME SponsoredInv, NEW t \in Tasks, NEW q, Shaped(q), Become(t, q),
           Promising(q) => Promising(task[t]),
           Own(q) => "own" \notin asked,
           ~Undecided(q), ~Undecided(task[t]), q.at # "claimed", task[t].at # "claimed",
           UNCHANGED <<crashes, windowVars, announced, rejections, raced>>
    PROVE  SponsoredInv'
<1>1. /\ \A u \in Tasks : task'[u] = (IF u = t THEN q ELSE task[u]) /\ Shaped(task'[u])
      /\ task' = [u \in Tasks |-> task'[u]]
      /\ Promises' = IF Promising(q) THEN Promises \cup {t} ELSE Promises \ {t}
      /\ Candidates' = IF Undecided(q) THEN Candidates \cup {t} ELSE Candidates \ {t}
  BY OneTask DEF SponsoredInv
<1>2. UNCHANGED <<crashes, window, names, converted, requests, asked, due, announced, rejections, raced>>
  BY DEF windowVars
<1>3. SponsoredShape'
  BY <1>1, <1>2 DEF SponsoredInv, SponsoredShape
<1>4. Promises' \subseteq Promises /\ Candidates' = Candidates
  BY <1>1 DEF Promises, Candidates
<1>5. AnnouncementsPaid'
  <2>1. /\ IsFiniteSet(Promises) /\ IsFiniteSet(Candidates)
        /\ IsFiniteSet(Promises') /\ Cardinality(Promises') <= Cardinality(Promises)
        /\ Cardinality(Promises) \in Nat /\ Cardinality(Promises') \in Nat /\ Cardinality(Candidates) \in Nat
    BY <1>4, FS_Subset, FS_CardinalityType DEF SponsoredInv, AnnouncementsPaid
  <2> QED BY <1>2, <1>4, <2>1 DEF SponsoredInv, SponsoredShape, AnnouncementsPaid, Worth, WindowWorth
<1>6. ClaimsHeld'
  BY <1>1, <1>2 DEF SponsoredInv, ClaimsHeld
<1>7. RequestsFollowWindow'
  BY <1>1, <1>2 DEF SponsoredInv, RequestsFollowWindow, Settling
<1>8. LinkedFirst'
  <2>1. \A u \in Tasks : Own(task'[u]) => Own(q) \/ Own(task[u])
    BY <1>1
  <2> QED BY <1>2, <2>1 DEF SponsoredInv, LinkedFirst, Own
<1> QED BY <1>3, <1>5, <1>6, <1>7, <1>8 DEF SponsoredInv

\* A step that changes no call and nothing of the sponsored side.
LEMMA QuietRest ==
    ASSUME SponsoredInv, UNCHANGED <<task, crashes, windowVars, announced, rejections, raced>>
    PROVE  SponsoredInv'
BY DEF windowVars, SponsoredInv, SponsoredShape, AnnouncementsPaid, Worth, WindowWorth, Promises,
       Candidates, ClaimsHeld, LinkedFirst,
       RequestsFollowWindow, Settling

\* What a call in one of the corridor's functions holds.
LEMMA Held ==
    ASSUME SponsoredInv, NEW t \in Tasks
    PROVE  /\ task[t].at \in {"compute", "computed"} => /\ task[t].then \in Ends /\ ~Undecided(task[t])
                                                        /\ Promising(task[t].then) => Promising(task[t])
           /\ task[t].at \in {"move", "moved"} => /\ task[t].then \in Returns /\ ~Undecided(task[t])
                                                  /\ Promising(task[t].then) => Promising(task[t])
           /\ task[t].at = "move" => task[t].otherwise \in {Idle, task[t].then}
<1>1. Shaped(task[t])
  BY DEF SponsoredInv, SponsoredShape
<1>2. task[t].at \in {"compute", "computed"} => task[t].then \in Ends
  BY <1>1 DEF Shaped
<1>3. task[t].at \in {"move", "moved"} => task[t].then \in Returns
  BY <1>1 DEF Shaped
<1>4. /\ task[t].at \in {"compute", "computed"} /\ Promising(task[t].then) => Promising(task[t])
      /\ task[t].at \in {"move", "moved"} /\ Promising(task[t].then) => Promising(task[t])
  <2>1. task[t].then \in Ends => (Promising(task[t].then) => task[t].then = Announcing("accepted"))
    BY ReturnShapes, Idle \in Returns DEF Ends, Returns
  <2>2. task[t].then \in Returns =>
          (Promising(task[t].then) => task[t].then \in {Announcing("accepted"), Computing(Announcing("accepted"))})
    BY ReturnShapes, Idle \in Ends DEF Ends
  <2> QED BY <1>2, <1>3, <2>1, <2>2 DEF Promising
<1>5. task[t].at = "move" => task[t].otherwise \in {Idle, task[t].then}
  BY <1>1 DEF Shaped
<1>6. task[t].at \in {"compute", "computed", "move", "moved"} => ~Undecided(task[t])
  BY DEF Own, Undecided
<1> QED BY <1>2, <1>3, <1>4, <1>5, <1>6

\* The calls of CorridorGovernance promise nothing they did not promise before.
LEMMA GovernanceKeeps ==
    ASSUME SponsoredInv, GovernanceStep
    PROVE  SponsoredInv'
<1>1. /\ UNCHANGED <<window, names, converted, requests, due, announced, rejections, raced>>
      /\ asked' = IF crashes' = crashes THEN asked ELSE {}
      /\ crashes' = crashes => UNCHANGED windowVars
      /\ Next
  BY DEF GovernanceStep, windowVars
<1>2. Idle \in Ends /\ Idle \in Returns /\ ~Promising(Idle) /\ ~Own(Idle) /\ ~Undecided(Idle) /\ Idle.at # "claimed"
  BY Shapes DEF Ends, Returns
<1>3. ASSUME NEW t \in Tasks, task[t] \in {Idle, Accepting, Syncing} \/ task[t].at = "mirror",
             NEW q, Become(t, q), UNCHANGED crashes,
             \/ q \in {Idle, Accepting, Syncing, Computing(Idle)}
             \/ \E s \in RelationshipStatus : q = Mirroring(s)
      PROVE  SponsoredInv'
  <2>1. Shaped(q) /\ ~Promising(q) /\ ~Own(q) /\ ~Undecided(q) /\ q.at # "claimed"
    BY <1>2, <1>3, Shapes, ReturnShapes
  <2>2. ~Undecided(task[t]) /\ task[t].at # "claimed"
    BY <1>3, Shapes DEF Own, Undecided
  <2> QED BY <1>1, <1>3, <2>1, <2>2, QuietTask
<1>4. ASSUME NEW t \in Tasks, AcceptRead(t) PROVE SponsoredInv'
  BY <1>3, <1>4 DEF AcceptRead
<1>5. ASSUME NEW t \in Tasks, NEW s, Decide(t, s) PROVE SponsoredInv'
  BY <1>3, <1>5 DEF Decide
<1>6. ASSUME NEW t \in Tasks, Recompute(t) \/ FlushTouches(t) PROVE SponsoredInv'
  BY <1>3, <1>6 DEF Recompute, FlushTouches
<1>7. ASSUME NEW t \in Tasks, AcceptWrite(t) PROVE SponsoredInv'
  BY <1>3, <1>7 DEF AcceptWrite
<1>8. ASSUME NEW t \in Tasks, SyncRead(t) PROVE SponsoredInv'
  <2>1. task[t] = Syncing /\ Become(t, Mirroring(status)) /\ UNCHANGED crashes
    BY <1>8 DEF SyncRead
  <2>2. Shaped(Mirroring(status)) /\ ~Promising(Mirroring(status)) /\ ~Own(Mirroring(status)) /\ ~Undecided(Mirroring(status))
        /\ Mirroring(status).at # "claimed"
    BY DEF Shaped, Promising, Own, Undecided, Mirroring, Announcing
  <2>3. ~Undecided(task[t]) /\ task[t].at # "claimed"
    BY <2>1, Shapes
  <2> QED BY <1>1, <2>1, <2>2, <2>3, QuietTask
<1>9. ASSUME NEW t \in Tasks, Mirror(t) PROVE SponsoredInv'
  BY <1>3, <1>9 DEF Mirror
<1>10. ASSUME NEW t \in Tasks, ComputeRead(t) PROVE SponsoredInv'
  <2> DEFINE then == task[t].then
  <2>1. /\ task[t].at = "compute" /\ then \in Ends /\ then \in Returns /\ ~Undecided(task[t])
        /\ Promising(then) => Promising(task[t])
    BY <1>10, Held DEF ComputeRead, Returns
  <2>2. PICK q : Become(t, q) /\ (\/ \E g : q = Computed(corridor, g, then)
                                  \/ q = Moving(StateOf(status), then, then))
    BY <1>10 DEF ComputeRead, ComputedFrom
  <2> HIDE DEF then
  <2>3. Shaped(q) /\ ~Own(q) /\ ~Undecided(q) /\ q.at # "claimed" /\ (Promising(q) <=> Promising(then))
    BY <2>1, <2>2, ReturnShapes
  <2>4. UNCHANGED crashes
    BY <1>10 DEF ComputeRead
  <2> QED BY <1>1, <2>1, <2>2, <2>3, <2>4, QuietTask
<1>11. ASSUME NEW t \in Tasks, ComputeWrite(t) \/ MoveWrite(t) PROVE SponsoredInv'
  <2>1. /\ task[t].at \in {"computed", "moved"} /\ task[t].then \in Returns /\ ~Undecided(task[t])
        /\ Promising(task[t].then) => Promising(task[t])
        /\ Become(t, task[t].then) /\ UNCHANGED crashes
    BY <1>11, Held DEF ComputeWrite, MoveWrite, Returns
  <2>2. Shaped(task[t].then) /\ ~Own(task[t].then) /\ ~Undecided(task[t].then) /\ task[t].then.at # "claimed"
    BY <1>2, <2>1, ReturnShapes
  <2> QED BY <1>1, <2>1, <2>2, QuietTask
<1>12. ASSUME NEW t \in Tasks, MoveRead(t) PROVE SponsoredInv'
  <2>1. /\ task[t].at = "move" /\ task[t].then \in Returns /\ ~Undecided(task[t])
        /\ Promising(task[t].then) => Promising(task[t])
        /\ task[t].otherwise \in {Idle, task[t].then}
    BY <1>12, Held DEF MoveRead
  <2>2. PICK q : /\ Become(t, q) /\ UNCHANGED crashes
                 /\ q = Moved(corridor, task[t].to, task[t].then) \/ q \in {Idle, task[t].then}
    BY <1>12, <2>1 DEF MoveRead
  <2>3. Shaped(q) /\ ~Own(q) /\ ~Undecided(q) /\ q.at # "claimed" /\ (Promising(q) => Promising(task[t].then))
    BY <1>2, <2>1, <2>2, ReturnShapes
  <2> QED BY <1>1, <2>1, <2>2, <2>3, QuietTask
<1>13. ASSUME NEW s, PatchRelationship(s) PROVE SponsoredInv'
  BY <1>1, <1>13, QuietRest DEF PatchRelationship
<1>14. ASSUME TouchRelationship PROVE SponsoredInv'
  BY <1>1, <1>14, QuietRest DEF TouchRelationship
<1>15. ASSUME NEW t \in Tasks, QueryFails(t) PROVE SponsoredInv'
  <2>1. PICK q : /\ Become(t, q) /\ UNCHANGED crashes
                 /\ q = Idle \/ (task[t].at = "move" /\ q \in {Idle, task[t].then})
    BY <1>15, Held DEF QueryFails
  <2>2. /\ task[t].at \in {"mirror", "compute", "move"}
        /\ ~Undecided(task[t]) /\ task[t].at # "claimed"
    BY <1>15 DEF QueryFails, Own, Undecided
  <2>3. Shaped(q) /\ ~Own(q) /\ ~Undecided(q) /\ q.at # "claimed" /\ (Promising(q) => Promising(task[t]))
    <3>1. CASE q = Idle
      BY <1>2, <3>1, Shapes
    <3>2. CASE task[t].at = "move" /\ q = task[t].then
      BY <1>2, <3>2, Held, ReturnShapes
    <3> QED BY <2>1, <3>1, <3>2
  <2> QED BY <1>1, <2>1, <2>2, <2>3, QuietTask
<1>16. ASSUME Crash PROVE SponsoredInv'
  <2>1. /\ task' = [t \in Tasks |-> Idle] /\ crashes' = crashes + 1
        /\ UNCHANGED <<window, names, converted, requests, due, announced, rejections, raced>>
        /\ asked' = {}
    <3>1. crashes + 1 # crashes
      BY DEF SponsoredInv, SponsoredShape
    <3> QED BY <1>1, <1>16, <3>1 DEF Crash
  <2>2. \A t \in Tasks : task'[t] = Idle
    BY <2>1
  <2>3. Promises' = {} /\ Candidates' = {}
    <3>1. Promises' = {u \in Tasks : Promising(task'[u])} /\ Candidates' = {u \in Tasks : Undecided(task'[u])}
      BY DEF Promises, Promising, Candidates, Undecided
    <3> QED BY <1>2, <2>2, <3>1
  <2>4. SponsoredShape'
    BY <2>1, <2>2, Shapes DEF SponsoredInv, SponsoredShape
  <2>5. AnnouncementsPaid'
    <3>1. Cardinality(Promises) \in Nat /\ Cardinality(Candidates) \in Nat
      BY FS_CardinalityType DEF SponsoredInv, AnnouncementsPaid
    <3> QED BY <2>1, <2>3, <3>1, FS_EmptySet DEF SponsoredInv, SponsoredShape, AnnouncementsPaid, Worth, WindowWorth
  <2>6. crashes' > 0
    BY <2>1 DEF SponsoredInv, SponsoredShape
  <2> QED BY <2>1, <2>4, <2>5, <2>6 DEF SponsoredInv, ClaimsHeld, LinkedFirst, RequestsFollowWindow
<1> QED BY <1>1, <1>4, <1>5, <1>6, <1>7, <1>8, <1>9, <1>10, <1>11, <1>12, <1>13, <1>14, <1>15, <1>16 DEF Next, Advance

-----------------------------------------------------------------------------
\* The steps of a sync.
LEMMA SyncShapes ==
    ASSUME NEW o \in Outcome, NEW r \in Relationships
    PROVE  /\ LET q == Claiming(r, o) IN
                /\ Shaped(q) /\ q.at = "claim" /\ q.of = r /\ q.outcome = o
                /\ ~Promising(q) /\ ~Undecided(q) /\ (Own(q) <=> r = "own")
           /\ LET q == Claimed(r, o) IN
                /\ Shaped(q) /\ q.at = "claimed" /\ q.of = r /\ q.outcome = o
                /\ ~Promising(q) /\ (Undecided(q) <=> r = "own" /\ o = "accepted") /\ (Own(q) <=> r = "own")
           /\ LET q == Applying(o) IN
                /\ Shaped(q) /\ q.at = "apply" /\ q.outcome = o
                /\ ~Promising(q) /\ (Undecided(q) <=> o = "accepted") /\ Own(q)
BY DEF Shaped, Promising, Own, Undecided, Claiming, Claimed, Applying, Announcing

\* A sync begins: of this relationship only while the window names it.
LEMMA SyncKeeps ==
    ASSUME SponsoredInv, NEW t \in Tasks, Sync(t) \/ \E o \in Outcome : SyncOther(t, o)
    PROVE  SponsoredInv'
<1>1. PICK r \in Relationships, o \in Outcome :
        /\ Become(t, Claiming(r, o)) /\ task[t] = Idle
        /\ r = "own" => names = "own"
        /\ UNCHANGED <<crashes, windowVars, announced, rejections, raced>>
  BY DEF Sync, SyncOther, historyVars, OutcomeOf, Outcome, Relationships
<1>2. ~Undecided(task[t]) /\ task[t].at # "claimed"
  BY <1>1, Shapes
<1>3. r = "own" => "own" \notin asked
  BY <1>1 DEF SponsoredInv, LinkedFirst
<1> QED BY <1>1, <1>2, <1>3, SyncShapes, QuietTask

LEMMA ClaimKeeps ==
    ASSUME SponsoredInv, NEW t \in Tasks, Claim(t)
    PROVE  SponsoredInv'
<1>1. PICK r \in Relationships, o \in Outcome : r = task[t].of /\ o = task[t].outcome
  BY DEF Claim, SponsoredInv, SponsoredShape, Shaped
<1>2. /\ task[t].at = "claim" /\ ~Undecided(task[t]) /\ ~Promising(task[t])
      /\ Own(task[t]) <=> r = "own"
  BY <1>1 DEF Claim, Own, Undecided, Promising, Announcing
<1>3. CASE ~Unclaimed(o)
  <2>1. Become(t, Idle) /\ UNCHANGED <<crashes, windowVars, announced, rejections, raced>>
    BY <1>1, <1>3 DEF Claim, windowVars
  <2> QED BY <1>2, <2>1, Shapes, QuietTask
<1>4. CASE Unclaimed(o)
  <2>1. /\ window' = WindowOf(o) /\ window # WindowOf(o)
        /\ converted' = (converted \/ o = "accepted")
        /\ rejections' = IF o = "rejected" /\ ~due THEN rejections + 1 ELSE rejections
        /\ raced' = (raced \/ \E u \in Tasks \ {t} : task[u].at = "claimed")
        /\ Become(t, Claimed(r, o))
        /\ UNCHANGED <<crashes, names, requests, asked, due, announced>>
    BY <1>1, <1>4 DEF Claim, Unclaimed
  <2>2. /\ \A u \in Tasks : task'[u] = (IF u = t THEN Claimed(r, o) ELSE task[u]) /\ Shaped(task'[u])
        /\ task' = [u \in Tasks |-> task'[u]]
        /\ Promises' = Promises \ {t}
        /\ Candidates' = IF r = "own" /\ o = "accepted" THEN Candidates \cup {t} ELSE Candidates \ {t}
    BY <2>1, SyncShapes, OneTask DEF SponsoredInv
  <2>3. Promises' = Promises /\ t \notin Candidates
    BY <1>2, <2>2 DEF Promises, Candidates
  <2>4. SponsoredShape'
    BY <2>1, <2>2 DEF SponsoredInv, SponsoredShape
  <2>5. AnnouncementsPaid'
    <3>1. /\ IsFiniteSet(Promises) /\ IsFiniteSet(Candidates)
          /\ Cardinality(Promises) \in Nat /\ Cardinality(Candidates) \in Nat
      BY FS_CardinalityType DEF SponsoredInv, AnnouncementsPaid
    <3>2. CASE o = "accepted" /\ r = "own"
      <4>1. IsFiniteSet(Candidates') /\ Cardinality(Candidates') = Cardinality(Candidates) + 1
        BY <2>2, <2>3, <3>1, <3>2, FS_AddElement
      <4>2. window # "RELATIONSHIP_ACCEPTED" /\ window' = "RELATIONSHIP_ACCEPTED" /\ rejections' = rejections
        BY <2>1, <3>2 DEF WindowOf
      <4>3. "own" \notin asked
        BY <1>2, <3>2 DEF SponsoredInv, LinkedFirst
      <4> QED BY <2>1, <2>3, <3>1, <4>1, <4>2, <4>3
              DEF SponsoredInv, SponsoredShape, AnnouncementsPaid, Worth, WindowWorth
    <3>3. CASE o = "accepted" /\ r # "own"
      <4>1. Candidates' = Candidates
        BY <2>2, <2>3, <3>3
      <4>2. window # "RELATIONSHIP_ACCEPTED" /\ window' = "RELATIONSHIP_ACCEPTED" /\ rejections' = rejections
        BY <2>1, <3>3 DEF WindowOf
      <4> QED BY <2>1, <2>3, <3>1, <4>1, <4>2
              DEF SponsoredInv, SponsoredShape, AnnouncementsPaid, Worth, WindowWorth
    <3>4. CASE o = "rejected"
      <4>1. Candidates' = Candidates
        BY <2>2, <2>3, <3>4
      <4> QED BY <2>1, <2>3, <3>1, <3>4, <4>1
              DEF SponsoredInv, SponsoredShape, AnnouncementsPaid, Worth, WindowWorth
    <3> QED BY <3>2, <3>3, <3>4 DEF Outcome
  <2>6. ClaimsHeld'
    <3> SUFFICES ASSUME ~raced', ~(crashes' > 0), NEW u \in Tasks, task'[u].at = "claimed"
                 PROVE  /\ \A v \in Tasks : task'[v].at = "claimed" => v = u
                        /\ window' \in {WindowOf(task'[u].outcome), "SPONSORED_WINDOW_EXPIRED",
                                        "RELATIONSHIP_REQUESTED"}
                        /\ task'[u].outcome = "accepted" => converted'
      BY DEF ClaimsHeld, WindowOf
    <3>1. \A v \in Tasks : v # t => task'[v].at # "claimed"
      BY <2>1, <2>2
    <3>2. u = t /\ task'[t].outcome = o
      BY <2>2, <3>1, SyncShapes
    <3> QED BY <2>1, <3>1, <3>2
  <2>7. RequestsFollowWindow'
    BY <2>2, SyncShapes DEF RequestsFollowWindow, Settling
  <2>8. LinkedFirst'
    <3>1. \A u \in Tasks : Own(task'[u]) <=> Own(task[u])
      BY <1>2, <2>2, SyncShapes
    <3> QED BY <2>1, <3>1 DEF SponsoredInv, LinkedFirst, Own
  <2> QED BY <2>4, <2>5, <2>6, <2>7, <2>8 DEF SponsoredInv
<1> QED BY <1>3, <1>4

LEMMA UpdateRequestsKeeps ==
    ASSUME SponsoredInv, NEW t \in Tasks, UpdateRequests(t)
    PROVE  SponsoredInv'
<1>1. PICK r \in Relationships, o \in Outcome : r = task[t].of /\ o = task[t].outcome
  BY DEF UpdateRequests, SponsoredInv, SponsoredShape, Shaped
<1> DEFINE q == IF r = "own" THEN Applying(o) ELSE Idle
<1>2. /\ task[t].at = "claimed"
      /\ requests' = RequestsAfter(o)
      /\ Become(t, q)
      /\ UNCHANGED <<crashes, window, names, converted, asked, due, announced, rejections, raced>>
  BY <1>1 DEF UpdateRequests, historyVars
<1>3. /\ Shaped(q) /\ ~Promising(q) /\ q.at # "claimed"
      /\ Undecided(q) <=> r = "own" /\ o = "accepted"
      /\ Own(q) <=> r = "own"
  BY SyncShapes, Shapes
<1>4. /\ ~Promising(task[t])
      /\ Undecided(task[t]) <=> r = "own" /\ o = "accepted"
      /\ Own(task[t]) <=> r = "own"
  BY <1>1, <1>2 DEF Promising, Own, Undecided, Announcing
<1> HIDE DEF q
<1>5. /\ \A u \in Tasks : task'[u] = (IF u = t THEN q ELSE task[u]) /\ Shaped(task'[u])
      /\ task' = [u \in Tasks |-> task'[u]]
      /\ Promises' = Promises \ {t}
      /\ Candidates' = IF Undecided(q) THEN Candidates \cup {t} ELSE Candidates \ {t}
  BY <1>2, <1>3, OneTask DEF SponsoredInv
<1>6. Promises' = Promises /\ Candidates' = Candidates
  BY <1>3, <1>4, <1>5 DEF Promises, Candidates
<1>7. SponsoredShape'
  BY <1>2, <1>5 DEF SponsoredInv, SponsoredShape
<1>8. AnnouncementsPaid'
  BY <1>2, <1>6 DEF SponsoredInv, AnnouncementsPaid, Worth, WindowWorth
<1>9. ClaimsHeld'
  BY <1>2, <1>3, <1>5 DEF SponsoredInv, ClaimsHeld
<1>10. LinkedFirst'
  <2>1. \A u \in Tasks : Own(task'[u]) <=> Own(task[u])
    BY <1>3, <1>4, <1>5
  <2> QED BY <1>2, <2>1 DEF SponsoredInv, LinkedFirst, Own
<1>11. RequestsFollowWindow'
  <2> SUFFICES ASSUME ~raced, ~(crashes > 0) PROVE RequestsFollowWindow'
    BY <1>2 DEF RequestsFollowWindow
  <2>1. /\ window \in {WindowOf(o), "SPONSORED_WINDOW_EXPIRED", "RELATIONSHIP_REQUESTED"}
        /\ o = "accepted" => converted
    BY <1>1, <1>2 DEF SponsoredInv, ClaimsHeld
  <2>2. requests' = {IF o = "accepted" THEN "RELATIONSHIP_ACCEPTED_SYNCED" ELSE "REJECTED_COMMERCIAL"}
    BY <1>2 DEF RequestsAfter, RequestStateOf
  <2> QED BY <1>2, <2>1, <2>2 DEF RequestsFollowWindow, WindowOf, Outcome
<1> QED BY <1>7, <1>8, <1>9, <1>10, <1>11 DEF SponsoredInv

LEMMA ApplyOutcomeKeeps ==
    ASSUME SponsoredInv, NEW t \in Tasks, ApplyOutcome(t)
    PROVE  SponsoredInv'
<1>1. PICK o \in Outcome : o = task[t].outcome
  BY DEF ApplyOutcome, SponsoredInv, SponsoredShape, Shaped
<1> DEFINE then == Computing(Announcing(o))
<1>2. /\ task[t].at = "apply" /\ ~Promising(task[t]) /\ (Undecided(task[t]) <=> o = "accepted") /\ Own(task[t])
      /\ UNCHANGED <<crashes, windowVars, announced, rejections, raced>>
  BY <1>1 DEF ApplyOutcome, historyVars, Promising, Own, Undecided, Announcing
<1>3. PICK q : /\ Become(t, q)
               /\ \/ q = Idle
                  \/ o = "rejected" /\ q = Moving(RejectionTarget, then, Idle)
                  \/ o = "accepted" /\ Activable /\ q = Moving("ACTIVE", then, Idle)
  BY <1>1 DEF ApplyOutcome, Outcome
<1>4. then \in Returns /\ (Promising(then) <=> o = "accepted")
  <2>1. Announcing(o) \in Ends
    BY DEF Ends, Outcome
  <2>2. Promising(then) <=> Announcing(o) = Announcing("accepted")
    BY <2>1, ReturnShapes, Idle \in Returns DEF Ends, Returns
  <2>3. (Announcing(o) = Announcing("accepted")) <=> o = "accepted"
    BY DEF Announcing
  <2> QED BY <2>1, <2>2, <2>3 DEF Returns
<1> HIDE DEF then
<1>5. /\ Shaped(q) /\ ~Own(q) /\ ~Undecided(q) /\ q.at # "claimed"
      /\ Promising(q) => o = "accepted" /\ ~due /\ names = "own"
  <2>1. Idle \in Ends
    BY DEF Ends
  <2>2. CASE q = Idle
    BY <2>2, Shapes
  <2>3. CASE o = "rejected" /\ q = Moving(RejectionTarget, then, Idle)
    BY <1>4, <2>1, <2>3, ReturnShapes
  <2>4. CASE o = "accepted" /\ Activable /\ q = Moving("ACTIVE", then, Idle)
    BY <1>4, <2>1, <2>4, ReturnShapes DEF Activable
  <2> QED BY <1>3, <2>2, <2>3, <2>4
<1>6. /\ \A u \in Tasks : task'[u] = (IF u = t THEN q ELSE task[u]) /\ Shaped(task'[u])
      /\ task' = [u \in Tasks |-> task'[u]]
      /\ Promises' = IF Promising(q) THEN Promises \cup {t} ELSE Promises \ {t}
      /\ Candidates' = Candidates \ {t}
  BY <1>3, <1>5, OneTask DEF SponsoredInv
<1>7. SponsoredShape'
  BY <1>2, <1>6 DEF SponsoredInv, SponsoredShape, windowVars
<1>8. AnnouncementsPaid'
  <2>1. /\ IsFiniteSet(Promises) /\ IsFiniteSet(Candidates)
        /\ Cardinality(Promises) \in Nat /\ Cardinality(Candidates) \in Nat
    BY FS_CardinalityType DEF SponsoredInv, AnnouncementsPaid
  <2>2. t \notin Promises
    BY <1>2 DEF Promises
  <2>3. /\ IsFiniteSet(Candidates') /\ Cardinality(Candidates') \in Nat
        /\ Cardinality(Candidates') = IF o = "accepted" THEN Cardinality(Candidates) - 1 ELSE Cardinality(Candidates)
    <3>1. t \in Candidates <=> o = "accepted"
      BY <1>2 DEF Candidates
    <3> QED BY <1>6, <2>1, <3>1, FS_RemoveElement, FS_CardinalityType
  <2>4. UNCHANGED <<window, names, asked, due, announced, rejections>> /\ "own" \notin asked
    BY <1>2 DEF windowVars, SponsoredInv, LinkedFirst
  <2>5. CASE Promising(q)
    <3>1. IsFiniteSet(Promises') /\ Cardinality(Promises') = Cardinality(Promises) + 1
      BY <1>6, <2>1, <2>2, <2>5, FS_AddElement
    <3> QED BY <1>5, <2>1, <2>3, <2>4, <2>5, <3>1 DEF SponsoredInv, SponsoredShape, AnnouncementsPaid, Worth, WindowWorth
  <2>6. CASE ~Promising(q)
    <3>1. Promises' = Promises
      BY <1>6, <2>2, <2>6
    <3> QED BY <2>1, <2>3, <2>4, <3>1 DEF SponsoredInv, SponsoredShape, AnnouncementsPaid, Worth, WindowWorth
  <2> QED BY <2>5, <2>6
<1>9. ClaimsHeld'
  BY <1>2, <1>5, <1>6 DEF SponsoredInv, ClaimsHeld, windowVars
<1>10. RequestsFollowWindow'
  BY <1>2, <1>5, <1>6 DEF SponsoredInv, RequestsFollowWindow, Settling, windowVars
<1>11. LinkedFirst'
  <2>1. \A u \in Tasks : Own(task'[u]) => Own(task[u])
    BY <1>5, <1>6
  <2> QED BY <1>2, <2>1 DEF SponsoredInv, LinkedFirst, Own, windowVars
<1> QED BY <1>7, <1>8, <1>9, <1>10, <1>11 DEF SponsoredInv

LEMMA AnnounceKeeps ==
    ASSUME SponsoredInv, NEW t \in Tasks, Announce(t)
    PROVE  SponsoredInv'
<1>0. task[t] \in {Announcing("accepted"), Announcing("rejected")}
  BY DEF Announce, SponsoredInv, SponsoredShape, Shaped, Ends, Idle
<1>1. PICK o \in Outcome : o = task[t].outcome /\ task[t] = Announcing(o)
  BY <1>0 DEF Announcing, Outcome
<1>2. /\ task[t].at = "announce" /\ ~Undecided(task[t])
      /\ announced' = IF o = "accepted" THEN announced + 1 ELSE announced
      /\ Become(t, Idle)
      /\ UNCHANGED <<crashes, window, names, converted, requests, asked, due, rejections, raced>>
  BY <1>1 DEF Announce, windowVars, Own, Undecided
<1>3. /\ \A u \in Tasks : task'[u] = (IF u = t THEN Idle ELSE task[u]) /\ Shaped(task'[u])
      /\ task' = [u \in Tasks |-> task'[u]]
      /\ Promises' = Promises \ {t}
      /\ Candidates' = Candidates
  BY <1>2, Shapes, OneTask DEF SponsoredInv, Candidates
<1>4. SponsoredShape'
  BY <1>2, <1>3 DEF SponsoredInv, SponsoredShape
<1>5. AnnouncementsPaid'
  <2>1. /\ IsFiniteSet(Promises) /\ IsFiniteSet(Candidates)
        /\ Cardinality(Promises) \in Nat /\ Cardinality(Candidates) \in Nat
    BY FS_CardinalityType DEF SponsoredInv, AnnouncementsPaid
  <2>2. /\ IsFiniteSet(Promises') /\ Cardinality(Promises') \in Nat
        /\ Cardinality(Promises') = IF t \in Promises THEN Cardinality(Promises) - 1 ELSE Cardinality(Promises)
    BY <1>3, <2>1, FS_RemoveElement, FS_CardinalityType
  <2>3. o = "accepted" => t \in Promises
    BY <1>1 DEF Promises, Promising
  <2> QED BY <1>2, <1>3, <2>1, <2>2, <2>3 DEF SponsoredInv, SponsoredShape, AnnouncementsPaid, Worth, WindowWorth
<1>6. ClaimsHeld'
  BY <1>2, <1>3, Shapes DEF SponsoredInv, ClaimsHeld
<1>7. RequestsFollowWindow'
  BY <1>2, <1>3, Shapes DEF SponsoredInv, RequestsFollowWindow, Settling
<1>8. LinkedFirst'
  <2>1. \A u \in Tasks : Own(task'[u]) => Own(task[u])
    BY <1>3, Shapes
  <2> QED BY <1>2, <2>1 DEF SponsoredInv, LinkedFirst, Own
<1> QED BY <1>4, <1>5, <1>6, <1>7, <1>8 DEF SponsoredInv

\* The window's own steps: it is asked for, linked, due or expires.
LEMMA WindowKeeps ==
    ASSUME SponsoredInv, \/ RequestAgain \/ FallDue \/ ExpireWindow
                         \/ \E r \in Relationships : LinkWindow(r)
    PROVE  SponsoredInv'
<1>1. /\ UNCHANGED <<task, crashes, converted, announced, rejections, raced>>
      /\ Promises' = Promises /\ Candidates' = Candidates
  BY DEF RequestAgain, LinkWindow, FallDue, ExpireWindow, governanceVars, historyVars, Promises, Candidates
<1>2. due' \in BOOLEAN /\ (due => due')
  <2>1. due \in BOOLEAN
    BY DEF SponsoredInv, SponsoredShape
  <2>2. due' \in {due, TRUE}
    BY DEF RequestAgain, LinkWindow, FallDue, ExpireWindow
  <2> QED BY <2>1, <2>2
<1>3. window' \in {window, "SPONSORED_WINDOW_EXPIRED", "RELATIONSHIP_REQUESTED"}
  BY DEF RequestAgain, LinkWindow, FallDue, ExpireWindow
<1>4. SponsoredShape'
  BY <1>1, <1>2 DEF SponsoredInv, SponsoredShape
<1>5. AnnouncementsPaid'
  <2>1. Cardinality(Promises) \in Nat /\ Cardinality(Candidates) \in Nat
    BY FS_CardinalityType DEF SponsoredInv, AnnouncementsPaid
  <2>2. due' \/ WindowWorth' <= WindowWorth
    <3>1. CASE RequestAgain
      BY <1>1, <2>1, <3>1 DEF RequestAgain, WindowWorth
    <3>2. CASE LinkWindow("own")
      <4>1. Candidates = {}
        BY <3>2 DEF LinkWindow, SponsoredInv, LinkedFirst, Candidates, Undecided
      <4> QED BY <1>1, <3>2, <4>1, FS_EmptySet DEF LinkWindow, WindowWorth
    <3>3. CASE LinkWindow("other")
      BY <2>1, <3>3 DEF LinkWindow, WindowWorth
    <3>4. CASE FallDue \/ ExpireWindow
      BY <3>4 DEF FallDue, ExpireWindow
    <3> QED BY <3>1, <3>2, <3>3, <3>4 DEF Relationships
  <2>3. WindowWorth \in Nat /\ WindowWorth' \in Nat
    BY <1>1, <2>1 DEF WindowWorth
  <2>4. Worth' <= Worth
    BY <1>1, <1>2, <2>1, <2>2, <2>3 DEF Worth, SponsoredInv, SponsoredShape
  <2>5. Worth \in Nat /\ Worth' \in Nat
    BY <1>1, <2>1, <2>3 DEF Worth
  <2> QED BY <1>1, <2>4, <2>5 DEF SponsoredInv, SponsoredShape, AnnouncementsPaid
<1>6. ClaimsHeld'
  BY <1>1, <1>3 DEF SponsoredInv, ClaimsHeld
<1>7. LinkedFirst'
  BY <1>1 DEF SponsoredInv, LinkedFirst, Relationships, Own, RequestAgain, LinkWindow, FallDue, ExpireWindow
<1>8. RequestsFollowWindow'
  <2>1. CASE RequestAgain
    BY <2>1 DEF RequestAgain, RequestsFollowWindow
  <2>2. CASE \E r \in Relationships : LinkWindow(r)
    BY <2>2 DEF LinkWindow, RequestsFollowWindow
  <2>3. CASE FallDue \/ ExpireWindow
    BY <1>1, <2>3 DEF FallDue, ExpireWindow, SponsoredInv, RequestsFollowWindow, Settling
  <2> QED BY <2>1, <2>2, <2>3
<1> QED BY <1>4, <1>5, <1>6, <1>7, <1>8 DEF SponsoredInv

LEMMA SponsoredInitially == SponsoredInit => SponsoredInv
<1> SUFFICES ASSUME SponsoredInit PROVE SponsoredInv
  OBVIOUS
<1>1. task = [t \in Tasks |-> Idle] /\ \A t \in Tasks : task[t] = Idle
  BY DEF SponsoredInit, Init
<1>2. SponsoredShape
  BY <1>1, Shapes DEF SponsoredInit, Init, SponsoredShape
<1>3. Promises = {} /\ Candidates = {}
  BY <1>1, Shapes DEF Promises, Candidates
<1>4. AnnouncementsPaid
  BY <1>3, FS_EmptySet DEF SponsoredInit, AnnouncementsPaid, Worth, WindowWorth
<1>5. ClaimsHeld /\ LinkedFirst /\ RequestsFollowWindow
  BY <1>1, Shapes DEF SponsoredInit, ClaimsHeld, LinkedFirst, RequestsFollowWindow
<1> QED BY <1>2, <1>4, <1>5 DEF SponsoredInv

-----------------------------------------------------------------------------
\* The inductive invariant: the announcements still to come are paid for, for any calls.
THEOREM SponsoredInductive == SponsoredSpec => []SponsoredInv
<1>1. SponsoredInv /\ [SponsoredNext]_sponsoredVars => SponsoredInv'
  <2> SUFFICES ASSUME SponsoredInv, [SponsoredNext]_sponsoredVars PROVE SponsoredInv'
    OBVIOUS
  <2>1. CASE UNCHANGED sponsoredVars
    BY <2>1, QuietRest DEF sponsoredVars, governanceVars, historyVars
  <2>2. CASE SponsoredNext
    BY <2>2, GovernanceKeeps, SyncKeeps, ClaimKeeps, UpdateRequestsKeeps, ApplyOutcomeKeeps, AnnounceKeeps, WindowKeeps
       DEF SponsoredNext
  <2> QED BY <2>1, <2>2
<1> QED BY SponsoredInitially, <1>1, PTL DEF SponsoredSpec

\* An acceptance is announced once, and again only after a rejection was claimed in between, for
\* any number of syncs, of corridor calls among them, of decisions and of restarts.
THEOREM AnnouncedOnlyOnce == SponsoredSpec => []AnnouncedOnce
<1>1. SponsoredInv => AnnouncedOnce
  <2>1. SponsoredInv => Cardinality(Promises) \in Nat /\ Cardinality(Candidates) \in Nat
    BY FS_CardinalityType DEF SponsoredInv, AnnouncementsPaid
  <2> QED BY <2>1 DEF SponsoredInv, SponsoredShape, AnnouncementsPaid, Worth, WindowWorth, AnnouncedOnce
<1> QED BY <1>1, SponsoredInductive, PTL

\* The requests say what the window says once no sync is between the two, for any number of calls,
\* unless two syncs overlapped there or a restart came in between.
THEOREM RequestsAgree == SponsoredSpec => []RequestsFollowWindow
<1>1. SponsoredInv => RequestsFollowWindow
  BY DEF SponsoredInv
<1> QED BY <1>1, SponsoredInductive, PTL

=============================================================================
