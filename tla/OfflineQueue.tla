------------------------------ MODULE OfflineQueue ------------------------------
(***************************************************************************)
(* The queue of actions a terrain phone keeps in localStorage for one       *)
(* organization: enqueueOfflineAction, discardOfflineAction and             *)
(* replayOfflineQueue as syncPendingActions drives it.                      *)
(*                                                                         *)
(* A replay copies the queue, posts its items one at a time and, at the     *)
(* end, overwrites the stored queue with what it kept of its copy.  Two run *)
(* together when two tabs are open, and in one tab as well: load only       *)
(* aborts the bootstrap fetch of the load it replaces.  A replay ends with  *)
(* its tab at any point (Close), and then writes nothing.                   *)
(*                                                                         *)
(* Ids are dates with a random suffix: here 1, 2, ... in order of creation. *)
(* Action types, payloads, connectivity and flags are left out: they decide *)
(* with values a load has read earlier, so a replay may begin at any time.  *)
(***************************************************************************)
EXTENDS Integers, Sequences, FiniteSets

CONSTANTS
    Replays,        \* bound: the replays that may run at the same time
    MaxQueue,       \* MAX_QUEUE
    MaxAttempts,    \* the attempts after which an item is dropped
    MaxItems,       \* bound: the items created
    MaxCloses,      \* bound: the replays cut short
    Watched         \* any one item, whose posts are counted

ASSUME BoundsAssumption ==
    /\ MaxQueue \in Nat \ {0} /\ MaxAttempts \in Nat \ {0} /\ MaxItems \in Nat /\ MaxCloses \in Nat
    /\ Watched \in 1..MaxItems

VARIABLES
    queue,      \* the stored queue, oldest first
    replay,     \* replay[r]: the copy of the queue r is working on, or Idle
    marked,     \* the venext:offline-replay-invalid key is there
    \* what has happened, for the properties:
    created,    \* the number of items enqueued
    settled,    \* the items given up or done with: answered, dropped or discarded
    raced,      \* the items another party touched while a replay held the queue
    posts,      \* the number of times Watched was posted, until it is raced
    closes      \* the number of replays cut short

offlineVars == <<queue, replay, marked, created, settled, raced, posts, closes>>

Ids == 1..MaxItems

Item == [id : Ids, attempts : 0..MaxAttempts - 1]

Idle == [at |-> "idle"]

\* at: "between" two items, or "posted" when the first of rest is on its way to the server
Running == [at : {"between", "posted"}, rest : Seq(Item), kept : Seq(Item), gone : SUBSET Ids]

IdsOf(s) == {s[i].id : i \in DOMAIN s}

Active == {r \in Replays : replay[r] # Idle}

\* The items r copied when it began.
Held(r) == IF replay[r] = Idle THEN {}
           ELSE IdsOf(replay[r].rest) \cup IdsOf(replay[r].kept) \cup replay[r].gone

HeldByOthers(r) == UNION {Held(s) : s \in Replays \ {r}}

HeldByAny == UNION {Held(r) : r \in Replays}

\* queue.slice(-MAX_QUEUE)
Newest(q) == IF Len(q) > MaxQueue THEN SubSeq(q, Len(q) - MaxQueue + 1, Len(q)) ELSE q

\* queue.filter(item => item.id !== id): what is kept of the first n items, for n the length.
\* (SelectSeq, in a form the theorems can expand.)
Without(q, id) ==
    LET kept[n \in 0..Len(q)] ==
          IF n = 0 THEN <<>>
          ELSE IF q[n].id = id THEN kept[n - 1] ELSE Append(kept[n - 1], q[n])
    IN  kept[Len(q)]

Init ==
    /\ queue = <<>>
    /\ replay = [r \in Replays |-> Idle]
    /\ marked = FALSE
    /\ created = 0
    /\ settled = {}
    /\ raced = {}
    /\ posts = 0
    /\ closes = 0

-----------------------------------------------------------------------------
(* The page. *)

\* The item goes last; what no longer fits leaves at the front, unannounced.
Enqueue ==
    /\ created < MaxItems
    /\ LET item == [id |-> created + 1, attempts |-> 0]
           pushed == Append(queue, item)
           cut == IdsOf(pushed) \ IdsOf(Newest(pushed))
       IN /\ queue' = Newest(pushed)
          /\ settled' = settled \cup cut
          /\ raced' = raced \cup (cut \cap HeldByAny)
                            \cup (IF Active = {} THEN {} ELSE {item.id})
    /\ created' = created + 1
    /\ UNCHANGED <<replay, marked, posts, closes>>

Discard(id) ==
    /\ id \in IdsOf(queue)
    /\ queue' = Without(queue, id)
    /\ settled' = settled \cup {id}
    /\ raced' = raced \cup ({id} \cap HeldByAny)
    /\ UNCHANGED <<replay, marked, created, posts, closes>>

\* invalidateOfflineReplayCache: nothing removes the mark.
Invalidate ==
    /\ ~marked
    /\ marked' = TRUE
    /\ UNCHANGED <<queue, replay, created, settled, raced, posts, closes>>

-----------------------------------------------------------------------------
(* A replay. *)

MayBeginAlways == TRUE

MayBegin == ~marked

Begin(r) ==
    /\ replay[r] = Idle
    /\ MayBegin
    /\ replay' = [replay EXCEPT ![r] = [at |-> "between", rest |-> queue, kept |-> <<>>, gone |-> {}]]
    /\ raced' = raced \cup (IdsOf(queue) \cap HeldByOthers(r))
    /\ UNCHANGED <<queue, marked, created, settled, posts, closes>>

\* postOfflineReplay: the request leaves, and may reach the server.
Post(r) ==
    /\ replay[r].at = "between"
    /\ replay[r].rest # <<>>
    /\ replay' = [replay EXCEPT ![r].at = "posted"]
    /\ posts' = IF Head(replay[r].rest).id = Watched /\ Watched \notin raced THEN posts + 1 ELSE posts
    /\ UNCHANGED <<queue, marked, created, settled, raced, closes>>

\* Done with: r's item is not kept.
Drop(r) ==
    replay' = [replay EXCEPT ![r].at = "between", ![r].rest = Tail(@),
                             ![r].gone = @ \cup {Head(replay[r].rest).id}]

RetainInFront(r) ==
    replay' = [replay EXCEPT ![r].at = "between", ![r].rest = Tail(@),
                             ![r].kept = <<[Head(replay[r].rest) EXCEPT !.attempts = @ + 1]>> \o @]

RetainNothing(r) == replay' = [replay EXCEPT ![r].at = "between", ![r].rest = Tail(@)]

RetainUncounted(r) ==
    replay' = [replay EXCEPT ![r].at = "between", ![r].rest = Tail(@),
                             ![r].kept = Append(@, Head(replay[r].rest))]

Retain(r) ==
    replay' = [replay EXCEPT ![r].at = "between", ![r].rest = Tail(@),
                             ![r].kept = Append(@, [Head(replay[r].rest) EXCEPT !.attempts = @ + 1])]

\* An answer without conflict; no answer at all counts as one.
AnswerOk(r) == replay[r].at = "posted" /\ Drop(r)

\* A conflict in the answer or in the error.
AnswerConflict(r) == replay[r].at = "posted" /\ Drop(r)

LastAttemptLate(item) == item.attempts + 1 > MaxAttempts

LastAttempt(item) == item.attempts + 1 >= MaxAttempts

\* Any other error: an answer the client cannot read.
AnswerFailed(r) ==
    /\ replay[r].at = "posted"
    /\ IF LastAttempt(Head(replay[r].rest)) THEN Drop(r) ELSE Retain(r)

Answer(r) ==
    /\ AnswerOk(r) \/ AnswerConflict(r) \/ AnswerFailed(r)
    /\ UNCHANGED <<queue, marked, created, settled, raced, posts, closes>>

\* The queue becomes what r kept, whatever it has become since r copied it.
Finish(r) ==
    /\ replay[r].at = "between"
    /\ replay[r].rest = <<>>
    /\ queue' = replay[r].kept
    /\ settled' = settled \cup replay[r].gone
    /\ replay' = [replay EXCEPT ![r] = Idle]
    /\ UNCHANGED <<marked, created, raced, posts, closes>>

\* The tab goes away: nothing of the replay is written.
Close(r) ==
    /\ replay[r] # Idle
    /\ closes < MaxCloses
    /\ replay' = [replay EXCEPT ![r] = Idle]
    /\ closes' = closes + 1
    /\ UNCHANGED <<queue, marked, created, settled, raced, posts>>

-----------------------------------------------------------------------------

Advance(r) == Post(r) \/ Answer(r) \/ Finish(r)

Next ==
    \/ Enqueue
    \/ \E id \in Ids : Discard(id)
    \/ Invalidate
    \/ \E r \in Replays : Begin(r) \/ Advance(r) \/ Close(r)

\* A running replay goes on: its loop waits for nothing but a fetch, which the browser
\* settles, if only with a network error.
Spec == Init /\ [][Next]_offlineVars /\ \A r \in Replays : WF_offlineVars(Advance(r))

-----------------------------------------------------------------------------
(* Properties. *)

\* Every variable has its type; the stored queue is never longer than MAX_QUEUE.
TypeOK ==
    /\ queue \in Seq(Item) /\ Len(queue) <= MaxQueue
    /\ replay \in [Replays -> Running \cup {Idle}]
    /\ marked \in BOOLEAN
    /\ created \in 0..MaxItems
    /\ settled \subseteq 1..created
    /\ raced \subseteq 1..created
    /\ posts \in Nat
    /\ closes \in 0..MaxCloses

Increasing(s) == \A i, j \in DOMAIN s : i < j => s[i].id < s[j].id

\* Actions are replayed in the order the user made them, and none is in the queue twice,
\* however the replays, the overwrites and the retries interleave.
OrderKept ==
    /\ Increasing(queue)
    /\ \A r \in Active : Increasing(replay[r].kept \o replay[r].rest)

\* An action is either waiting or done with, never both and never neither: none is lost and
\* none comes back, unless it was enqueued, discarded, pushed out or copied a second time
\* while a replay was running (the overwrite at the end of replayOfflineQueue).
Accounted ==
    \A id \in 1..created \ raced : (id \in IdsOf(queue)) # (id \in settled)

\* An action no two replays have copied is posted three times at most, and once more for each
\* tab closed before its replay wrote the attempts down.
AttemptsCounted ==
    Watched \notin raced => posts <= MaxAttempts + closes

\* After a logout or a suspension has set the mark, posting stops for good: the replays that
\* were running end and no other begins.
MarkSilences == marked ~> [](Active = {})

=============================================================================
