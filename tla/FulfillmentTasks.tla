--------------------------- MODULE FulfillmentTasks ---------------------------
(***************************************************************************)
(* The coordination tasks of one fulfillment record                        *)
(* (relational-fulfillment-coordination.service and its policy).  A task   *)
(* operation reads the task, decides, and writes with                      *)
(* `updateMany where taskStatus = the status read`, so it is two actions.  *)
(* Assignments and comments change nothing that is kept here.              *)
(***************************************************************************)
CONSTANTS
    Requests,   \* handler invocations that may be in flight together
    Tasks,      \* rows of relational_fulfillment_tasks
    TaskNeeds,      \* bound: the sets of sides a new task may ask to confirm it
    TaskBlocking    \* bound: whether a new task may block completion, or not, or either

VARIABLES
    tasks,      \* tasks[t]: the row; status ABSENT while it is not inserted
    req         \* req[r]: what request r has read and is about to write

-----------------------------------------------------------------------------
Sides == {"buyer", "seller"}

\* WAITING_CORRIDOR_VALIDATION is left out: no operation sets it.
OpenTaskStatus == {"OPEN", "IN_PROGRESS", "WAITING_EXTERNAL_CONFIRMATION", "BLOCKED"}

TaskStatus == OpenTaskStatus \cup {"COMPLETED", "CANCELLED"}

\* needs: requiresBuyer/SellerConfirmation; confirmed: the ...ConfirmedAt set.
TaskRow == [status : TaskStatus \cup {"ABSENT"}, blocking : BOOLEAN,
            needs : SUBSET Sides, confirmed : SUBSET Sides]

AbsentTask == [status |-> "ABSENT", blocking |-> FALSE, needs |-> {}, confirmed |-> {}]

TaskRequest ==
    [op : {"moveTask"}, task : Tasks, from : TaskStatus, to : TaskStatus]
    \cup [op : {"completeTask"}, task : Tasks, from : TaskStatus, to : TaskStatus,
          confirmed : SUBSET Sides]

Idle == [op |-> "idle"]

-----------------------------------------------------------------------------
\* assertTaskStatusTransitionAllowed, for the targets the operations ask for.
\* OPEN is asked for by reopenTask only.
MayMoveTask(from, to) ==
    \/ from = to
    \/ to = "IN_PROGRESS" /\ from \in {"OPEN", "WAITING_EXTERNAL_CONFIRMATION"}
    \/ to \in {"BLOCKED", "CANCELLED"} /\ from \in OpenTaskStatus \ {"BLOCKED"}
    \/ to = "COMPLETED" /\ from \in {"IN_PROGRESS", "WAITING_EXTERNAL_CONFIRMATION"}
    \/ to = "WAITING_EXTERNAL_CONFIRMATION" /\ from \in OpenTaskStatus \ {"BLOCKED"}
    \/ to = "OPEN" /\ from \in {"BLOCKED", "COMPLETED", "CANCELLED"}

\* countBlockingOpenTasks > 0.
TasksBlock == \E t \in Tasks : tasks[t].blocking /\ tasks[t].status \in OpenTaskStatus

-----------------------------------------------------------------------------
\* createTask: one insert that depends on nothing it read.
CreateTask(r, t, blocking, needs) ==
    /\ req[r] = Idle
    /\ tasks[t] = AbsentTask
    /\ tasks' = [tasks EXCEPT ![t] = [status |-> "OPEN", blocking |-> blocking,
                                      needs |-> needs, confirmed |-> {}]]
    /\ UNCHANGED req

\* startTask, blockTask, cancelTask, reopenTask.
BeginMoveTask(r, t, to) ==
    /\ req[r] = Idle
    /\ MayMoveTask(tasks[t].status, to)
    /\ req' = [req EXCEPT ![r] = [op |-> "moveTask", task |-> t,
                                  from |-> tasks[t].status, to |-> to]]
    /\ UNCHANGED tasks

CommitMoveTask(r) ==
    /\ req[r].op = "moveTask"
    /\ tasks[req[r].task].status = req[r].from
    /\ tasks' = [tasks EXCEPT ![req[r].task].status = req[r].to]
    /\ req' = [req EXCEPT ![r] = Idle]

\* Mutant: a single confirmation completes the task.
BeginCompleteTaskAlone(r, t, side) ==
    /\ req[r] = Idle
    /\ tasks[t].status \in OpenTaskStatus
    /\ MayMoveTask(tasks[t].status, "COMPLETED")
    /\ req' = [req EXCEPT ![r] = [op |-> "completeTask", task |-> t,
                                  confirmed |-> tasks[t].confirmed \cup {side},
                                  from |-> tasks[t].status, to |-> "COMPLETED"]]
    /\ UNCHANGED tasks

\* completeTask by side: its confirmation, and COMPLETED once none is missing.
BeginCompleteTask(r, t, side) ==
    LET confirmed == tasks[t].confirmed \cup ({side} \cap tasks[t].needs)
        to == IF tasks[t].needs \subseteq confirmed THEN "COMPLETED"
              ELSE "WAITING_EXTERNAL_CONFIRMATION"
    IN  /\ req[r] = Idle
        /\ tasks[t].status \in OpenTaskStatus
        /\ MayMoveTask(tasks[t].status, to)
        /\ req' = [req EXCEPT ![r] = [op |-> "completeTask", task |-> t, confirmed |-> confirmed,
                                      from |-> tasks[t].status, to |-> to]]
        /\ UNCHANGED tasks

CommitCompleteTask(r) ==
    /\ req[r].op = "completeTask"
    /\ tasks[req[r].task].status = req[r].from
    /\ tasks' = [tasks EXCEPT ![req[r].task].status = req[r].to,
                              ![req[r].task].confirmed = req[r].confirmed]
    /\ req' = [req EXCEPT ![r] = Idle]

TaskStep(r) ==
    \E t \in Tasks :
        \/ \E to \in TaskStatus \ {"COMPLETED", "WAITING_EXTERNAL_CONFIRMATION"} :
              BeginMoveTask(r, t, to)
        \/ \E side \in Sides : BeginCompleteTask(r, t, side)
        \/ \E blocking \in TaskBlocking, needs \in TaskNeeds : CreateTask(r, t, blocking, needs)

TaskCommit(r) == CommitMoveTask(r) \/ CommitCompleteTask(r)

=============================================================================
