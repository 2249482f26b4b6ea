---------------------------- MODULE TaskBackend ----------------------------
(***************************************************************************)
(* What the data-descriptor operator may rely on when it talks to          *)
(* celery-httpserver: every accepted POST /trigger_task creates a task     *)
(* with a fresh id, and GET /task_status/<id> returns the state Celery's   *)
(* result backend keeps for that id.                                       *)
(*                                                                         *)
(* This is an abstract specification.  The worker that executes the tasks  *)
(* (data-sinkers) is only visible here through the states it stores:       *)
(*   - task_track_started makes a started task visible as STARTED;         *)
(*   - task_acks_late means a delivery that is not acknowledged (its       *)
(*     worker died, or ran past the broker's visibility timeout) is        *)
(*     delivered again, so a task may start again after a FAILURE and a    *)
(*     second execution may report after the first;                        *)
(*   - the backend never overwrites a stored SUCCESS;                      *)
(*   - a stored result expires, after which the id is unknown again, and   *)
(*     Celery reports an unknown id as PENDING.  Its execution has been    *)
(*     acknowledged long before, so no worker starts it again.             *)
(***************************************************************************)
EXTENDS Naturals

CONSTANTS
    TaskId,  \* the ids send_task can hand out
    NoReq    \* stands for "no request"

VARIABLES
    taskReq,    \* taskReq[t]: the body t was created with, NoReq if t is unused
    taskState,  \* taskState[t]: what the result backend holds for t
    outcomes    \* outcomes[t]: the final states executions of t have reported
                \* so far; with the first one, t is acknowledged

taskVars == <<taskReq, taskState, outcomes>>

FinalState == {"SUCCESS", "FAILURE"}
TaskState == {"PENDING", "STARTED"} \union FinalState

\* Request: the bodies the client of the service posts.
TasksTypeOK(Request) ==
    /\ taskReq \in [TaskId -> Request \union {NoReq}]
    /\ taskState \in [TaskId -> TaskState]
    /\ outcomes \in [TaskId -> SUBSET FinalState]

TasksInit ==
    /\ taskReq = [t \in TaskId |-> NoReq]
    /\ taskState = [t \in TaskId |-> "PENDING"]
    /\ outcomes = [t \in TaskId |-> {}]

Submitted == {t \in TaskId : taskReq[t] # NoReq}

\* A fresh id.  Which one does not matter: an id is a uuid, only ever compared
\* with others, so this choice stands for all of them.
FreshId == CHOOSE t \in TaskId : t \notin Submitted

\* POST /trigger_task: send_task picks an unused id and publishes the task.
Submit(t, req) ==
    /\ Submitted # TaskId
    /\ t = FreshId
    /\ taskReq' = [taskReq EXCEPT ![t] = req]
    /\ UNCHANGED <<taskState, outcomes>>

\* A worker starts t.  (A task whose result has expired is PENDING too, but
\* the broker has no delivery of it left.)
Start(t) ==
    /\ t \in Submitted
    /\ taskState[t] = "PENDING" /\ outcomes[t] = {}
    /\ taskState' = [taskState EXCEPT ![t] = "STARTED"]
    /\ UNCHANGED <<taskReq, outcomes>>

Report(t, state) ==
    /\ taskState' = [taskState EXCEPT ![t] = state]
    /\ outcomes' = [outcomes EXCEPT ![t] = @ \union ({state} \intersect FinalState)]
    /\ UNCHANGED taskReq

\* An execution of t ends.
Finish(t, final) ==
    /\ t \in Submitted
    /\ taskState[t] = "STARTED"
    /\ Report(t, final)

\* After a FAILURE, another execution of t starts or, started earlier, succeeds.
\* (After a SUCCESS, nothing another execution reports is stored.)
Redelivered(t, state) ==
    /\ taskState[t] = "FAILURE"
    /\ state \in {"STARTED", "SUCCESS"}
    /\ Report(t, state)

\* The stored result of t expires.
Expire(t) ==
    /\ taskState[t] \in FinalState
    /\ taskState' = [taskState EXCEPT ![t] = "PENDING"]
    /\ UNCHANGED <<taskReq, outcomes>>

\* All the service may do, when its clients post the bodies in Request.
TasksNext(Request) ==
    \E t \in TaskId :
        \/ \E req \in Request : Submit(t, req)
        \/ Start(t)
        \/ \E final \in FinalState : Finish(t, final)
        \/ \E state \in TaskState : Redelivered(t, state)
        \/ Expire(t)

=============================================================================
