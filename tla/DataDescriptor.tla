--------------------------- MODULE DataDescriptor ---------------------------
(***************************************************************************)
(* The DataDescriptor controller of the execution-engine operator          *)
(* (internal/controller/datadescriptor_controller.go and                   *)
(* internal/handler/data_description.go) for the descriptors that one      *)
(* namespace/name stands for over time.                                    *)
(*                                                                         *)
(* Around the controller: the API server, which stores the descriptor and  *)
(* checks resource versions; the informer, which delivers the stored       *)
(* versions to a local cache one by one and late; the workqueue, which     *)
(* never runs two reconciles of one key at a time; and the task service    *)
(* of module TaskBackend, reached over HTTP with timeouts and retries.     *)
(*                                                                         *)
(* A descriptor's sources are the numbers of the set Source, in the order  *)
(* in which the spec lists them.  What a source says beside its name       *)
(* (type, metadata, extract, prompts) travels unread to the task.          *)
(***************************************************************************)
EXTENDS FiniteSets, Sequences, TaskBackend

CONSTANTS
    NumSources,  \* sources a spec may list
    NoTask,      \* the empty TaskID
    MaxRetries,  \* attempts of one HTTP request (API_MAX_RETRIES)
    Timely,      \* TRUE iff RequeueAfter is longer than the informer's lag
    FaultKinds,  \* the faults that may happen, see FaultKind
    MaxFaults,   \* bound on the number of faults
    MaxUserOps   \* bound on creations, edits and deletions by users

FaultKind == {"crash", "http", "poll", "api", "task", "redelivery", "expire"}

Source == 1 .. NumSources

ASSUME DataDescriptorAssumption ==
    /\ NumSources \in Nat
    /\ NoTask \notin TaskId
    /\ MaxRetries \in Nat \ {0}
    /\ Timely \in BOOLEAN
    /\ FaultKinds \subseteq FaultKind
    /\ MaxFaults \in Nat
    /\ MaxUserOps \in Nat

(***************************************************************************)
(* Requests, statuses, descriptors                                         *)
(***************************************************************************)

\* The bodies handleDD and handleDDDelete post.  An AddOrUpdate body is built
\* from the incarnation uid of the descriptor; uid itself is not sent.
AddRequest(s, uid) == [op |-> "AddOrUpdate", src |-> s, uid |-> uid]
DeleteRequest == [op |-> "Delete", src |-> 0, uid |-> 0]

Request == [op : {"AddOrUpdate", "Delete"}, src : 0 .. NumSources, uid : Nat]

ASSUME NoReqAssumption == NoReq \notin Request

Phase == {"None", "Ready", "STARTED", "FAILURE", "PENDING", "Error"}
ConditionType == {"Creating", "Available", "NotReady"}

\* One entry of status.sourceStatuses; NoEntry: the source has none.
SourceStatus == [phase : Phase, task : TaskId \union {NoTask}]
NoEntry == [phase |-> "None", task |-> NoTask]
NoEntries == [s \in Source |-> NoEntry]

\* conds: the types of the conditions present, all with status True.  (Their
\* messages are functions of the phases, their times are never compared.)
DDStatus == [sources : [Source -> SourceStatus],
             overall : {"", "Ready", "NotReady"},
             conds   : SUBSET ConditionType]
EmptyStatus == [sources |-> NoEntries, overall |-> "", conds |-> {}]

\* uid: the incarnation, rv: metadata.resourceVersion.
Descriptor == [uid : Nat, rv : Nat, spec : SUBSET Source, status : DDStatus]
NotFound == [uid |-> 0, rv |-> 0, spec |-> {}, status |-> EmptyStatus]
Exists(dd) == dd.uid # 0

VARIABLES
    object,    \* the descriptor the API server stores, or NotFound
    rev,       \* the last resource version handed out
    watch,     \* versions the informer has still to deliver
    cache,     \* the informer's copy
    queued,    \* the key is in the workqueue
    timer,     \* a RequeueAfter is outstanding
    pc,        \* what the reconcile is doing
    instance,  \* the descriptor being reconciled
    todo,      \* sources the current loop has still to visit
    taskIDs,   \* handleDD's map from source to task id
    results,   \* handleDDStatus's new source statuses
    attempt,   \* doRequestWithRetry's loop counter
    lastOp,    \* history: operation of the newest task submitted
    faults,    \* faults so far
    userOps    \* user operations so far

apiVars == <<object, rev, watch>>
queueVars == <<cache, queued, timer>>
localVars == <<instance, todo, taskIDs, results, attempt>>
boundVars == <<faults, userOps>>
vars == <<apiVars, queueVars, pc, localVars, lastOp, boundVars, taskVars>>

NoTaskIDs == [s \in Source |-> NoTask]

TypeOK ==
    /\ TasksTypeOK(Request)
    /\ object \in Descriptor /\ cache \in Descriptor /\ instance \in Descriptor
    /\ rev \in Nat /\ attempt \in Nat /\ faults \in Nat /\ userOps \in Nat
    /\ watch \in Seq(Descriptor)
    /\ queued \in BOOLEAN /\ timer \in BOOLEAN
    /\ pc \in {"idle", "trigger", "check", "delete"}
    /\ todo \subseteq Source
    /\ taskIDs \in [Source -> TaskId \union {NoTask}]
    /\ results \in [Source -> SourceStatus]
    /\ lastOp \in {"", "AddOrUpdate", "Delete"}

Init ==
    /\ object = NotFound /\ rev = 0 /\ watch = <<>>
    /\ cache = NotFound /\ queued = FALSE /\ timer = FALSE
    /\ pc = "idle"
    /\ instance = NotFound /\ todo = {} /\ attempt = 0
    /\ taskIDs = NoTaskIDs /\ results = NoEntries
    /\ lastOp = "" /\ faults = 0 /\ userOps = 0
    /\ TasksInit

(***************************************************************************)
(* The API server, its users, the informer and the timer                   *)
(***************************************************************************)

\* The API server stores a new version of the descriptor and notifies.
Store(uid, spec, status) ==
    /\ object' = [uid |-> uid, rv |-> rev + 1, spec |-> spec, status |-> status]
    /\ rev' = rev + 1
    /\ watch' = Append(watch, object')

UserOp ==
    /\ userOps < MaxUserOps
    /\ userOps' = userOps + 1
    /\ UNCHANGED <<queueVars, pc, localVars, lastOp, faults, taskVars>>

Create(spec) ==
    /\ ~Exists(object)
    /\ UserOp
    /\ Store(rev + 1, spec, EmptyStatus)

Edit(spec) ==
    /\ Exists(object)
    /\ UserOp
    /\ Store(object.uid, spec, object.status)

\* No finalizer holds the object back: it is gone at once.
Delete ==
    /\ Exists(object)
    /\ UserOp
    /\ object' = NotFound
    /\ rev' = rev + 1
    /\ watch' = Append(watch, NotFound)

InformerEvent ==
    /\ watch # <<>>
    /\ cache' = Head(watch)
    /\ watch' = Tail(watch)
    /\ queued' = TRUE
    /\ UNCHANGED <<object, rev, timer, pc, localVars, lastOp, boundVars, taskVars>>

RequeueTimer ==
    /\ timer
    /\ Timely => watch = <<>>
    /\ timer' = FALSE
    /\ queued' = TRUE
    /\ UNCHANGED <<apiVars, cache, pc, localVars, lastOp, boundVars, taskVars>>

(***************************************************************************)
(* Reconcile                                                               *)
(***************************************************************************)

Fault(kind) ==
    /\ kind \in FaultKinds
    /\ faults < MaxFaults
    /\ faults' = faults + 1

\* Reconcile returns; requeue: with RequeueAfter.
Return(requeue) ==
    /\ pc' = "idle"
    /\ timer' = (timer \/ requeue)
    /\ instance' = NotFound /\ todo' = {} /\ attempt' = 0
    /\ taskIDs' = NoTaskIDs /\ results' = NoEntries

\* Variant: a missing descriptor is ignored (the IgnoreNotFound idiom).
ReconcileIgnoringNotFound ==
    /\ pc = "idle" /\ queued
    /\ queued' = FALSE
    /\ pc' = IF Exists(cache) THEN "trigger" ELSE "idle"
    /\ instance' = cache
    /\ todo' = cache.spec
    /\ UNCHANGED <<apiVars, cache, timer, taskIDs, results, attempt,
                   lastOp, boundVars, taskVars>>

\* Reconcile starts: Get from the cache, then DoDelete or DoAddOrUpdate.
Reconcile ==
    /\ pc = "idle" /\ queued
    /\ queued' = FALSE
    /\ pc' = IF Exists(cache) THEN "trigger" ELSE "delete"
    /\ instance' = cache
    /\ todo' = cache.spec
    /\ UNCHANGED <<apiVars, cache, timer, taskIDs, results, attempt,
                   lastOp, boundVars, taskVars>>

\* The source the current loop visits now.
Visited(s) == s \in todo /\ \A r \in todo : s <= r

\* Variant: the existing status is not looked up.
ExistingTaskIgnored(dd, s) == NoTask

\* getExistingSourceStatus(dd, s).TaskID
ExistingTask(dd, s) == dd.status.sources[s].task

\* handleDD: the source has a task already; keep it.
KeepTask ==
    /\ pc = "trigger"
    /\ \E s \in Source :
        /\ Visited(s)
        /\ ExistingTask(instance, s) # NoTask
        /\ taskIDs' = [taskIDs EXCEPT ![s] = ExistingTask(instance, s)]
        /\ todo' = todo \ {s}
    /\ UNCHANGED <<apiVars, queueVars, pc, instance, results, attempt,
                   lastOp, boundVars, taskVars>>

\* The request TriggerTask has to send now, if any.
Sending(req) ==
    \/ /\ pc = "trigger"
       /\ \E s \in Source : /\ Visited(s)
                            /\ ExistingTask(instance, s) = NoTask
                            /\ req = AddRequest(s, instance.uid)
    \/ /\ pc = "delete"
       /\ req = DeleteRequest

\* celery-httpserver creates task t for the request.
Accept(t, req) ==
    /\ Submit(t, req)
    /\ lastOp' = req.op

\* The response arrives: handleDD records the id and goes on, handleDDDelete
\* is done and Reconcile returns without looking at the task again.
TriggerSucceeds(t, req) ==
    /\ Sending(req)
    /\ Accept(t, req)
    /\ IF req.op = "Delete"
       THEN Return(FALSE)
       ELSE /\ taskIDs' = [taskIDs EXCEPT ![req.src] = t]
            /\ todo' = todo \ {req.src}
            /\ attempt' = 0
            /\ UNCHANGED <<timer, pc, instance, results>>
    /\ UNCHANGED <<apiVars, cache, queued, boundVars>>

\* The server did not see the request, or its answer was lost.
MayHaveAccepted(req) ==
    \/ \E t \in TaskId : Accept(t, req)
    \/ UNCHANGED <<taskVars, lastOp>>

\* A timeout or temporary error, and attempts are left: the same body again.
TriggerTimesOut(req) ==
    /\ Sending(req) /\ attempt + 1 < MaxRetries
    /\ Fault("http")
    /\ MayHaveAccepted(req)
    /\ attempt' = attempt + 1
    /\ UNCHANGED <<apiVars, queueVars, pc, instance, todo, taskIDs, results, userOps>>

\* Variant: the error is logged, not returned.
TriggerFailsSilently(req) ==
    /\ Sending(req)
    /\ Fault("http")
    /\ MayHaveAccepted(req)
    /\ Return(FALSE)
    /\ UNCHANGED <<apiVars, cache, queued, userOps>>

\* The last timeout, or another error: the ids obtained so far are dropped.
TriggerFails(req) ==
    /\ Sending(req)
    /\ Fault("http")
    /\ MayHaveAccepted(req)
    /\ Return(TRUE)
    /\ UNCHANGED <<apiVars, cache, queued, userOps>>

HandleDDDone ==
    /\ pc = "trigger" /\ todo = {}
    /\ pc' = "check"
    /\ todo' = instance.spec
    /\ UNCHANGED <<apiVars, queueVars, instance, taskIDs, results, attempt,
                   lastOp, boundVars, taskVars>>

\* Variants: every state but PENDING and FAILURE is taken for a success; the
\* failed task is kept.
OptimisticSourceStatus(t, st) ==
    [phase |-> IF st \in {"PENDING", "FAILURE"} THEN st ELSE "Ready",
     task  |-> IF st = "FAILURE" THEN NoTask ELSE t]
StickySourceStatus(t, st) ==
    [phase |-> IF st = "SUCCESS" THEN "Ready" ELSE st, task |-> t]

\* checkSourceStatus for a source with task t in state st ("Error": the
\* request failed).  A FAILURE gives up the task id.
CheckSourceStatus(t, st) ==
    [phase |-> IF st = "SUCCESS" THEN "Ready" ELSE st,
     task  |-> IF st = "FAILURE" THEN NoTask ELSE t]

CheckSource(s, st) ==
    /\ pc = "check" /\ Visited(s)
    /\ results' = [results EXCEPT ![s] = CheckSourceStatus(taskIDs[s], st)]
    /\ todo' = todo \ {s}
    /\ UNCHANGED <<apiVars, queueVars, pc, instance, taskIDs, attempt,
                   lastOp, userOps, taskVars>>

PollAnswered ==
    \E s \in Source :
        /\ CheckSource(s, taskState[taskIDs[s]])
        /\ UNCHANGED faults

PollFails ==
    \E s \in Source : CheckSource(s, "Error") /\ Fault("poll")

AllHealthy(sources, spec) == \A s \in spec : sources[s].phase = "Ready"

\* The status handleDDStatus computes from the old one and the results.
NewStatus(dd, sources) ==
    LET healthy == AllHealthy(sources, dd.spec) IN
    [sources |-> sources,
     overall |-> IF healthy THEN "Ready" ELSE "NotReady",
     conds   |-> dd.status.conds
                 \union (IF dd.status.overall = "" THEN {"Creating"} ELSE {})
                 \union {IF healthy THEN "Available" ELSE "NotReady"}]

\* Variant: the update carries no resource version.
UpToDateAlways(dd) == Exists(object)

\* Status().Update of dd's copy of the object is accepted iff the copy is the
\* stored version.
UpToDate(dd) == Exists(object) /\ object.rv = dd.rv

\* Variant: only a started task is waited for.
HasStartedSources(status, spec) == \E s \in spec : status.sources[s].phase = "STARTED"

\* A source with an error, or hasPendingSources: look again in 10s.
HasPendingSources(status, spec) == ~AllHealthy(status.sources, spec)

\* Variant: on a conflict, get the latest version and store the status there.
HandleDDStatusRetrying ==
    /\ pc = "check" /\ todo = {} /\ Exists(object)
    /\ LET new == NewStatus(instance, results) IN
        /\ IF new = instance.status
           THEN UNCHANGED apiVars
           ELSE Store(object.uid, object.spec, new)
        /\ Return(HasPendingSources(new, instance.spec))
    /\ UNCHANGED <<cache, queued, lastOp, boundVars, taskVars>>

HandleDDStatus ==
    /\ pc = "check" /\ todo = {}
    /\ LET new == NewStatus(instance, results) IN
        \/ /\ new = instance.status \/ UpToDate(instance)
           /\ IF new = instance.status
              THEN UNCHANGED apiVars
              ELSE Store(instance.uid, instance.spec, new)
           /\ Return(HasPendingSources(new, instance.spec))
        \/ /\ new # instance.status /\ ~UpToDate(instance)
           /\ UNCHANGED apiVars
           /\ Return(TRUE)
    /\ UNCHANGED <<cache, queued, lastOp, boundVars, taskVars>>

\* Variant: the error is logged, not returned.
StatusUpdateFailsSilently ==
    /\ pc = "check" /\ todo = {}
    /\ NewStatus(instance, results) # instance.status
    /\ Fault("api")
    /\ Return(FALSE)
    /\ UNCHANGED <<apiVars, cache, queued, lastOp, userOps, taskVars>>

\* The update call fails for a reason of the API server's.
StatusUpdateFails ==
    /\ pc = "check" /\ todo = {}
    /\ NewStatus(instance, results) # instance.status
    /\ Fault("api")
    /\ Return(TRUE)
    /\ UNCHANGED <<apiVars, cache, queued, lastOp, userOps, taskVars>>

\* The operator dies and starts again: the informer lists what exists.
Restart ==
    /\ Fault("crash")
    /\ pc' = "idle"
    /\ instance' = NotFound /\ todo' = {} /\ attempt' = 0
    /\ taskIDs' = NoTaskIDs /\ results' = NoEntries
    /\ cache' = object /\ watch' = <<>>
    /\ queued' = Exists(object) /\ timer' = FALSE
    /\ UNCHANGED <<object, rev, lastOp, userOps, taskVars>>

(***************************************************************************)
(* The specification                                                       *)
(***************************************************************************)

User == (\E spec \in SUBSET Source : Create(spec) \/ Edit(spec)) \/ Delete

\* The bodies that may be in flight.
Bodies == {DeleteRequest} \union {AddRequest(s, instance.uid) : s \in Source}

TriggerTask == \E req \in Bodies, t \in TaskId : TriggerSucceeds(t, req)

TriggerError == \E req \in Bodies : TriggerTimesOut(req) \/ TriggerFails(req)

Controller ==
    \/ Reconcile \/ KeepTask \/ TriggerTask \/ TriggerError \/ HandleDDDone
    \/ PollAnswered \/ PollFails
    \/ HandleDDStatus \/ StatusUpdateFails

operatorVars == <<apiVars, queueVars, pc, localVars, lastOp, userOps>>

\* What a worker may always do, and what counts as a fault of a worker, of the
\* broker or of the result backend.  (Execute does nothing for a task that was
\* acknowledged: after Expire, nobody does.)
Execute(t) ==
    /\ Start(t) \/ Finish(t, "SUCCESS")
    /\ UNCHANGED <<operatorVars, faults>>

TaskFault(t) ==
    /\ \/ Finish(t, "FAILURE") /\ Fault("task")
       \/ (\E state \in TaskState : Redelivered(t, state)) /\ Fault("redelivery")
       \/ Expire(t) /\ Fault("expire")
    /\ UNCHANGED operatorVars

Next ==
    \/ User \/ InformerEvent \/ RequeueTimer
    \/ Controller \/ Restart
    \/ \E t \in TaskId : Execute(t) \/ TaskFault(t)

Spec == Init /\ [][Next]_vars

(***************************************************************************)
(* Fairness: the informer, the workqueue and its timer keep running, the   *)
(* controller goes on when it can, a worker eventually picks up and ends   *)
(* every task.  Users and faults are under no obligation.                  *)
(***************************************************************************)
Fairness ==
    /\ WF_vars(InformerEvent) /\ WF_vars(RequeueTimer)
    /\ WF_vars(Reconcile) /\ WF_vars(KeepTask) /\ WF_vars(HandleDDDone)
    /\ WF_vars(TriggerTask)
    /\ WF_vars(PollAnswered) /\ WF_vars(HandleDDStatus)
    /\ \A t \in TaskId : WF_vars(Execute(t))

FairSpec == Spec /\ Fairness

(***************************************************************************)
(* Properties                                                              *)
(***************************************************************************)

RecordedTask(dd, s) == dd.status.sources[s].task
RecordedPhase(dd, s) == dd.status.sources[s].phase

\* A task id in the stored status of a source is a task that was submitted for
\* this source of this incarnation of the descriptor: neither a reconcile that
\* read an old copy, nor one that outlived a deletion and re-creation under the
\* same name, can store its ids (the Status().Update of handleDDStatus).
RecordedTaskIsOwn ==
    \A s \in Source :
        RecordedTask(object, s) # NoTask =>
            taskReq[RecordedTask(object, s)] = AddRequest(s, object.uid)

\* A source is shown Ready only if its recorded task has reported SUCCESS: no
\* fault, crash or reordering makes checkSourceStatus vouch for another task.
ReadyMeansProcessed ==
    \A s \in Source :
        RecordedPhase(object, s) = "Ready" =>
            /\ RecordedTask(object, s) # NoTask
            /\ "SUCCESS" \in outcomes[RecordedTask(object, s)]

Quiescent == pc = "idle" /\ ~queued /\ ~timer /\ watch = <<>>

\* The controller never goes to sleep on a descriptor that is not Ready: when
\* nothing is queued, outstanding or undelivered, every listed source is
\* Ready and the status says so.  (A source that is edited, fails, is polled
\* in vain or loses an update is always looked at again.)
NeverAsleepUnready ==
    Quiescent /\ Exists(object) =>
        /\ object.status.overall = "Ready"
        /\ AllHealthy(object.status.sources, object.spec)

\* As long as the operator does not crash, a deletion is not forgotten: when
\* the controller is at rest and the descriptor is gone, the task it submitted
\* last is not an AddOrUpdate, so a Delete follows all of them.
DeletionNotForgotten ==
    "crash" \notin FaultKinds /\ Quiescent /\ ~Exists(object) =>
        lastOp # "AddOrUpdate"

LiveTasks(s) ==
    {t \in TaskId : /\ object.uid # 0
                    /\ taskReq[t] = AddRequest(s, object.uid)
                    /\ "FAILURE" \notin outcomes[t]}

\* TriggerTask is not idempotent, but with a timely informer the tasks
\* that process one source at the same time are bounded by what disturbed the
\* controller: a fault or a user operation repeats at most one submission, and
\* the requeue it causes may read the cache once more before the update is in it.
BoundedDuplication ==
    Timely /\ Exists(object) =>
        \A s \in Source : Cardinality(LiveTasks(s)) < 2 * (faults + userOps)

SameIncarnation == Exists(object) /\ object'.uid = object.uid

\* Once stored, the task id of a listed source is never replaced by another
\* one: it stays, or it is dropped after that very task has reported FAILURE.
RecordedTaskKept ==
    [][SameIncarnation =>
        \A s \in object.spec :
            RecordedTask(object, s) \notin {NoTask, RecordedTask(object', s)} =>
                /\ RecordedTask(object', s) = NoTask
                /\ "FAILURE" \in outcomes[RecordedTask(object, s)]]_object

\* While results do not expire, a Ready source is downgraded only to Error (it
\* could not be polled), never to a state of an execution: a redelivered run
\* of the task does not bring it back to STARTED or FAILURE.
ReadyIsKept ==
    []["expire" \notin FaultKinds /\ SameIncarnation =>
        \A s \in object.spec :
            RecordedPhase(object, s) = "Ready" =>
                RecordedPhase(object', s) \in {"Ready", "Error"}]_object

\* The result of the task was stored, and is no longer: Celery says PENDING.
Expired(t) == t \in Submitted /\ taskState[t] = "PENDING" /\ outcomes[t] # {}

\* A descriptor that stays becomes Ready for everything it lists, whatever the
\* (finitely many) failed tasks, lost answers, crashes and conflicts before.
\* The one thing that keeps a source from it is that the result of its recorded
\* task has expired: checkSourceStatus keeps the id of a PENDING task, nobody
\* executes it again, and the controller polls it for good.
EventuallyReady ==
    Exists(object) ~>
        \/ ~Exists(object)
        \/ /\ object.status.overall = "Ready"
           /\ AllHealthy(object.status.sources, object.spec)
        \/ /\ object.status.overall = "NotReady"
           /\ ~AllHealthy(object.status.sources, object.spec)
           /\ \A s \in object.spec :
                \/ RecordedPhase(object, s) = "Ready"
                \/ RecordedPhase(object, s) = "PENDING" /\ Expired(RecordedTask(object, s))

\* A deleted descriptor's data is eventually asked to be deleted (no crash).
EventuallyCleaned ==
    ~Exists(object) /\ lastOp = "AddOrUpdate" ~>
        lastOp = "Delete" \/ Exists(object)

(***************************************************************************)
(* The inductive invariant behind the theorems of DataDescriptorProofs     *)
(***************************************************************************)

\* Every copy of the descriptor, wherever it lies, is a version the API server
\* once stored: a copy with the stored resource version is the stored object,
\* the task ids it carries are its own, and what it calls Ready has succeeded.
OwnTasks(dd, requests) ==
    \A s \in Source :
        RecordedTask(dd, s) # NoTask =>
            requests[RecordedTask(dd, s)] = AddRequest(s, dd.uid)

ReadySound(dd, reported) ==
    \A s \in Source :
        RecordedPhase(dd, s) = "Ready" =>
            /\ RecordedTask(dd, s) # NoTask
            /\ "SUCCESS" \in reported[RecordedTask(dd, s)]

VersionOf(dd, obj, last, requests, reported) ==
    /\ dd.rv <= last
    /\ Exists(dd) => dd.rv # 0
    /\ Exists(dd) /\ dd.rv = obj.rv => dd = obj
    /\ OwnTasks(dd, requests)
    /\ ReadySound(dd, reported)

IsVersion(dd) == VersionOf(dd, object, rev, taskReq, outcomes)

VersionsInv ==
    /\ IsVersion(object) /\ IsVersion(cache) /\ IsVersion(instance)
    /\ \A i \in 1 .. Len(watch) : IsVersion(watch[i])

\* What a reconcile has established when its loops have left a source behind.
HasTask(s) ==
    /\ taskIDs[s] # NoTask
    /\ ExistingTask(instance, s) \in {NoTask, taskIDs[s]}

ResultSound(s) ==
    /\ results[s].task \in {NoTask, taskIDs[s]}
    /\ results[s].phase = "Ready" =>
        results[s].task # NoTask /\ "SUCCESS" \in outcomes[results[s].task]

SourceInv(s) ==
    /\ taskIDs[s] # NoTask => taskReq[taskIDs[s]] = AddRequest(s, instance.uid)
    /\ ResultSound(s)
    /\ pc = "trigger" /\ s \in instance.spec \ todo => HasTask(s)
    /\ pc = "check" /\ s \in instance.spec => HasTask(s)
    /\ pc = "check" /\ s \in instance.spec \ todo /\ results[s].task = NoTask =>
        "FAILURE" \in outcomes[taskIDs[s]]
    /\ pc = "check" /\ s \in instance.spec \ todo /\ "expire" \notin FaultKinds
       /\ RecordedPhase(instance, s) = "Ready" =>
        results[s].phase \in {"Ready", "Error"}

ReconcileInv ==
    /\ pc \in {"trigger", "check"} => Exists(instance) /\ todo \subseteq instance.spec
    /\ pc = "delete" => ~Exists(instance)
    /\ pc \in {"idle", "delete"} => taskIDs = NoTaskIDs
    /\ pc # "check" => results = NoEntries
    /\ \A s \in Source : SourceInv(s)

OutcomesInv ==
    \A t \in TaskId :
        /\ taskState[t] \in FinalState => taskState[t] \in outcomes[t]
        /\ "SUCCESS" \in outcomes[t] /\ "expire" \notin FaultKinds =>
            taskState[t] = "SUCCESS"

\* What the controller has not looked at yet is on its way to it.
WakeInv ==
    /\ IF watch = <<>> THEN cache = object ELSE watch[Len(watch)] = object
    /\ pc # "idle" /\ ~queued => instance = cache
    /\ "crash" \notin FaultKinds /\ pc = "idle" /\ ~queued /\ ~timer /\ ~Exists(cache) =>
        lastOp # "AddOrUpdate"

\* Everything the theorems need, as one inductive invariant: the copies of the
\* descriptor, the running reconcile, the result backend and the workqueue.
IInv ==
    /\ TypeOK
    /\ VersionsInv
    /\ ReconcileInv
    /\ OutcomesInv
    /\ WakeInv
    /\ NeverAsleepUnready

(***************************************************************************)
(* Why duplication is bounded                                              *)
(***************************************************************************)

\* A version of incarnation uid that lists s and knows no task for it: who
\* reconciles it submits one.
Bare(dd, s, uid) == dd.uid = uid /\ s \in dd.spec /\ RecordedTask(dd, s) = NoTask

One(b) == IF b THEN 1 ELSE 0

\* What is still submitted for s when nothing is disturbed any more: for each
\* bare version that the reconcile, the queue or the informer holds,
Sends(s) == pc = "trigger" /\ s \in todo /\ Bare(instance, s, object.uid)
Ahead(s) == {i \in 1 .. Len(watch) : Bare(watch[i], s, object.uid)}
Held(s) == One(Sends(s)) + One(queued /\ Bare(cache, s, object.uid)) + Cardinality(Ahead(s))

\* and, when the stored version is one of them, for the reconcile that a
\* conflict or the timer causes besides.
Disturbed == pc # "idle" \/ queued \/ timer \/ Len(watch) > 1
Due(s) ==
    CASE ~Bare(object, s, object.uid) -> Held(s)
      [] Bare(object, s, object.uid) /\ watch # <<>> -> Held(s) + One(Disturbed)
      [] Bare(object, s, object.uid) /\ watch = <<>> /\ pc = "idle" -> One(queued) + One(timer)
      [] OTHER -> One(Sends(s)) + IF instance = object THEN One(queued \/ timer) ELSE 2

\* A task that has failed, and that is recorded or about to be, is given up when
\* it is polled; the version that forgets it is bare, and comes with a timer.
Dead(t) == t # NoTask /\ "FAILURE" \in outcomes[t]
Doomed(s) ==
    \/ Dead(RecordedTask(object, s))
    \/ /\ instance.uid = object.uid
       /\ taskIDs[s] # RecordedTask(instance, s) /\ Dead(taskIDs[s])

\* Every fault and every user operation pays for two submissions.
Score(s) == Cardinality(LiveTasks(s)) + Due(s) + 2 * One(Doomed(s))
PaidFor == Timely /\ Exists(object) => \A s \in Source : Score(s) < 2 * (faults + userOps)

\* An id that is not in use has no past, and one in use belongs to an
\* incarnation that has been; the stored version is not met again once it has
\* been delivered; and nothing happens before anybody does anything.
TasksInv ==
    /\ \A t \in TaskId : IF taskReq[t] = NoReq
                         THEN outcomes[t] = {} /\ taskState[t] = "PENDING"
                         ELSE taskReq[t].uid <= rev
    /\ \A s \in Source : IsFiniteSet(LiveTasks(s))
CopiesInv ==
    /\ {object.uid, cache.uid, instance.uid} \subseteq 0 .. rev
    /\ \A i \in 1 .. Len(watch) : watch[i].uid <= rev
    /\ Exists(object) /\ watch # <<>> =>
        /\ object.rv \notin {cache.rv, instance.rv}
        /\ \A i \in 1 .. Len(watch) - 1 : watch[i].rv # object.rv
StillInv ==
    faults + userOps = 0 =>
        pc = "idle" /\ ~queued /\ ~timer /\ watch = <<>> /\ ~Exists(object)

DuplicationInv == TasksInv /\ CopiesInv /\ StillInv /\ PaidFor

=============================================================================
