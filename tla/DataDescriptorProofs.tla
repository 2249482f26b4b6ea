------------------------ MODULE DataDescriptorProofs ------------------------
(***************************************************************************)
(* Proofs about DataDescriptor, for any number of sources, task ids,       *)
(* faults, user operations and retries.                                    *)
(*                                                                         *)
(* The argument is one inductive invariant, IInv.  Its parts are proved    *)
(* preserved one at a time, in the order in which they need each other:    *)
(* types, the copies of the descriptor, the result backend's history, the  *)
(* running reconcile, and what wakes the controller up.                    *)
(*                                                                         *)
(* The bound on duplicated submissions comes last.  It needs a second      *)
(* invariant, DuplicationInv, whose core is a score that every action      *)
(* keeps or, when it is a fault or a user's, raises by at most two.        *)
(***************************************************************************)
EXTENDS DataDescriptor, FiniteSetTheorems, TLAPS

\* An accepted request gets an id that is not in use.
LEMMA FreshIdIsFresh ==
    ASSUME NEW t, NEW req, Submit(t, req)
    PROVE  t \in TaskId /\ taskReq[t] = NoReq
  <1>1. \E u \in TaskId : u \notin Submitted
    BY DEF Submit, Submitted
  <1>2. t = FreshId
    BY DEF Submit
  <1>3. t \in TaskId /\ t \notin Submitted
    BY <1>1, <1>2 DEF FreshId
  <1> QED
    BY <1>3 DEF Submitted

\* The values a descriptor's status and spec can take.
LEMMA NotFoundType == NotFound \in Descriptor
  BY DEF NotFound, Descriptor, EmptyStatus, DDStatus, NoEntries, NoEntry,
         SourceStatus, Phase, ConditionType

LEMMA RequestTypes ==
    /\ DeleteRequest \in Request
    /\ \A s \in Source, uid \in Nat : AddRequest(s, uid) \in Request
  BY DataDescriptorAssumption DEF DeleteRequest, AddRequest, Request, Source

LEMMA NewStatusType ==
    ASSUME NEW dd \in Descriptor, NEW sources \in [Source -> SourceStatus]
    PROVE  NewStatus(dd, sources) \in DDStatus
  BY DEF NewStatus, Descriptor, DDStatus, ConditionType

(***************************************************************************)
(* Types                                                                   *)
(***************************************************************************)

\* What sending a request does to the task service.
LEMMA AcceptType ==
    ASSUME TypeOK, NEW t, NEW req \in Request, Accept(t, req)
    PROVE  TasksTypeOK(Request)' /\ lastOp' \in {"", "AddOrUpdate", "Delete"}
  <1>1. t \in TaskId
    BY FreshIdIsFresh DEF Accept
  <1> QED
    BY <1>1 DEF TypeOK, TasksTypeOK, Accept, Submit, Request

LEMMA MayHaveAcceptedType ==
    ASSUME TypeOK, NEW req \in Request, MayHaveAccepted(req)
    PROVE  TasksTypeOK(Request)' /\ lastOp' \in {"", "AddOrUpdate", "Delete"}
  <1>1. CASE \E t \in TaskId : Accept(t, req)
    BY <1>1, AcceptType
  <1>2. CASE UNCHANGED <<taskVars, lastOp>>
    BY <1>2 DEF TypeOK, TasksTypeOK, taskVars
  <1> QED
    BY <1>1, <1>2 DEF MayHaveAccepted

LEMMA SendingType ==
    ASSUME TypeOK, NEW req, Sending(req)
    PROVE  req \in Request /\ (req.op = "AddOrUpdate" => req.src \in Source)
  <1>1. instance.uid \in Nat
    BY DEF TypeOK, Descriptor
  <1>2. CASE req = DeleteRequest
    BY <1>2, RequestTypes DEF DeleteRequest
  <1>3. CASE \E s \in Source : req = AddRequest(s, instance.uid)
    BY <1>1, <1>3, RequestTypes DEF AddRequest
  <1> QED
    BY <1>2, <1>3 DEF Sending

\* What Return leaves behind is well typed.
LEMMA ReturnType ==
    ASSUME TypeOK, NEW requeue \in BOOLEAN, Return(requeue)
    PROVE  /\ pc' = "idle" /\ timer' \in BOOLEAN
           /\ instance' \in Descriptor /\ todo' \subseteq Source /\ attempt' \in Nat
           /\ taskIDs' \in [Source -> TaskId \union {NoTask}]
           /\ results' \in [Source -> SourceStatus]
  BY NotFoundType
  DEF Return, TypeOK, NoTaskIDs, NoEntries, NoEntry, SourceStatus, Phase

LEMMA CounterType ==
    ASSUME TypeOK
    PROVE  rev \in Nat /\ attempt \in Nat /\ faults \in Nat /\ userOps \in Nat
  BY DEF TypeOK

LEMMA FaultType ==
    ASSUME faults \in Nat, NEW kind, Fault(kind)
    PROVE  faults' \in Nat
  BY DEF Fault

LEMMA AppendType ==
    ASSUME NEW S, NEW seq \in Seq(S), NEW e \in S
    PROVE  Append(seq, e) \in Seq(S)
  OBVIOUS

LEMMA EmptySeqType == ASSUME NEW S PROVE <<>> \in Seq(S)
  OBVIOUS

\* The API server stores well-typed versions.
LEMMA StoreType ==
    ASSUME TypeOK, NEW uid \in Nat, NEW spec \in SUBSET Source,
           NEW status \in DDStatus, Store(uid, spec, status)
    PROVE  object' \in Descriptor /\ rev' \in Nat /\ watch' \in Seq(Descriptor)
  <1>1. rev' \in Nat /\ rev + 1 \in Nat
    BY CounterType DEF Store
  <1>2. object' \in Descriptor
    BY <1>1 DEF Store, Descriptor
  <1>3. watch' = Append(watch, object') /\ watch \in Seq(Descriptor)
    BY DEF Store, TypeOK
  <1> QED
    BY <1>1, <1>2, <1>3, AppendType

LEMMA UserType == TypeOK /\ User => TypeOK'
  <1> SUFFICES ASSUME TypeOK, User
               PROVE  TypeOK'
    OBVIOUS
  <1> USE DEF UserOp, queueVars, localVars, taskVars
  <1>0. ASSUME UserOp, object' \in Descriptor, rev' \in Nat, watch' \in Seq(Descriptor)
        PROVE  TypeOK'
    <2>1. userOps' \in Nat
      BY <1>0, CounterType
    <2> QED
      BY <1>0, <2>1 DEF TypeOK, TasksTypeOK
  <1>1. ASSUME NEW spec \in SUBSET Source, Create(spec)
        PROVE  TypeOK'
    <2>1. EmptyStatus \in DDStatus
      BY NotFoundType DEF NotFound, Descriptor
    <2>2. rev + 1 \in Nat
      BY CounterType
    <2> QED
      BY <1>0, <1>1, <2>1, <2>2, StoreType DEF Create
  <1>2. ASSUME NEW spec \in SUBSET Source, Edit(spec)
        PROVE  TypeOK'
    <2>1. object.status \in DDStatus /\ object.uid \in Nat
      BY DEF Descriptor, TypeOK
    <2> QED
      BY <1>0, <1>2, <2>1, StoreType DEF Edit
  <1>3. CASE Delete
    <2>1. object' \in Descriptor /\ rev' \in Nat
      BY <1>3, NotFoundType, CounterType DEF Delete
    <2>2. watch' \in Seq(Descriptor)
      BY <1>3, NotFoundType, AppendType DEF Delete, TypeOK
    <2> QED
      BY <1>0, <1>3, <2>1, <2>2 DEF Delete
  <1> QED
    BY <1>1, <1>2, <1>3 DEF User

LEMMA ControllerType == TypeOK /\ ReconcileInv /\ Controller => TypeOK'
  <1> SUFFICES ASSUME TypeOK, ReconcileInv, Controller
               PROVE  TypeOK'
    OBVIOUS
  <1> USE DEF apiVars, queueVars, localVars, boundVars
  <1>1. CASE Reconcile
    BY <1>1 DEF Reconcile, TypeOK, TasksTypeOK, taskVars, Descriptor
  <1>2. CASE KeepTask
    BY <1>2, ZenonT(60) DEF KeepTask, TypeOK, TasksTypeOK, taskVars, Descriptor, DDStatus,
                SourceStatus, ExistingTask
  <1>3. CASE TriggerTask
    <2> PICK req \in Bodies, t \in TaskId : TriggerSucceeds(t, req)
      BY <1>3 DEF TriggerTask
    <2>1. req \in Request /\ (req.op = "AddOrUpdate" => req.src \in Source)
      BY SendingType DEF TriggerSucceeds
    <2>2. TasksTypeOK(Request)' /\ lastOp' \in {"", "AddOrUpdate", "Delete"}
      BY <2>1, AcceptType DEF TriggerSucceeds
    <2>3. CASE req.op = "Delete"
      BY <2>2, <2>3, ReturnType DEF TriggerSucceeds, TypeOK
    <2>4. CASE req.op # "Delete"
      <3>1. req.src \in Source
        BY <2>1, <2>4 DEF Request
      <3>2. taskIDs' \in [Source -> TaskId \union {NoTask}] /\ todo' \subseteq Source
        BY <2>4, <3>1 DEF TriggerSucceeds, TypeOK
      <3>3. attempt' \in Nat
        BY <2>4 DEF TriggerSucceeds
      <3>4. UNCHANGED <<apiVars, queueVars, pc, instance, results, boundVars>>
        BY <2>4 DEF TriggerSucceeds
      <3> QED
        BY <2>2, <3>2, <3>3, <3>4 DEF TypeOK
    <2> QED
      BY <2>3, <2>4
  <1>4. CASE TriggerError
    <2> PICK req \in Bodies : TriggerTimesOut(req) \/ TriggerFails(req)
      BY <1>4 DEF TriggerError
    <2>1. req \in Request
      BY SendingType DEF TriggerTimesOut, TriggerFails
    <2>2. TasksTypeOK(Request)' /\ lastOp' \in {"", "AddOrUpdate", "Delete"}
      BY <2>1, MayHaveAcceptedType DEF TriggerTimesOut, TriggerFails
    <2>3. CASE TriggerTimesOut(req)
      <3>1. attempt' \in Nat /\ faults' \in Nat
        BY <2>3, CounterType, FaultType DEF TriggerTimesOut
      <3> QED
        BY <2>2, <2>3, <3>1 DEF TriggerTimesOut, TypeOK
    <2>4. CASE TriggerFails(req)
      <3>1. faults' \in Nat
        BY <2>4, CounterType, FaultType DEF TriggerFails
      <3> QED
        BY <2>2, <2>4, <3>1, ReturnType DEF TriggerFails, TypeOK
    <2> QED
      BY <2>3, <2>4
  <1>5. CASE HandleDDDone
    BY <1>5 DEF HandleDDDone, TypeOK, TasksTypeOK, taskVars, Descriptor
  <1>6. ASSUME NEW s \in Source, NEW st \in TaskState \union {"Error"},
               CheckSource(s, st), faults' \in Nat
        PROVE  TypeOK'
    <2>1. CheckSourceStatus(taskIDs[s], st) \in SourceStatus
      BY <1>6 DEF CheckSourceStatus, SourceStatus, Phase, TaskState, FinalState, TypeOK
    <2> QED
      BY <1>6, <2>1 DEF CheckSource, TypeOK, TasksTypeOK, taskVars
  <1>7. CASE PollAnswered
    <2> PICK s \in Source : CheckSource(s, taskState[taskIDs[s]]) /\ UNCHANGED faults
      BY <1>7 DEF PollAnswered
    <2>1. taskIDs[s] \in TaskId
      BY DEF CheckSource, Visited, ReconcileInv, SourceInv, HasTask, TypeOK
    <2>2. taskState[taskIDs[s]] \in TaskState
      BY <2>1 DEF TypeOK, TasksTypeOK
    <2> QED
      BY <1>6, <2>2 DEF TypeOK
  <1>8. CASE PollFails
    <2>1. faults' \in Nat
      BY <1>8, CounterType, FaultType DEF PollFails
    <2> QED
      BY <1>6, <1>8, <2>1 DEF PollFails
  <1>9. CASE HandleDDStatus
    <2> DEFINE new == NewStatus(instance, results)
    <2>1. instance.uid \in Nat /\ instance.spec \in SUBSET Source /\ new \in DDStatus
      BY NewStatusType DEF TypeOK, Descriptor
    <2>2. object' \in Descriptor /\ rev' \in Nat /\ watch' \in Seq(Descriptor)
      <3>1. CASE UNCHANGED apiVars
        BY <3>1 DEF TypeOK
      <3>2. CASE Store(instance.uid, instance.spec, new)
        BY <2>1, <3>2, StoreType
      <3> QED
        BY <1>9, <3>1, <3>2 DEF HandleDDStatus
    <2>3. \E requeue \in BOOLEAN : Return(requeue)
      BY <1>9 DEF HandleDDStatus, HasPendingSources, AllHealthy
    <2>4. TasksTypeOK(Request)'
      BY <1>9 DEF HandleDDStatus, TypeOK, TasksTypeOK, taskVars
    <2> QED
      BY <1>9, <2>2, <2>3, <2>4, ReturnType DEF HandleDDStatus, TypeOK
  <1>10. CASE StatusUpdateFails
    <2>1. TasksTypeOK(Request)'
      BY <1>10 DEF StatusUpdateFails, TypeOK, TasksTypeOK, taskVars
    <2> QED
      <3>1. faults' \in Nat
        BY <1>10, CounterType, FaultType DEF StatusUpdateFails
      <3> QED
        BY <1>10, <2>1, <3>1, ReturnType DEF StatusUpdateFails, TypeOK
  <1> QED
    BY <1>1, <1>2, <1>3, <1>4, <1>5, <1>7, <1>8, <1>9, <1>10 DEF Controller

LEMMA EnvironmentType ==
    ASSUME TypeOK,
           \/ InformerEvent \/ RequeueTimer \/ Restart
           \/ \E t \in TaskId : Execute(t) \/ TaskFault(t)
    PROVE  TypeOK'
  <1> USE DEF apiVars, queueVars, localVars, boundVars, taskVars
  <1>1. CASE InformerEvent
    <2>1. watch \in Seq(Descriptor) /\ watch # <<>>
      BY <1>1 DEF InformerEvent, TypeOK
    <2>2. cache' \in Descriptor /\ watch' \in Seq(Descriptor)
      BY <1>1, <2>1 DEF InformerEvent
    <2> QED
      BY <1>1, <2>2 DEF InformerEvent, TypeOK, TasksTypeOK
  <1>2. CASE RequeueTimer
    BY <1>2 DEF RequeueTimer, TypeOK, TasksTypeOK
  <1>3. CASE Restart
    <2>1. faults' \in Nat /\ attempt' \in Nat
      BY <1>3, CounterType, FaultType DEF Restart
    <2>2. queued' \in BOOLEAN /\ timer' \in BOOLEAN /\ rev' \in Nat /\ userOps' \in Nat
      BY <1>3, CounterType DEF Restart, Exists
    <2>3. taskIDs' \in [Source -> TaskId \union {NoTask}]
          /\ results' \in [Source -> SourceStatus]
      BY <1>3 DEF Restart, NoTaskIDs, NoEntries, NoEntry, SourceStatus, Phase
    <2>4. /\ object' \in Descriptor /\ cache' \in Descriptor /\ instance' \in Descriptor
          /\ todo' \subseteq Source /\ pc' = "idle"
      BY <1>3, NotFoundType DEF Restart, TypeOK
    <2>6. watch' \in Seq(Descriptor)
      BY <1>3, EmptySeqType DEF Restart
    <2>5. TasksTypeOK(Request)' /\ lastOp' \in {"", "AddOrUpdate", "Delete"}
      BY <1>3 DEF Restart, TypeOK, TasksTypeOK
    <2> QED
      BY <2>1, <2>2, <2>3, <2>4, <2>5, <2>6 DEF TypeOK
  <1>4. ASSUME NEW t \in TaskId, Execute(t) \/ TaskFault(t)
        PROVE  TypeOK'
    <2>1. faults' \in Nat
      BY <1>4, CounterType, FaultType DEF Execute, TaskFault
    <2>2. TasksTypeOK(Request)'
      <3>0. TasksTypeOK(Request)
        BY DEF TypeOK
      <3>1. ASSUME NEW st \in TaskState, Report(t, st)
            PROVE  TasksTypeOK(Request)'
        BY <3>0, <3>1 DEF Report, TasksTypeOK
      <3>2. CASE Start(t) \/ Expire(t)
        BY <3>0, <3>2 DEF Start, Expire, TasksTypeOK, TaskState
      <3>3. CASE \E st \in FinalState : Finish(t, st)
        BY <3>1, <3>3 DEF Finish, TaskState
      <3>4. CASE \E st \in TaskState : Redelivered(t, st)
        BY <3>1, <3>4 DEF Redelivered
      <3> QED
        BY <1>4, <3>2, <3>3, <3>4 DEF Execute, TaskFault, FinalState
    <2>3. UNCHANGED operatorVars
      BY <1>4 DEF Execute, TaskFault
    <2> QED
      BY <2>1, <2>2, <2>3 DEF TypeOK, operatorVars
  <1> QED
    BY <1>1, <1>2, <1>3, <1>4

LEMMA InitType == Init => TypeOK
  <1> SUFFICES ASSUME Init
               PROVE  TypeOK
    OBVIOUS
  <1>1. rev \in Nat /\ attempt \in Nat /\ faults \in Nat /\ userOps \in Nat
    BY DEF Init
  <1>2. TasksTypeOK(Request)
    BY DEF Init, TasksInit, TasksTypeOK, TaskState
  <1>3. results \in [Source -> SourceStatus] /\ taskIDs \in [Source -> TaskId \union {NoTask}]
    BY DEF Init, NoTaskIDs, NoEntries, NoEntry, SourceStatus, Phase
  <1>4. watch \in Seq(Descriptor)
    BY EmptySeqType DEF Init
  <1>5. object \in Descriptor /\ cache \in Descriptor /\ instance \in Descriptor
    BY NotFoundType DEF Init
  <1> QED
    BY <1>1, <1>2, <1>3, <1>4, <1>5 DEF Init, TypeOK

LEMMA StutterType == TypeOK /\ UNCHANGED vars => TypeOK'
  BY DEF TypeOK, TasksTypeOK, vars, apiVars, queueVars, localVars, boundVars, taskVars

LEMMA NextType == TypeOK /\ ReconcileInv /\ [Next]_vars => TypeOK'
  BY UserType, ControllerType, EnvironmentType, StutterType DEF Next

(***************************************************************************)
(* The task service only grows                                             *)
(***************************************************************************)

\* No step takes back a request, or an outcome, of a task.
Grows ==
    \A t \in TaskId :
        /\ taskReq[t] # NoReq => taskReq'[t] = taskReq[t]
        /\ outcomes[t] \subseteq outcomes'[t]

LEMMA AcceptGrows ==
    ASSUME TypeOK, NEW t, NEW req, Accept(t, req)
    PROVE  Grows
  <1>1. t \in TaskId /\ taskReq[t] = NoReq
    BY FreshIdIsFresh DEF Accept
  <1> QED
    BY <1>1 DEF Accept, Submit, Grows, TypeOK, TasksTypeOK

LEMMA StepGrows == TypeOK /\ [Next]_vars => Grows
  <1> SUFFICES ASSUME TypeOK, [Next]_vars
               PROVE  Grows
    OBVIOUS
  <1>1. ASSUME UNCHANGED taskVars
        PROVE  Grows
    BY <1>1 DEF taskVars, Grows
  <1>2. ASSUME NEW req, MayHaveAccepted(req)
        PROVE  Grows
    BY <1>1, <1>2, AcceptGrows DEF MayHaveAccepted
  <1>3. CASE User
    BY <1>1, <1>3 DEF User, Create, Edit, Delete, UserOp
  <1>4. CASE InformerEvent \/ RequeueTimer \/ Restart
    BY <1>1, <1>4 DEF InformerEvent, RequeueTimer, Restart
  <1>5. CASE Controller
    <2>1. CASE TriggerTask
      BY <2>1, AcceptGrows DEF TriggerTask, TriggerSucceeds
    <2>2. CASE TriggerError
      BY <2>2, <1>2 DEF TriggerError, TriggerTimesOut, TriggerFails
    <2>3. CASE ~TriggerTask /\ ~TriggerError
      BY <1>1, <1>5, <2>3
      DEF Controller, Reconcile, KeepTask, HandleDDDone, PollAnswered, PollFails,
          CheckSource, HandleDDStatus, StatusUpdateFails
    <2> QED
      BY <2>1, <2>2, <2>3
  <1>6. ASSUME NEW t \in TaskId, Execute(t) \/ TaskFault(t)
        PROVE  Grows
    BY <1>6, ZenonT(60) DEF Execute, TaskFault, Start, Finish, Redelivered, Report, Expire,
                Grows, TypeOK, TasksTypeOK
  <1>7. CASE UNCHANGED vars
    BY <1>1, <1>7 DEF vars
  <1> QED
    BY <1>3, <1>4, <1>5, <1>6, <1>7 DEF Next

(***************************************************************************)
(* The copies of the descriptor                                            *)
(***************************************************************************)

\* Tasks stay what they were submitted for.
LEMMA OwnTasksKept ==
    ASSUME TypeOK, Grows, NEW dd \in Descriptor, OwnTasks(dd, taskReq)
    PROVE  OwnTasks(dd, taskReq')
  <1> SUFFICES ASSUME NEW s \in Source, RecordedTask(dd, s) # NoTask
               PROVE  taskReq'[RecordedTask(dd, s)] = AddRequest(s, dd.uid)
    BY DEF OwnTasks
  <1>1. RecordedTask(dd, s) \in TaskId /\ dd.uid \in Nat
    BY DEF RecordedTask, Descriptor, DDStatus, SourceStatus
  <1>2. taskReq[RecordedTask(dd, s)] = AddRequest(s, dd.uid)
    BY DEF OwnTasks
  <1>3. AddRequest(s, dd.uid) # NoReq
    BY <1>1, RequestTypes, NoReqAssumption
  <1> QED
    BY <1>1, <1>2, <1>3 DEF Grows

\* What was Ready stays vouched for.
LEMMA ReadySoundKept ==
    ASSUME TypeOK, Grows, NEW dd \in Descriptor, ReadySound(dd, outcomes)
    PROVE  ReadySound(dd, outcomes')
  <1>1. \A s \in Source : RecordedTask(dd, s) \in TaskId \union {NoTask}
    BY DEF RecordedTask, Descriptor, DDStatus, SourceStatus
  <1> QED
    BY <1>1 DEF ReadySound, Grows

\* Tasks and phases are all that OwnTasks and ReadySound look at.
LEMMA SameStatus ==
    ASSUME NEW dd, NEW ee, dd.status = ee.status, dd.uid = ee.uid,
           NEW requests, NEW reported,
           OwnTasks(dd, requests), ReadySound(dd, reported)
    PROVE  OwnTasks(ee, requests) /\ ReadySound(ee, reported)
  BY DEF OwnTasks, ReadySound, RecordedTask, RecordedPhase

LEMMA EmptyStatusSound ==
    ASSUME NEW dd, dd.status = EmptyStatus, NEW requests, NEW reported
    PROVE  OwnTasks(dd, requests) /\ ReadySound(dd, reported)
  <1>1. EmptyStatus.sources = NoEntries
    BY DEF EmptyStatus
  <1>2. \A s \in Source : dd.status.sources[s] = NoEntry
    BY <1>1 DEF NoEntries
  <1> QED
    BY <1>2 DEF OwnTasks, ReadySound, RecordedTask, RecordedPhase, NoEntry

LEMMA NotFoundVersion ==
    ASSUME NEW obj, NEW last \in Nat, NEW requests, NEW reported
    PROVE  VersionOf(NotFound, obj, last, requests, reported)
  <1>1. NotFound.rv = 0 /\ NotFound.uid = 0 /\ NotFound.status = EmptyStatus
    BY DEF NotFound
  <1>2. OwnTasks(NotFound, requests) /\ ReadySound(NotFound, reported)
    BY <1>1, EmptyStatusSound
  <1> QED
    BY <1>1, <1>2 DEF VersionOf, Exists

\* What a step may do to the stored object.
ObjectStep ==
    \/ object' = object /\ rev' = rev
    \/ /\ rev' = rev + 1
       /\ \/ object' = NotFound
          \/ /\ object'.rv = rev + 1
             /\ OwnTasks(object', taskReq') /\ ReadySound(object', outcomes')

\* An old version stays one: a new version gets a number none has had.
LEMMA VersionKept ==
    ASSUME TypeOK, Grows, ObjectStep, NEW dd \in Descriptor, IsVersion(dd)
    PROVE  VersionOf(dd, object', rev', taskReq', outcomes')
  <1>1. OwnTasks(dd, taskReq') /\ ReadySound(dd, outcomes')
    BY OwnTasksKept, ReadySoundKept DEF IsVersion, VersionOf
  <1>2. dd.rv \in Nat /\ rev \in Nat
    BY CounterType DEF Descriptor
  <1>3. dd.rv <= rev'
    BY <1>2 DEF IsVersion, VersionOf, ObjectStep
  <1>4. Exists(dd) => dd.rv # 0
    BY DEF IsVersion, VersionOf
  <1>5. Exists(dd) /\ dd.rv = object'.rv => dd = object'
    <2>1. CASE object' = object
      BY <2>1 DEF IsVersion, VersionOf
    <2>2. CASE object' = NotFound
      BY <1>4, <2>2 DEF NotFound
    <2>3. CASE object'.rv = rev + 1
      BY <1>2, <2>3 DEF IsVersion, VersionOf
    <2> QED
      BY <2>1, <2>2, <2>3 DEF ObjectStep
  <1> QED
    BY <1>1, <1>3, <1>4, <1>5 DEF VersionOf

LEMMA ObjectIsVersion ==
    ASSUME TypeOK, Grows, ObjectStep, IsVersion(object)
    PROVE  IsVersion(object)'
  <1> USE DEF IsVersion
  <1>1. CASE object' = object /\ rev' = rev
    BY <1>1, VersionKept DEF TypeOK
  <1>2. rev \in Nat
    BY CounterType
  <1>3. CASE rev' = rev + 1 /\ object' = NotFound
    BY <1>2, <1>3, NotFoundVersion
  <1>4. CASE /\ rev' = rev + 1 /\ object'.rv = rev + 1
             /\ OwnTasks(object', taskReq') /\ ReadySound(object', outcomes')
    BY <1>2, <1>4 DEF VersionOf
  <1> QED
    BY <1>1, <1>3, <1>4 DEF ObjectStep

\* What a step may do to the copies outside the API server.
CopiesStep ==
    /\ cache' \in {cache, object} \/ (watch # <<>> /\ cache' = Head(watch))
    /\ instance' \in {instance, cache, NotFound}
    /\ \/ watch' \in {watch, <<>>, Append(watch, object')}
       \/ watch # <<>> /\ watch' = Tail(watch)

LEMMA CopiesAreVersions ==
    ASSUME TypeOK, Grows, ObjectStep, CopiesStep, VersionsInv, rev' \in Nat
    PROVE  VersionsInv'
  <1> USE DEF IsVersion
  <1>1. ASSUME NEW dd \in Descriptor, IsVersion(dd)
        PROVE  VersionOf(dd, object', rev', taskReq', outcomes')
    BY <1>1, VersionKept
  <1>2. VersionOf(object', object', rev', taskReq', outcomes')
    BY ObjectIsVersion DEF VersionsInv
  <1>3. watch \in Seq(Descriptor)
    BY DEF TypeOK
  <1>4. \A i \in 1 .. Len(watch) : watch[i] \in Descriptor /\ IsVersion(watch[i])
    BY <1>3 DEF VersionsInv
  <1>5. \A i \in 1 .. Len(watch) : VersionOf(watch[i], object', rev', taskReq', outcomes')
    BY <1>1, <1>4
  <1>6. VersionOf(cache', object', rev', taskReq', outcomes')
    <2>1. CASE cache' \in {cache, object}
      BY <1>1, <2>1 DEF VersionsInv, TypeOK
    <2>2. CASE watch # <<>> /\ cache' = Head(watch)
      <3>1. Head(watch) = watch[1] /\ 1 \in 1 .. Len(watch)
        BY <1>3, <2>2
      <3> QED
        BY <1>5, <2>2, <3>1
    <2> QED
      BY <2>1, <2>2 DEF CopiesStep
  <1>7. VersionOf(instance', object', rev', taskReq', outcomes')
    <2>1. VersionOf(NotFound, object', rev', taskReq', outcomes')
      BY NotFoundVersion
    <2>2. VersionOf(instance, object', rev', taskReq', outcomes')
          /\ VersionOf(cache, object', rev', taskReq', outcomes')
      BY <1>1 DEF VersionsInv, TypeOK
    <2> QED
      BY <2>1, <2>2 DEF CopiesStep
  <1>8. \A i \in 1 .. Len(watch') : VersionOf(watch'[i], object', rev', taskReq', outcomes')
    <2>1. CASE watch' = watch
      BY <1>5, <2>1
    <2>2. CASE watch' = <<>>
      BY <2>2
    <2>3. CASE watch' = Append(watch, object')
      BY <1>2, <1>3, <1>5, <2>3
    <2>4. CASE watch # <<>> /\ watch' = Tail(watch)
      BY <1>3, <1>5, <2>4
    <2> QED
      BY <2>1, <2>2, <2>3, <2>4 DEF CopiesStep
  <1> QED
    BY <1>2, <1>6, <1>7, <1>8 DEF VersionsInv

LEMMA VersionsStep ==
    TypeOK /\ TypeOK' /\ VersionsInv /\ ReconcileInv /\ [Next]_vars => VersionsInv'
  <1> SUFFICES ASSUME TypeOK, TypeOK', VersionsInv, ReconcileInv, [Next]_vars
               PROVE  VersionsInv'
    OBVIOUS
  <1>0. Grows /\ rev' \in Nat
    BY StepGrows DEF TypeOK
  <1> USE DEF apiVars, queueVars, localVars
  <1>1. ASSUME ObjectStep, CopiesStep
        PROVE  VersionsInv'
    BY <1>0, <1>1, CopiesAreVersions
  <1>2. ASSUME UNCHANGED <<object, rev>>, CopiesStep
        PROVE  VersionsInv'
    BY <1>1, <1>2 DEF ObjectStep
  <1>3. CASE User
    <2>1. CopiesStep
      BY <1>3 DEF User, Create, Edit, Delete, UserOp, Store, CopiesStep
    <2>2. ASSUME NEW spec \in SUBSET Source, Create(spec)
          PROVE  ObjectStep
      <3>0. object'.status = EmptyStatus
        BY <2>2 DEF Create, Store
      <3>1. OwnTasks(object', taskReq') /\ ReadySound(object', outcomes')
        BY <3>0, EmptyStatusSound
      <3>2. object'.rv = rev + 1 /\ rev' = rev + 1
        BY <2>2 DEF Create, Store
      <3> QED
        BY <3>1, <3>2 DEF ObjectStep
    <2>3. ASSUME NEW spec \in SUBSET Source, Edit(spec)
          PROVE  ObjectStep
      <3>1. OwnTasks(object, taskReq') /\ ReadySound(object, outcomes')
        BY <1>0, OwnTasksKept, ReadySoundKept DEF VersionsInv, IsVersion, VersionOf, TypeOK
      <3>2. object'.uid = object.uid /\ object'.status = object.status
        BY <2>3 DEF Edit, Store
      <3>3. OwnTasks(object', taskReq') /\ ReadySound(object', outcomes')
        BY <3>1, <3>2, SameStatus
      <3>4. object'.rv = rev + 1 /\ rev' = rev + 1
        BY <2>3 DEF Edit, Store
      <3> QED
        BY <3>3, <3>4 DEF ObjectStep
    <2>4. ASSUME Delete
          PROVE  ObjectStep
      <3>1. object' = NotFound /\ rev' = rev + 1
        BY <2>4 DEF Delete
      <3> QED
        BY <3>1 DEF ObjectStep
    <2> QED
      BY <1>1, <1>3, <2>1, <2>2, <2>3, <2>4 DEF User
  <1>4. CASE InformerEvent
    BY <1>2, <1>4 DEF InformerEvent, CopiesStep
  <1>5. CASE RequeueTimer
    BY <1>2, <1>5 DEF RequeueTimer, CopiesStep
  <1>6. CASE Restart
    BY <1>2, <1>6 DEF Restart, CopiesStep
  <1>7. CASE Reconcile \/ KeepTask \/ HandleDDDone \/ StatusUpdateFails
    BY <1>2, <1>7
    DEF Reconcile, KeepTask, HandleDDDone, StatusUpdateFails, Return, CopiesStep
  <1>8. CASE TriggerTask \/ TriggerError
    BY <1>2, <1>8
    DEF TriggerTask, TriggerSucceeds, TriggerError, TriggerTimesOut, TriggerFails,
        Return, CopiesStep
  <1>9. CASE PollAnswered \/ PollFails
    BY <1>2, <1>9 DEF PollAnswered, PollFails, CheckSource, CopiesStep
  <1>10. CASE HandleDDStatus
    <2> DEFINE new == NewStatus(instance, results)
    <2>1. CASE UNCHANGED apiVars
      BY <1>2, <1>10, <2>1 DEF HandleDDStatus, Return, CopiesStep
    <2>2. CASE Store(instance.uid, instance.spec, new)
      <3>1. UNCHANGED taskVars /\ CopiesStep
        BY <1>10, <2>2 DEF HandleDDStatus, Return, Store, CopiesStep
      <3>2. object'.rv = rev + 1 /\ rev' = rev + 1
        BY <2>2 DEF Store
      <3>3. object'.uid = instance.uid /\ object'.status.sources = results
        BY <2>2 DEF Store, NewStatus
      <3>4. OwnTasks(object', taskReq')
        BY <3>1, <3>3 DEF ReconcileInv, SourceInv, ResultSound, OwnTasks, RecordedTask, taskVars
      <3>5. ReadySound(object', outcomes')
        BY <3>1, <3>3 DEF ReconcileInv, SourceInv, ResultSound, ReadySound,
                          RecordedTask, RecordedPhase, taskVars
      <3> QED
        BY <1>1, <3>1, <3>2, <3>4, <3>5 DEF ObjectStep
    <2> QED
      BY <1>10, <2>1, <2>2 DEF HandleDDStatus
  <1>11. ASSUME NEW t \in TaskId, Execute(t) \/ TaskFault(t)
         PROVE  VersionsInv'
    BY <1>2, <1>11 DEF Execute, TaskFault, operatorVars, CopiesStep
  <1>12. CASE UNCHANGED vars
    BY <1>2, <1>12 DEF vars, CopiesStep
  <1> QED
    BY <1>3, <1>4, <1>5, <1>6, <1>7, <1>8, <1>9, <1>10, <1>11, <1>12
    DEF Next, Controller

(***************************************************************************)
(* The result backend and the running reconcile                            *)
(***************************************************************************)

\* A final state that is stored has been reported.
LEMMA OutcomesStep == TypeOK /\ OutcomesInv /\ [Next]_vars => OutcomesInv'
  <1> SUFFICES ASSUME TypeOK, OutcomesInv, [Next]_vars
               PROVE  OutcomesInv'
    OBVIOUS
  <1>1. ASSUME UNCHANGED <<taskState, outcomes>>
        PROVE  OutcomesInv'
    BY <1>1 DEF OutcomesInv
  <1>2. ASSUME NEW req, MayHaveAccepted(req)
        PROVE  OutcomesInv'
    BY <1>1, <1>2 DEF MayHaveAccepted, Accept, Submit, taskVars
  <1>3. CASE User
    BY <1>1, <1>3 DEF User, Create, Edit, Delete, UserOp, taskVars
  <1>4. CASE InformerEvent \/ RequeueTimer \/ Restart
    BY <1>1, <1>4 DEF InformerEvent, RequeueTimer, Restart, taskVars
  <1>5. CASE Controller
    <2>1. CASE TriggerTask
      BY <2>1, <1>1 DEF TriggerTask, TriggerSucceeds, Accept, Submit
    <2>2. CASE TriggerError
      BY <2>2, <1>2 DEF TriggerError, TriggerTimesOut, TriggerFails
    <2>3. CASE ~TriggerTask /\ ~TriggerError
      BY <1>1, <1>5, <2>3
      DEF Controller, Reconcile, KeepTask, HandleDDDone, PollAnswered, PollFails,
          CheckSource, HandleDDStatus, StatusUpdateFails, taskVars
    <2> QED
      BY <2>1, <2>2, <2>3
  <1>6. ASSUME NEW t \in TaskId, Execute(t) \/ TaskFault(t)
        PROVE  OutcomesInv'
    <2>1. ASSUME NEW state, Report(t, state), taskState[t] # "SUCCESS"
          PROVE  OutcomesInv'
      BY <2>1 DEF Report, OutcomesInv, FinalState, TypeOK, TasksTypeOK
    <2>2. CASE Start(t)
      BY <2>2 DEF Start, OutcomesInv, FinalState, TypeOK, TasksTypeOK
    <2>3. CASE Expire(t) /\ Fault("expire")
      BY <2>3 DEF Expire, Fault, OutcomesInv, FinalState, TypeOK, TasksTypeOK
    <2> QED
      BY <1>6, <2>1, <2>2, <2>3 DEF Execute, TaskFault, Finish, Redelivered
  <1>7. CASE UNCHANGED vars
    BY <1>1, <1>7 DEF vars, taskVars
  <1> QED
    BY <1>3, <1>4, <1>5, <1>6, <1>7 DEF Next

\* While a reconcile does not move, what it has established stays true.
LEMMA ReconcileKept ==
    ASSUME TypeOK, ReconcileInv, Grows,
           UNCHANGED <<pc, instance, todo, taskIDs, results>>
    PROVE  ReconcileInv'
  <1>1. ASSUME NEW s \in Source
        PROVE  SourceInv(s)'
    <2>1. taskIDs[s] \in TaskId \union {NoTask}
          /\ results[s].task \in TaskId \union {NoTask}
      BY DEF TypeOK, SourceStatus
    <2>2. instance.uid \in Nat
      BY DEF TypeOK, Descriptor
    <2>3. AddRequest(s, instance.uid) # NoReq
      BY <2>2, RequestTypes, NoReqAssumption
    <2>4. SourceInv(s)
      BY DEF ReconcileInv
    <2>5. taskIDs[s] # NoTask => taskReq'[taskIDs[s]] = AddRequest(s, instance.uid)
      BY <2>1, <2>3, <2>4 DEF SourceInv, Grows
    <2>6. ResultSound(s)'
      BY <2>1, <2>4 DEF SourceInv, ResultSound, Grows
    <2>7. HasTask(s) => HasTask(s)' /\ taskIDs[s] \in TaskId
      BY <2>1 DEF HasTask, ExistingTask
    <2> QED
      BY <2>4, <2>5, <2>6, <2>7 DEF SourceInv, Grows
  <1> QED
    BY <1>1 DEF ReconcileInv, Exists

\* handleDD goes on: source s gets its task id, the others keep theirs.
LEMMA TaskObtained ==
    ASSUME TypeOK, ReconcileInv, Grows, pc = "trigger",
           NEW s \in Source, NEW t \in TaskId,
           taskReq'[t] = AddRequest(s, instance.uid),
           ExistingTask(instance, s) \in {NoTask, t},
           taskIDs' = [taskIDs EXCEPT ![s] = t],
           todo' = todo \ {s},
           UNCHANGED <<pc, instance, results>>
    PROVE  ReconcileInv'
  <1>1. ASSUME NEW r \in Source
        PROVE  SourceInv(r)'
    <2>1. results'[r] = NoEntry
      BY DEF ReconcileInv, NoEntries
    <2>2. ResultSound(r)'
      BY <2>1 DEF ResultSound, NoEntry
    <2>3. t # NoTask
      BY DataDescriptorAssumption
    <2>4. CASE r = s
      BY <2>2, <2>3, <2>4 DEF SourceInv, HasTask, ExistingTask, TypeOK
    <2>5. CASE r # s
      <3>1. taskIDs'[r] = taskIDs[r] /\ SourceInv(r)
        BY <2>5 DEF TypeOK, ReconcileInv
      <3>2. taskIDs[r] \in TaskId \union {NoTask} /\ instance.uid \in Nat
        BY DEF TypeOK, Descriptor
      <3>3. AddRequest(r, instance.uid) # NoReq
        BY <3>2, RequestTypes, NoReqAssumption
      <3>4. taskIDs[r] # NoTask => taskReq'[taskIDs[r]] = AddRequest(r, instance.uid)
        BY <3>1, <3>2, <3>3 DEF SourceInv, Grows
      <3> QED
        BY <2>2, <2>5, <3>1, <3>4 DEF SourceInv, HasTask, ExistingTask
    <2> QED
      BY <2>4, <2>5
  <1> QED
    BY <1>1 DEF ReconcileInv, Exists

\* handleDDStatus goes on: source s has its new status.
LEMMA StatusObtained ==
    ASSUME TypeOK, VersionsInv, ReconcileInv, OutcomesInv, UNCHANGED taskVars,
           NEW s \in Source, NEW st, CheckSource(s, st),
           st \in {taskState[taskIDs[s]], "Error"}
    PROVE  ReconcileInv'
  <1> USE DEF taskVars
  <1>1. HasTask(s) /\ taskIDs[s] \in TaskId
    BY DEF CheckSource, Visited, ReconcileInv, SourceInv, HasTask, TypeOK
  <1>2. st \in FinalState => st \in outcomes[taskIDs[s]]
    BY <1>1 DEF OutcomesInv, FinalState
  <1>0. RecordedPhase(instance, s) = "Ready" /\ "expire" \notin FaultKinds =>
          st \in {"SUCCESS", "Error"}
    <2>1. RecordedPhase(instance, s) = "Ready" =>
            taskIDs[s] = RecordedTask(instance, s) /\ "SUCCESS" \in outcomes[taskIDs[s]]
      BY <1>1 DEF VersionsInv, IsVersion, VersionOf, ReadySound, HasTask,
                  ExistingTask, RecordedTask
    <2> QED
      BY <1>1, <2>1 DEF OutcomesInv
  <1>3. results' = [results EXCEPT ![s] = CheckSourceStatus(taskIDs[s], st)]
        /\ todo' = todo \ {s} /\ UNCHANGED <<pc, instance, taskIDs>> /\ pc = "check"
    BY DEF CheckSource
  <1>4. ASSUME NEW r \in Source
        PROVE  SourceInv(r)'
    <2>1. SourceInv(r) /\ (HasTask(r) => HasTask(r)')
      BY <1>3 DEF ReconcileInv, HasTask, ExistingTask
    <2>2. CASE r = s
      <3>1. results'[r] = CheckSourceStatus(taskIDs[s], st)
        BY <1>3, <2>2 DEF TypeOK
      <3>2. results'[r].task = (IF st = "FAILURE" THEN NoTask ELSE taskIDs[s])
            /\ (results'[r].phase = "Ready" => st \in {"SUCCESS", "Ready"})
            /\ (st \in {"SUCCESS", "Error"} => results'[r].phase \in {"Ready", "Error"})
        BY <3>1 DEF CheckSourceStatus
      <3>3. st # "Ready"
        BY <1>1 DEF TypeOK, TasksTypeOK, TaskState, FinalState
      <3>4. taskIDs[s] # NoTask
        BY <1>1 DEF HasTask
      <3> QED
        BY <1>0, <1>2, <1>3, <2>1, <2>2, <3>2, <3>3, <3>4
        DEF SourceInv, ResultSound, FinalState, RecordedPhase
    <2>3. CASE r # s
      <3>1. results'[r] = results[r]
        BY <1>3, <2>3 DEF TypeOK
      <3> QED
        BY <1>3, <2>1, <2>3, <3>1 DEF SourceInv, ResultSound, RecordedPhase
    <2> QED
      BY <2>2, <2>3
  <1> QED
    BY <1>3, <1>4 DEF ReconcileInv, Exists

LEMMA ReconcileStep ==
    TypeOK /\ VersionsInv /\ ReconcileInv /\ OutcomesInv /\ [Next]_vars => ReconcileInv'
  <1> SUFFICES ASSUME TypeOK, VersionsInv, ReconcileInv, OutcomesInv, [Next]_vars
               PROVE  ReconcileInv'
    OBVIOUS
  <1>0. Grows
    BY StepGrows
  <1> USE DEF localVars
  <1>1. ASSUME UNCHANGED <<pc, instance, todo, taskIDs, results>>
        PROVE  ReconcileInv'
    BY <1>0, <1>1, ReconcileKept
  <1>2. ASSUME NEW requeue, Return(requeue)
        PROVE  ReconcileInv'
    BY <1>2 DEF Return, ReconcileInv, SourceInv, ResultSound,
                NoTaskIDs, NoEntries, NoEntry
  <1>3. CASE User
    BY <1>1, <1>3 DEF User, Create, Edit, Delete, UserOp
  <1>4. CASE InformerEvent \/ RequeueTimer
    BY <1>1, <1>4 DEF InformerEvent, RequeueTimer
  <1>5. CASE Restart
    BY <1>5 DEF Restart, ReconcileInv, SourceInv, ResultSound,
                NoTaskIDs, NoEntries, NoEntry
  <1>6. CASE Reconcile
    <2>1. taskIDs' = NoTaskIDs /\ results' = NoEntries
      BY <1>6 DEF Reconcile, ReconcileInv
    <2>2. instance' = cache /\ todo' = cache.spec
          /\ pc' = IF Exists(cache) THEN "trigger" ELSE "delete"
      BY <1>6 DEF Reconcile
    <2> QED
      BY <2>1, <2>2 DEF ReconcileInv, SourceInv, ResultSound, Exists,
                        NoTaskIDs, NoEntries, NoEntry
  <1>7. CASE KeepTask
    <2> PICK s \in Source :
          /\ pc = "trigger"
          /\ ExistingTask(instance, s) # NoTask
          /\ taskIDs' = [taskIDs EXCEPT ![s] = ExistingTask(instance, s)]
          /\ todo' = todo \ {s}
      BY <1>7 DEF KeepTask
    <2>1. ExistingTask(instance, s) \in TaskId
      BY ZenonT(60) DEF ExistingTask, TypeOK, Descriptor, DDStatus, SourceStatus
    <2>2. taskReq[ExistingTask(instance, s)] = AddRequest(s, instance.uid)
      BY DEF VersionsInv, IsVersion, VersionOf, OwnTasks, RecordedTask, ExistingTask
    <2>3. UNCHANGED <<pc, instance, results, taskReq>>
      BY <1>7 DEF KeepTask, taskVars
    <2> QED
      BY <1>0, <2>1, <2>2, <2>3, TaskObtained
  <1>8. CASE TriggerTask
    <2> PICK req \in Bodies, t \in TaskId : TriggerSucceeds(t, req)
      BY <1>8 DEF TriggerTask
    <2>1. CASE req.op = "Delete"
      BY <1>2, <2>1 DEF TriggerSucceeds
    <2>2. CASE req.op # "Delete"
      <3> PICK s \in Source : /\ pc = "trigger"
                              /\ ExistingTask(instance, s) = NoTask
                              /\ req = AddRequest(s, instance.uid)
        BY <2>2 DEF TriggerSucceeds, Sending, DeleteRequest
      <3>1. req.src = s
        BY DEF AddRequest
      <3>2. taskReq'[t] = AddRequest(s, instance.uid)
        BY DEF TriggerSucceeds, Accept, Submit, TypeOK, TasksTypeOK
      <3>3. /\ taskIDs' = [taskIDs EXCEPT ![s] = t]
            /\ todo' = todo \ {s}
            /\ UNCHANGED <<pc, instance, results>>
        BY <2>2, <3>1 DEF TriggerSucceeds
      <3> QED
        BY <1>0, <3>2, <3>3, TaskObtained
    <2> QED
      BY <2>1, <2>2
  <1>9. CASE TriggerError
    BY <1>1, <1>2, <1>9 DEF TriggerError, TriggerTimesOut, TriggerFails
  <1>10. CASE HandleDDDone
    <2>1. /\ pc = "trigger" /\ pc' = "check" /\ todo = {} /\ todo' = instance.spec
          /\ UNCHANGED <<instance, taskIDs, results, taskReq, outcomes>>
      BY <1>10 DEF HandleDDDone, taskVars
    <2>2. ASSUME NEW s \in Source
          PROVE  SourceInv(s)'
      BY <2>1 DEF ReconcileInv, SourceInv, ResultSound, HasTask, ExistingTask
    <2> QED
      BY <2>1, <2>2 DEF ReconcileInv, Exists
  <1>11. CASE PollAnswered \/ PollFails
    BY <1>11, StatusObtained DEF PollAnswered, PollFails, CheckSource
  <1>12. CASE HandleDDStatus \/ StatusUpdateFails
    BY <1>2, <1>12 DEF HandleDDStatus, StatusUpdateFails
  <1>13. ASSUME NEW t \in TaskId, Execute(t) \/ TaskFault(t)
         PROVE  ReconcileInv'
    BY <1>1, <1>13 DEF Execute, TaskFault, operatorVars
  <1>14. CASE UNCHANGED vars
    BY <1>1, <1>14 DEF vars
  <1> QED
    BY <1>3, <1>4, <1>5, <1>6, <1>7, <1>8, <1>9, <1>10, <1>11, <1>12, <1>13, <1>14
    DEF Next, Controller

(***************************************************************************)
(* Waking up                                                               *)
(***************************************************************************)

\* The cache, and behind it the undelivered versions, end in the stored one.
WatchInv == IF watch = <<>> THEN cache = object ELSE watch[Len(watch)] = object

LEMMA WatchStep == TypeOK /\ WatchInv /\ [Next]_vars => WatchInv'
  <1> SUFFICES ASSUME TypeOK, WatchInv, [Next]_vars
               PROVE  WatchInv'
    OBVIOUS
  <1> USE DEF apiVars, queueVars
  <1>0. watch \in Seq(Descriptor)
    BY DEF TypeOK
  <1>1. ASSUME UNCHANGED <<watch, cache, object>>
        PROVE  WatchInv'
    BY <1>1 DEF WatchInv
  <1>2. ASSUME watch' = Append(watch, object')
        PROVE  WatchInv'
    BY <1>0, <1>2 DEF WatchInv
  <1>3. CASE User
    BY <1>2, <1>3 DEF User, Create, Edit, Delete, Store, NotFound
  <1>4. CASE InformerEvent
    <2>1. watch # <<>> /\ cache' = Head(watch) /\ watch' = Tail(watch) /\ object' = object
      BY <1>4 DEF InformerEvent
    <2>2. watch[Len(watch)] = object
      BY <2>1 DEF WatchInv
    <2>3. CASE Len(watch) = 1
      BY <1>0, <2>1, <2>2, <2>3 DEF WatchInv
    <2>4. CASE Len(watch) # 1
      <3>0. Len(watch) # 0
        BY <1>0, <2>1
      <3>1. Len(watch') = Len(watch) - 1 /\ Len(watch') # 0
        BY <1>0, <2>1, <2>4, <3>0
      <3>2. watch'[Len(watch')] = watch[Len(watch)]
        BY <1>0, <2>1, <2>4, <3>1
      <3>3. watch' # <<>>
        BY <3>1
      <3> QED
        BY <2>1, <2>2, <3>2, <3>3 DEF WatchInv
    <2> QED
      BY <2>3, <2>4
  <1>5. CASE Restart
    BY <1>5 DEF Restart, WatchInv
  <1>6. CASE HandleDDStatus
    BY <1>1, <1>2, <1>6 DEF HandleDDStatus, Store
  <1>7. CASE RequeueTimer \/ (Controller /\ ~HandleDDStatus)
    BY <1>1, <1>7
    DEF RequeueTimer, Controller, Reconcile, KeepTask, TriggerTask, TriggerSucceeds,
        TriggerError, TriggerTimesOut, TriggerFails, HandleDDDone, PollAnswered,
        PollFails, CheckSource, StatusUpdateFails
  <1>8. ASSUME NEW t \in TaskId, Execute(t) \/ TaskFault(t)
        PROVE  WatchInv'
    BY <1>1, <1>8 DEF Execute, TaskFault, operatorVars
  <1>9. CASE UNCHANGED vars
    BY <1>1, <1>9 DEF vars
  <1> QED
    BY <1>3, <1>4, <1>5, <1>6, <1>7, <1>8, <1>9 DEF Next

LEMMA WakeStep ==
    TypeOK /\ ReconcileInv /\ WakeInv /\ [Next]_vars => WakeInv'
  <1> SUFFICES ASSUME TypeOK, ReconcileInv, WakeInv, [Next]_vars
               PROVE  WakeInv'
    OBVIOUS
  <1> USE DEF apiVars, queueVars, localVars
  <1>0. WatchInv'
    BY WatchStep DEF WakeInv, WatchInv
  <1>1. ASSUME pc' # "idle" /\ ~queued' => instance' = cache',
               \/ pc' # "idle" \/ queued' \/ timer' \/ Exists(cache')
               \/ lastOp' # "AddOrUpdate" \/ "crash" \in FaultKinds
        PROVE  WakeInv'
    BY <1>0, <1>1 DEF WakeInv, WatchInv
  <1>2. ASSUME UNCHANGED <<queueVars, pc, instance, lastOp>>
        PROVE  WakeInv'
    BY <1>1, <1>2 DEF WakeInv, Exists
  <1>3. ASSUME UNCHANGED <<queueVars, instance>>, pc' = pc \/ pc # "idle", pc' # "idle"
        PROVE  WakeInv'
    BY <1>1, <1>3 DEF WakeInv
  <1>4. CASE User
    BY <1>2, <1>4 DEF User, Create, Edit, Delete, UserOp
  <1>5. CASE InformerEvent \/ RequeueTimer
    BY <1>1, <1>5 DEF InformerEvent, RequeueTimer
  <1>6. CASE Restart
    BY <1>1, <1>6 DEF Restart, Fault
  <1>7. CASE Reconcile
    BY <1>1, <1>7 DEF Reconcile
  <1>8. CASE KeepTask \/ HandleDDDone \/ PollAnswered \/ PollFails
    BY <1>3, <1>8 DEF KeepTask, HandleDDDone, PollAnswered, PollFails, CheckSource
  <1>9. CASE TriggerTask
    <2> PICK req \in Bodies, t \in TaskId : TriggerSucceeds(t, req)
      BY <1>9 DEF TriggerTask
    <2>1. CASE req.op = "Delete"
      BY <1>1, <2>1 DEF TriggerSucceeds, Accept, Return
    <2>2. CASE req.op # "Delete"
      BY <1>3, <2>2 DEF TriggerSucceeds, Sending, DeleteRequest
    <2> QED
      BY <2>1, <2>2
  <1>10. CASE TriggerError
    <2> PICK req \in Bodies : TriggerTimesOut(req) \/ TriggerFails(req)
      BY <1>10 DEF TriggerError
    <2>1. CASE TriggerTimesOut(req)
      BY <1>3, <2>1 DEF TriggerTimesOut, Sending
    <2>2. CASE TriggerFails(req)
      BY <1>1, <2>2 DEF TriggerFails, Return
    <2> QED
      BY <2>1, <2>2
  <1>11. CASE HandleDDStatus \/ StatusUpdateFails
    <2>1. Exists(instance) /\ pc # "idle"
      BY <1>11 DEF HandleDDStatus, StatusUpdateFails, ReconcileInv
    <2>2. queued \/ Exists(cache)
      BY <2>1 DEF WakeInv
    <2> QED
      BY <1>1, <1>11, <2>2 DEF HandleDDStatus, StatusUpdateFails, Return, Exists
  <1>12. ASSUME NEW t \in TaskId, Execute(t) \/ TaskFault(t)
         PROVE  WakeInv'
    BY <1>2, <1>12 DEF Execute, TaskFault, operatorVars
  <1>13. CASE UNCHANGED vars
    BY <1>2, <1>13 DEF vars
  <1> QED
    BY <1>4, <1>5, <1>6, <1>7, <1>8, <1>9, <1>10, <1>11, <1>12, <1>13
    DEF Next, Controller

LEMMA NeverAsleepStep ==
    TypeOK /\ ReconcileInv /\ WakeInv /\ NeverAsleepUnready /\ [Next]_vars
        => NeverAsleepUnready'
  <1> SUFFICES ASSUME TypeOK, ReconcileInv, WakeInv, NeverAsleepUnready, [Next]_vars
               PROVE  NeverAsleepUnready'
    OBVIOUS
  <1> USE DEF apiVars, queueVars, localVars
  <1>1. ASSUME pc' # "idle" \/ queued' \/ timer' \/ watch' # <<>> \/ ~Exists(object')
        PROVE  NeverAsleepUnready'
    BY <1>1 DEF NeverAsleepUnready, Quiescent, Exists
  <1>2. ASSUME UNCHANGED <<apiVars, queueVars, pc>>
        PROVE  NeverAsleepUnready'
    BY <1>2 DEF NeverAsleepUnready, Quiescent, Exists, AllHealthy
  <1>3. ASSUME watch' = Append(watch, object')
        PROVE  NeverAsleepUnready'
    <2>1. watch \in Seq(Descriptor)
      BY DEF TypeOK
    <2>2. Len(watch') # 0
      BY <1>3, <2>1
    <2>3. watch' # <<>>
      BY <2>2
    <2> QED
      BY <1>1, <2>3
  \* A reconcile that ends undisturbed has worked on the stored object.
  <1>4. pc # "idle" /\ ~queued /\ watch = <<>> => instance = object
    BY DEF WakeInv
  <1>5. CASE User
    BY <1>3, <1>5 DEF User, Create, Edit, Delete, Store, NotFound
  <1>6. CASE InformerEvent \/ RequeueTimer
    BY <1>1, <1>6 DEF InformerEvent, RequeueTimer
  <1>7. CASE Restart
    BY <1>1, <1>7 DEF Restart, Exists
  <1>8. CASE \/ Reconcile \/ KeepTask \/ HandleDDDone \/ PollAnswered \/ PollFails
             \/ StatusUpdateFails
    BY <1>1, <1>8 DEF Reconcile, KeepTask, HandleDDDone, PollAnswered, PollFails,
                      CheckSource, StatusUpdateFails, Return
  <1>9. CASE TriggerTask
    <2> PICK req \in Bodies, t \in TaskId : TriggerSucceeds(t, req)
      BY <1>9 DEF TriggerTask
    <2>1. CASE req.op = "Delete"
      <3>1. pc = "delete" /\ ~Exists(instance)
        BY <2>1 DEF TriggerSucceeds, Sending, AddRequest, ReconcileInv
      <3>2. UNCHANGED <<apiVars, cache, queued>>
        BY DEF TriggerSucceeds
      <3> QED
        BY <1>1, <1>4, <3>1, <3>2 DEF Exists
    <2>2. CASE req.op # "Delete"
      BY <1>1, <2>2 DEF TriggerSucceeds, Sending, DeleteRequest
    <2> QED
      BY <2>1, <2>2
  <1>10. CASE TriggerError
    BY <1>1, <1>10 DEF TriggerError, TriggerTimesOut, TriggerFails, Sending, Return
  <1>11. CASE HandleDDStatus
    <2> DEFINE new == NewStatus(instance, results)
    <2>1. CASE Store(instance.uid, instance.spec, new)
      BY <1>3, <2>1 DEF Store
    <2>2. CASE UNCHANGED apiVars /\ new = instance.status /\ ~queued /\ watch = <<>>
               /\ ~HasPendingSources(new, instance.spec)
      <3>1. instance = object /\ AllHealthy(new.sources, instance.spec)
        BY <1>4, <1>11, <2>2 DEF HandleDDStatus, HasPendingSources
      <3>2. new.sources = results /\ (AllHealthy(results, instance.spec) => new.overall = "Ready")
        BY DEF NewStatus
      <3>3. object.status.overall = "Ready" /\ AllHealthy(object.status.sources, object.spec)
        BY <2>2, <3>1, <3>2
      <3> QED
        BY <2>2, <3>3 DEF NeverAsleepUnready, AllHealthy
    <2>3. CASE UNCHANGED apiVars /\ new = instance.status
               /\ (queued \/ watch # <<>> \/ HasPendingSources(new, instance.spec))
      BY <1>1, <1>11, <2>3 DEF HandleDDStatus, Return
    <2>4. CASE new # instance.status /\ ~Store(instance.uid, instance.spec, new)
      BY <1>1, <1>11, <2>4 DEF HandleDDStatus, Return
    <2> QED
      BY <1>11, <2>1, <2>2, <2>3, <2>4 DEF HandleDDStatus
  <1>12. ASSUME NEW t \in TaskId, Execute(t) \/ TaskFault(t)
         PROVE  NeverAsleepUnready'
    BY <1>2, <1>12 DEF Execute, TaskFault, operatorVars
  <1>13. CASE UNCHANGED vars
    BY <1>2, <1>13 DEF vars
  <1> QED
    BY <1>5, <1>6, <1>7, <1>8, <1>9, <1>10, <1>11, <1>12, <1>13 DEF Next, Controller

(***************************************************************************)
(* The theorems                                                            *)
(***************************************************************************)

LEMMA IInvInit == Init => IInv
  <1> SUFFICES ASSUME Init
               PROVE  IInv
    OBVIOUS
  <1>1. TypeOK
    BY InitType
  <1>2. VersionsInv
    <2>1. rev \in Nat /\ Len(watch) = 0
      BY DEF Init
    <2>2. object = NotFound /\ cache = NotFound /\ instance = NotFound
      BY DEF Init
    <2> QED
      BY <2>1, <2>2, NotFoundVersion DEF VersionsInv, IsVersion
  <1>3. ReconcileInv
    BY DEF Init, ReconcileInv, SourceInv, ResultSound, NoTaskIDs, NoEntries, NoEntry
  <1>4. OutcomesInv
    BY DEF Init, TasksInit, OutcomesInv, FinalState
  <1>5. object = NotFound /\ pc = "idle" /\ watch = <<>> /\ cache = object /\ lastOp = ""
    BY DEF Init
  <1>7. WakeInv /\ NeverAsleepUnready
    BY <1>5 DEF WakeInv, NeverAsleepUnready, Exists, NotFound
  <1> QED
    BY <1>1, <1>2, <1>3, <1>4, <1>7 DEF IInv

LEMMA IInvStep == IInv /\ [Next]_vars => IInv'
  <1> SUFFICES ASSUME IInv, [Next]_vars
               PROVE  IInv'
    OBVIOUS
  <1>1. TypeOK /\ VersionsInv /\ ReconcileInv /\ OutcomesInv
        /\ WakeInv /\ NeverAsleepUnready
    BY DEF IInv
  <1>2. TypeOK'
    BY <1>1, NextType
  <1> QED
    BY <1>1, <1>2, VersionsStep, ReconcileStep, OutcomesStep, WakeStep,
       NeverAsleepStep DEF IInv

\* The inductive invariant holds: copies, reconcile, backend and queue agree in
\* every state the operator can reach.
THEOREM Invariant == Spec => []IInv
  BY IInvInit, IInvStep, PTL DEF Spec

\* Every variable of the operator and of the task service keeps its type; in
\* particular checkSourceStatus is only called with an id of a submitted task.
THEOREM TypeCorrectness == Spec => []TypeOK
  <1>1. IInv => TypeOK
    BY DEF IInv
  <1> QED
    BY Invariant, <1>1, PTL

\* The stored task ids are those of this incarnation's own tasks, whatever
\* races the informer, users and restarts run.
THEOREM RecordedTasksAreOwn == Spec => []RecordedTaskIsOwn
  <1>1. IInv => RecordedTaskIsOwn
    BY DEF IInv, VersionsInv, IsVersion, VersionOf, OwnTasks, RecordedTaskIsOwn
  <1> QED
    BY Invariant, <1>1, PTL

\* handleDDStatus reports Ready only for a task that has reported SUCCESS.
THEOREM ReadyIsProcessed == Spec => []ReadyMeansProcessed
  <1>1. IInv => ReadyMeansProcessed
    BY DEF IInv, VersionsInv, IsVersion, VersionOf, ReadySound, ReadyMeansProcessed
  <1> QED
    BY Invariant, <1>1, PTL

\* Reconcile never leaves a descriptor that is not Ready without a wake-up.
THEOREM AlwaysAwake == Spec => []NeverAsleepUnready
  <1>1. IInv => NeverAsleepUnready
    BY DEF IInv
  <1> QED
    BY Invariant, <1>1, PTL

\* Without a crash the Delete task follows every AddOrUpdate task.
THEOREM DeletionFollows == Spec => []DeletionNotForgotten
  <1>1. IInv => DeletionNotForgotten
    BY DEF IInv, WakeInv, DeletionNotForgotten, Quiescent
  <1> QED
    BY Invariant, <1>1, PTL

\* A step that changes what the stored status says of a source is an accepted
\* status update: it compares and swaps, on the very version that is stored.
LEMMA StatusChange ==
    ASSUME IInv, [Next]_vars, SameIncarnation, object'.status # object.status
    PROVE  /\ pc = "check" /\ instance = object
           /\ object'.status.sources = results
           /\ \A s \in object.spec : SourceInv(s) /\ s \in instance.spec \ todo
  <1> USE DEF apiVars
  <1>0. TypeOK /\ VersionsInv /\ ReconcileInv
    BY DEF IInv
  <1>1. object' # object
    OBVIOUS
  <1>2. CASE User
    BY <1>2 DEF User, Create, Edit, Delete, Store, NotFound, SameIncarnation, Exists
  <1>3. CASE HandleDDStatus
    <2>1. /\ pc = "check" /\ todo = {} /\ UpToDate(instance)
          /\ Store(instance.uid, instance.spec, NewStatus(instance, results))
      BY <1>1, <1>3 DEF HandleDDStatus
    <2>2. instance = object
      BY <1>0, <2>1 DEF ReconcileInv, VersionsInv, IsVersion, VersionOf, UpToDate
    <2>3. object'.status.sources = results
      BY <2>1 DEF Store, NewStatus
    <2>4. \A s \in object.spec : s \in Source
      BY <1>0 DEF TypeOK, Descriptor
    <2> QED
      BY <1>0, <2>1, <2>2, <2>3, <2>4 DEF ReconcileInv
  <1>4. CASE InformerEvent \/ RequeueTimer \/ Restart
    BY <1>1, <1>4 DEF InformerEvent, RequeueTimer, Restart
  <1>5. CASE Controller /\ ~HandleDDStatus
    BY <1>1, <1>5
    DEF Controller, Reconcile, KeepTask, TriggerTask, TriggerSucceeds, TriggerError,
        TriggerTimesOut, TriggerFails, HandleDDDone, PollAnswered, PollFails,
        CheckSource, StatusUpdateFails
  <1>6. ASSUME NEW t \in TaskId, Execute(t) \/ TaskFault(t)
        PROVE  FALSE
    BY <1>1, <1>6 DEF Execute, TaskFault, operatorVars
  <1>7. CASE UNCHANGED vars
    BY <1>1, <1>7 DEF vars
  <1> QED
    BY <1>2, <1>3, <1>4, <1>5, <1>6, <1>7 DEF Next

LEMMA TaskKeptStep ==
    ASSUME IInv, [Next]_vars, SameIncarnation, NEW s \in object.spec,
           RecordedTask(object, s) \notin {NoTask, RecordedTask(object', s)}
    PROVE  /\ RecordedTask(object', s) = NoTask
           /\ "FAILURE" \in outcomes[RecordedTask(object, s)]
  <1> USE DEF RecordedTask
  <1>1. object'.status # object.status
    OBVIOUS
  <1>2. /\ pc = "check" /\ instance = object /\ object'.status.sources = results
        /\ SourceInv(s) /\ s \in instance.spec \ todo
    BY <1>1, StatusChange
  <1>3. RecordedTask(object, s) = taskIDs[s]
    BY <1>2 DEF SourceInv, HasTask, ExistingTask
  <1>4. RecordedTask(object', s) = NoTask
    BY <1>2, <1>3 DEF SourceInv, ResultSound
  <1> QED
    BY <1>2, <1>3, <1>4 DEF SourceInv

LEMMA ReadyKeptStep ==
    ASSUME IInv, [Next]_vars, SameIncarnation, "expire" \notin FaultKinds,
           NEW s \in object.spec, RecordedPhase(object, s) = "Ready"
    PROVE  RecordedPhase(object', s) \in {"Ready", "Error"}
  <1> USE DEF RecordedPhase
  <1>1. CASE object'.status = object.status
    BY <1>1
  <1>2. CASE object'.status # object.status
    BY <1>2, StatusChange DEF SourceInv
  <1> QED
    BY <1>1, <1>2

\* A recorded task id stays, or is dropped after that task has failed: a status
\* update (handleDDStatus) stores no other id for a listed source.
THEOREM RecordedTasksAreKept == Spec => RecordedTaskKept
  <1>1. IInv /\ [Next]_vars =>
          [SameIncarnation =>
             \A s \in object.spec :
                RecordedTask(object, s) \notin {NoTask, RecordedTask(object', s)} =>
                    /\ RecordedTask(object', s) = NoTask
                    /\ "FAILURE" \in outcomes[RecordedTask(object, s)]]_object
    BY TaskKeptStep
  <1> QED
    BY Invariant, <1>1, PTL DEF Spec, RecordedTaskKept

\* While results do not expire, no status update takes Ready back to the state
\* of an execution.
THEOREM ReadyStays == Spec => ReadyIsKept
  <1>1. IInv /\ [Next]_vars =>
          ["expire" \notin FaultKinds /\ SameIncarnation =>
             \A s \in object.spec :
                RecordedPhase(object, s) = "Ready" =>
                    RecordedPhase(object', s) \in {"Ready", "Error"}]_object
    BY ReadyKeptStep
  <1> QED
    BY Invariant, <1>1, PTL DEF Spec, ReadyIsKept

(***************************************************************************)
(* Counting                                                                *)
(***************************************************************************)

\* A set of positions, when the first one is taken away,
LEMMA CountTail ==
    ASSUME NEW n \in Nat \ {0}, NEW A \in SUBSET (1 .. n)
    PROVE  /\ IsFiniteSet(A) /\ IsFiniteSet({i \in 1 .. n - 1 : i + 1 \in A})
           /\ Cardinality(A) = Cardinality({i \in 1 .. n - 1 : i + 1 \in A}) + One(1 \in A)
           /\ Cardinality({i \in 1 .. n - 1 : i + 1 \in A}) \in Nat
  <1> DEFINE B == {i \in 1 .. n - 1 : i + 1 \in A}
             C == A \ {1}
             f == [i \in B |-> i + 1]
  <1>1. IsFiniteSet(1 .. n) /\ IsFiniteSet(1 .. n - 1)
    BY FS_Interval
  <1>2. IsFiniteSet(A) /\ IsFiniteSet(B)
    <2>1. B \in SUBSET (1 .. n - 1)
      OBVIOUS
    <2> QED
      BY <1>1, <2>1, FS_Subset
  <1>3. f \in Bijection(B, C)
    <2>1. f \in [B -> C]
      OBVIOUS
    <2>2. \A i, j \in B : i # j => f[i] # f[j]
      OBVIOUS
    <2>3. \A c \in C : \E i \in B : f[i] = c
      <3> SUFFICES ASSUME NEW c \in C PROVE \E i \in B : f[i] = c
        OBVIOUS
      <3>1. c - 1 \in B /\ f[c - 1] = c
        OBVIOUS
      <3> QED
        BY <3>1
    <2> QED
      BY <2>1, <2>2, <2>3 DEF Bijection, Injection, Surjection, IsInjective
  <1>4. Cardinality(C) = Cardinality(B)
    <2>1. ExistsBijection(B, C)
      BY <1>3 DEF ExistsBijection
    <2>2. IsFiniteSet(C)
      BY <1>2, FS_RemoveElement
    <2> HIDE DEF B, C
    <2> QED
      BY <1>2, <2>1, <2>2, FS_Bijection
  <1>5. Cardinality(A) = Cardinality(C) + One(1 \in A)
    <2>1. Cardinality(C) = IF 1 \in A THEN Cardinality(A) - 1 ELSE Cardinality(A)
      BY <1>2, FS_RemoveElement
    <2>2. Cardinality(A) \in Nat
      BY <1>2, FS_CardinalityType
    <2> HIDE DEF C
    <2> QED
      BY <2>1, <2>2 DEF One
  <1>6. Cardinality(B) \in Nat
    BY <1>2, FS_CardinalityType
  <1> QED
    BY <1>2, <1>4, <1>5, <1>6

\* or one is added at the end.
LEMMA CountAppend ==
    ASSUME NEW n \in Nat, NEW A \in SUBSET (1 .. n + 1)
    PROVE  /\ Cardinality(A) = Cardinality(A \intersect (1 .. n)) + One(n + 1 \in A)
           /\ Cardinality(A \intersect (1 .. n)) \in Nat
  <1> DEFINE B == A \intersect (1 .. n)
  <1>0. (\A i \in A : i \in 1 .. n \/ i = n + 1) /\ n + 1 \notin 1 .. n
    OBVIOUS
  <1>1. IsFiniteSet(B) /\ Cardinality(B) \in Nat
    <2>1. IsFiniteSet(1 .. n) /\ B \in SUBSET (1 .. n)
      BY FS_Interval
    <2> QED
      BY <2>1, FS_Subset, FS_CardinalityType
  <1>2. CASE n + 1 \in A
    <2>1. A = B \union {n + 1} /\ n + 1 \notin B
      BY <1>0, <1>2
    <2> HIDE DEF B
    <2>2. Cardinality(A) = Cardinality(B) + 1
      BY <1>1, <2>1, FS_AddElement
    <2> QED
      BY <1>1, <1>2, <2>2 DEF One, B
  <1>3. CASE n + 1 \notin A
    <2>1. A = B
      BY <1>0, <1>3
    <2> QED
      BY <1>1, <1>3, <2>1 DEF One
  <1> QED
    BY <1>2, <1>3

\* The versions without a task that are on their way.
LEMMA AheadType ==
    TypeOK => \A s \in Source :
                /\ IsFiniteSet(Ahead(s)) /\ Cardinality(Ahead(s)) \in Nat
                /\ watch = <<>> => Cardinality(Ahead(s)) = 0
  <1> SUFFICES ASSUME TypeOK, NEW s \in Source
               PROVE  /\ IsFiniteSet(Ahead(s)) /\ Cardinality(Ahead(s)) \in Nat
                      /\ watch = <<>> => Cardinality(Ahead(s)) = 0
    OBVIOUS
  <1>0. watch \in Seq(Descriptor)
    BY DEF TypeOK
  <1>1. Len(watch) \in Nat /\ (watch = <<>> => Len(watch) = 0)
    BY <1>0
  <1>2. IsFiniteSet(1 .. Len(watch)) /\ Ahead(s) \in SUBSET (1 .. Len(watch))
    BY <1>1, FS_Interval DEF Ahead
  <1>3. watch = <<>> => Ahead(s) = {}
    BY <1>1 DEF Ahead
  <1> QED
    BY <1>2, <1>3, FS_Subset, FS_CardinalityType, FS_EmptySet

LEMMA AheadTypeNext ==
    TypeOK' => (\A s \in Source :
                /\ IsFiniteSet(Ahead(s)) /\ Cardinality(Ahead(s)) \in Nat
                /\ watch = <<>> => Cardinality(Ahead(s)) = 0)'
  BY AheadType, PTL

LEMMA AheadTail ==
    ASSUME TypeOK, NEW s, watch # <<>>, watch' = Tail(watch), UNCHANGED object
    PROVE  Cardinality(Ahead(s)) = Cardinality(Ahead(s)') + One(Bare(watch[1], s, object.uid))
  <1> DEFINE n == Len(watch)
  <1>1. n \in Nat \ {0} /\ Len(watch') = n - 1 /\ \A i \in 1 .. n - 1 : watch'[i] = watch[i + 1]
    <2>1. watch \in Seq(Descriptor)
      BY DEF TypeOK
    <2> QED
      BY <2>1
  <1>2. Ahead(s) \in SUBSET (1 .. n) /\ (1 \in Ahead(s) <=> Bare(watch[1], s, object.uid))
    BY <1>1 DEF Ahead
  <1>3. Ahead(s)' = {i \in 1 .. n - 1 : i + 1 \in Ahead(s)}
    BY <1>1 DEF Ahead
  <1>4. Cardinality(Ahead(s)) = Cardinality({i \in 1 .. n - 1 : i + 1 \in Ahead(s)}) + One(1 \in Ahead(s))
    BY <1>1, <1>2, CountTail
  <1>5. One(1 \in Ahead(s)) = One(Bare(watch[1], s, object.uid))
    BY <1>2 DEF One
  <1> QED
    BY <1>3, <1>4, <1>5

LEMMA AheadAppend ==
    ASSUME TypeOK, NEW s, watch' = Append(watch, object'), object'.uid = object.uid
    PROVE  Cardinality(Ahead(s)') = Cardinality(Ahead(s)) + One(Bare(object', s, object.uid))
  <1> DEFINE n == Len(watch)
  <1>1. n \in Nat /\ Len(watch') = n + 1 /\ watch'[n + 1] = object' /\ \A i \in 1 .. n : watch'[i] = watch[i]
    <2>1. watch \in Seq(Descriptor)
      BY DEF TypeOK
    <2> QED
      BY <2>1
  <1>2. Ahead(s)' \in SUBSET (1 .. n + 1) /\ (n + 1 \in Ahead(s)' <=> Bare(object', s, object.uid))
    BY <1>1 DEF Ahead
  <1>3. Ahead(s)' \intersect (1 .. n) = Ahead(s)
    BY <1>1 DEF Ahead
  <1>4. Cardinality(Ahead(s)') = Cardinality(Ahead(s)' \intersect (1 .. n)) + One(n + 1 \in Ahead(s)')
    BY <1>1, <1>2, CountAppend
  <1>5. One(n + 1 \in Ahead(s)') = One(Bare(object', s, object.uid))
    BY <1>2 DEF One
  <1> QED
    BY <1>3, <1>4, <1>5

(***************************************************************************)
(* What a step does to a score                                             *)
(***************************************************************************)

LEMMA OneType ==
    ASSUME NEW b
    PROVE  One(b) \in {0, 1} /\ (b => One(b) = 1) /\ (~b => One(b) = 0)
  BY DEF One

\* What is due is what is held and at most two submissions more.
LEMMA DueBounds ==
    ASSUME TypeOK, WatchInv, NEW s \in Source
    PROVE  /\ Held(s) \in Nat /\ Due(s) \in Nat
           /\ Held(s) <= Due(s) /\ Due(s) <= Held(s) + 2
           /\ ~Bare(object, s, object.uid) => Due(s) = Held(s)
  <1>1. Cardinality(Ahead(s)) \in Nat /\ (watch = <<>> => Cardinality(Ahead(s)) = 0)
    BY AheadType
  <1>2. watch = <<>> => cache = object
    BY DEF WatchInv
  <1>3. pc = "idle" => ~Sends(s)
    BY DEF Sends
  <1> QED
    BY <1>1, <1>2, <1>3 DEF Due, Held, One

\* The tasks that live, before and after.
Live(s) == Cardinality(LiveTasks(s))

LEMMA LiveKept ==
    ASSUME TypeOK, TasksInv, Grows, UNCHANGED taskReq, object'.uid = object.uid,
           NEW s \in Source
    PROVE  IsFiniteSet(LiveTasks(s))' /\ Live(s)' <= Live(s)
  <1>1. LiveTasks(s)' \subseteq LiveTasks(s)
    BY DEF LiveTasks, Grows
  <1>2. IsFiniteSet(LiveTasks(s))
    BY DEF TasksInv
  <1> QED
    BY <1>1, <1>2, FS_Subset DEF Live

LEMMA LiveAdded ==
    ASSUME TypeOK, TasksInv, NEW t, NEW req, Accept(t, req), UNCHANGED object,
           NEW s \in Source
    PROVE  /\ IsFiniteSet(LiveTasks(s))'
           /\ Live(s)' = Live(s) + One(Exists(object) /\ req = AddRequest(s, object.uid))
  <1>1. t \in TaskId /\ taskReq[t] = NoReq /\ outcomes[t] = {}
    BY FreshIdIsFresh DEF Accept, TasksInv
  <1>2. taskReq' = [taskReq EXCEPT ![t] = req] /\ outcomes' = outcomes
    BY DEF Accept, Submit
  <1>3. IsFiniteSet(LiveTasks(s)) /\ Live(s) \in Nat
    BY FS_CardinalityType DEF TasksInv, Live
  <1>4. AddRequest(s, object.uid) # NoReq
    <2>1. object.uid \in Nat
      BY DEF TypeOK, Descriptor
    <2> QED
      BY <2>1, RequestTypes, NoReqAssumption
  <1>5. t \notin LiveTasks(s)
    BY <1>1, <1>4 DEF LiveTasks
  <1>6. CASE Exists(object) /\ req = AddRequest(s, object.uid)
    <2>1. LiveTasks(s)' = LiveTasks(s) \union {t}
      BY <1>1, <1>2, <1>6 DEF LiveTasks, Exists, TypeOK, TasksTypeOK
    <2>2. IsFiniteSet(LiveTasks(s)') /\ Cardinality(LiveTasks(s)') = Cardinality(LiveTasks(s)) + 1
      BY <1>3, <1>5, <2>1, FS_AddElement
    <2> QED
      BY <1>6, <2>2 DEF Live, One
  <1>7. CASE ~(Exists(object) /\ req = AddRequest(s, object.uid))
    <2>1. LiveTasks(s)' = LiveTasks(s)
      BY <1>1, <1>2, <1>5, <1>7 DEF LiveTasks, Exists, TypeOK, TasksTypeOK
    <2>2. Live(s)' = Live(s) + 0
      BY <1>3, <2>1 DEF Live
    <2> QED
      BY <1>3, <1>7, <2>1, <2>2 DEF One
  <1> QED
    BY <1>6, <1>7

\* Nobody is doomed by a reconcile that ends, or that stands still.
LEMMA DoomedAtRest ==
    ASSUME UNCHANGED <<object, outcomes>>, taskIDs' = NoTaskIDs, NEW s \in Source
    PROVE  Doomed(s)' => Dead(RecordedTask(object, s)) /\ Doomed(s)
  BY DEF Doomed, Dead, RecordedTask, NoTaskIDs

LEMMA DoomedKept ==
    ASSUME TypeOK, UNCHANGED <<object, instance, taskIDs>>, NEW s \in Source,
           \A t \in TaskId : "FAILURE" \in outcomes'[t] => "FAILURE" \in outcomes[t]
    PROVE  Doomed(s)' => Doomed(s)
  <1>1. taskIDs[s] \in TaskId \union {NoTask} /\ RecordedTask(object, s) \in TaskId \union {NoTask}
    BY DEF TypeOK, Descriptor, DDStatus, SourceStatus, RecordedTask
  <1> QED
    BY <1>1 DEF Doomed, Dead, RecordedTask

\* The score, from its parts.
LEMMA ScoreGrows ==
    ASSUME NEW s, NEW n \in Nat,
           Live(s) \in Nat, Live(s)' \in Nat, Due(s) \in Nat, Due(s)' \in Nat,
           Live(s)' + Due(s)' <= Live(s) + Due(s) + n,
           Doomed(s)' => Doomed(s)
    PROVE  Score(s)' <= Score(s) + n
  <1>1. One(Doomed(s)) \in {0, 1} /\ One(Doomed(s)') \in {0, 1}
        /\ One(Doomed(s)') <= One(Doomed(s))
    BY DEF One
  <1>2. One(Doomed(s))' = One(Doomed(s)')
    BY DEF One
  <1>3. Score(s) = Live(s) + Due(s) + 2 * One(Doomed(s))
        /\ Score(s)' = Live(s)' + Due(s)' + 2 * One(Doomed(s)')
    BY <1>2 DEF Score, Live
  <1> DEFINE a == One(Doomed(s))
             b == One(Doomed(s)')
  <1>4. a \in Nat /\ b \in Nat /\ b <= a
    BY <1>1
  <1> HIDE DEF a, b
  <1> QED
    BY <1>3, <1>4 DEF a, b

\* What is known of a state whose score is taken.
Known == IInv /\ TasksInv /\ CopiesInv

LEMMA Numbers ==
    Known => \A s \in Source :
                /\ Live(s) \in Nat /\ Held(s) \in Nat /\ Due(s) \in Nat
                /\ Held(s) <= Due(s) /\ Due(s) <= Held(s) + 2
                /\ ~Bare(object, s, object.uid) => Due(s) = Held(s)
  <1> SUFFICES ASSUME Known, NEW s \in Source
               PROVE  /\ Live(s) \in Nat /\ Held(s) \in Nat /\ Due(s) \in Nat
                      /\ Held(s) <= Due(s) /\ Due(s) <= Held(s) + 2
                      /\ ~Bare(object, s, object.uid) => Due(s) = Held(s)
    OBVIOUS
  <1>1. TypeOK /\ WatchInv /\ TasksInv
    BY DEF Known, IInv, WakeInv, WatchInv
  <1>2. Live(s) \in Nat
    BY <1>1, FS_CardinalityType DEF TasksInv, Live
  <1> QED
    BY <1>1, <1>2, DueBounds

LEMMA NumbersNext ==
    Known' => (\A s \in Source :
                /\ Live(s) \in Nat /\ Held(s) \in Nat /\ Due(s) \in Nat
                /\ Held(s) <= Due(s) /\ Due(s) <= Held(s) + 2
                /\ ~Bare(object, s, object.uid) => Due(s) = Held(s))'
  BY Numbers, PTL

LEMMA HeldStill ==
    ASSUME TypeOK, UNCHANGED <<object, watch, cache>>, queued' => queued,
           NEW s \in Source, Sends(s)' => Sends(s)
    PROVE  Held(s)' + One(Sends(s)) <= Held(s) + One(Sends(s)')
  <1>1. Ahead(s)' = Ahead(s) /\ Cardinality(Ahead(s)) \in Nat
    BY AheadType DEF Ahead, Bare
  <1>2. Bare(cache, s, object.uid)' <=> Bare(cache, s, object.uid)
    BY DEF Bare, RecordedTask
  <1> QED
    BY <1>1, <1>2 DEF Held, One

\* While a reconcile goes on, only what it sends itself makes a difference;
LEMMA DueMoves ==
    ASSUME Known, UNCHANGED <<object, watch, cache, queued, timer, instance>>,
           pc' = pc \/ (pc # "idle" /\ pc' # "idle"), NEW s \in Source
    PROVE  Due(s)' + One(Sends(s)) = Due(s) + One(Sends(s)')
  <1>1. Ahead(s)' = Ahead(s) /\ Cardinality(Ahead(s)) \in Nat
    BY AheadType DEF Ahead, Bare, Known, IInv
  <1>2. (Bare(cache, s, object.uid)' <=> Bare(cache, s, object.uid))
        /\ (Bare(object, s, object.uid)' <=> Bare(object, s, object.uid))
    BY DEF Bare, RecordedTask
  <1>3. Disturbed' <=> Disturbed
    BY DEF Disturbed
  <1>4. (pc = "idle" => ~Sends(s)) /\ (pc' = "idle" => ~Sends(s)')
    BY DEF Sends
  <1> QED
    BY <1>1, <1>2, <1>3, <1>4 DEF Due, Held, One

\* and when it ends on an old version, what it leaves to others was due.
LEMMA DueEnds ==
    ASSUME Known, UNCHANGED <<object, watch, cache, queued>>, pc # "idle", pc' = "idle",
           instance # object \/ watch # <<>>, NEW s \in Source
    PROVE  Due(s)' <= Due(s)
  <1>1. Ahead(s)' = Ahead(s) /\ Cardinality(Ahead(s)) \in Nat
    BY AheadType DEF Ahead, Bare, Known, IInv
  <1>2. (Bare(cache, s, object.uid)' <=> Bare(cache, s, object.uid))
        /\ (Bare(object, s, object.uid)' <=> Bare(object, s, object.uid))
    BY DEF Bare, RecordedTask
  <1>3. Disturbed /\ ~Sends(s)'
    BY DEF Disturbed, Sends
  <1> QED
    BY <1>1, <1>2, <1>3 DEF Due, Held, One

(***************************************************************************)
(* What each action does to a score                                        *)
(***************************************************************************)

LEMMA InformerCosts ==
    ASSUME Known, Known', Exists(object), InformerEvent, NEW s \in Source
    PROVE  Score(s)' <= Score(s) + 0
  <1> DEFINE b == Bare(object, s, object.uid)
  <1>1. TypeOK /\ watch \in Seq(Descriptor)
    BY DEF Known, IInv, TypeOK
  <1>2. /\ watch # <<>> /\ cache' = watch[1] /\ watch' = Tail(watch) /\ queued'
        /\ UNCHANGED <<object, timer, pc, instance, todo, taskIDs, taskReq, outcomes>>
    BY <1>1 DEF InformerEvent, localVars, taskVars
  <1>3. Live(s)' = Live(s) /\ (Doomed(s)' <=> Doomed(s))
    BY <1>2 DEF Live, LiveTasks, Doomed, Dead, RecordedTask
  <1>4. Cardinality(Ahead(s)) = Cardinality(Ahead(s)') + One(Bare(cache', s, object.uid))
    BY <1>1, <1>2, AheadTail
  <1>5. Cardinality(Ahead(s)) \in Nat /\ Cardinality(Ahead(s)') \in Nat
        /\ (watch' = <<>> => Cardinality(Ahead(s)') = 0)
    BY AheadType, AheadTypeNext DEF Known, IInv
  <1>6. (Sends(s)' <=> Sends(s)) /\ (b' <=> b)
    BY <1>2 DEF Sends, Bare, RecordedTask
  <1>7. /\ Held(s) = One(Sends(s)) + One(queued /\ Bare(cache, s, object.uid)) + Cardinality(Ahead(s))
        /\ Held(s)' = One(Sends(s)) + One(Bare(cache', s, object.uid)) + Cardinality(Ahead(s)')
    BY <1>2, <1>6 DEF Held, One
  <1>8. Held(s)' <= Held(s)
    BY <1>4, <1>5, <1>7 DEF One
  <1>9. Due(s)' <= Due(s)
    <2>1. CASE ~b
      BY <1>6, <1>8, <2>1, Numbers, NumbersNext
    <2>2. CASE b /\ watch' # <<>>
      <3>1. Len(watch) > 1
        BY <1>1, <1>2, <2>2
      <3>2. Due(s) = Held(s) + 1
        BY <1>2, <2>2, <3>1 DEF Due, Disturbed, One
      <3>3. Due(s)' = Held(s)' + One(Disturbed')
        BY <1>6, <2>2 DEF Due, One
      <3> QED
        BY <1>8, <3>2, <3>3, Numbers, NumbersNext DEF One
    <2>3. CASE b /\ watch' = <<>>
      <3>1. Len(watch) = 1
        <4>1. Len(watch) \in Nat /\ Len(watch') = Len(watch) - 1
          BY <1>1, <1>2
        <4>2. Len(watch') = 0
          BY <2>3
        <4> QED
          BY <4>1, <4>2
      <3>2. cache' = object
        BY <1>2, <3>1 DEF Known, IInv, WakeInv
      <3>3. Cardinality(Ahead(s)) = 1
        BY <1>4, <1>5, <1>6, <2>3, <3>2 DEF One
      <3>4. Due(s) = One(Sends(s)) + One(queued /\ Bare(cache, s, object.uid)) + 1 + One(Disturbed)
        BY <1>2, <1>7, <2>3, <3>3 DEF Due, One
      <3>5. CASE pc = "idle"
        <4>1. Due(s)' = 1 + One(timer)
          BY <1>2, <1>6, <2>3, <3>5 DEF Due, One
        <4> QED
          BY <3>4, <4>1 DEF One, Disturbed
      <3>6. CASE pc # "idle"
        <4>1. instance # object
          BY <1>2 DEF Known, CopiesInv
        <4>2. Due(s)' = One(Sends(s)) + 2
          BY <1>2, <1>6, <2>3, <3>6, <4>1 DEF Due, One
        <4> QED
          BY <3>4, <3>6, <4>2 DEF One, Disturbed
      <3> QED
        BY <3>5, <3>6
    <2> QED
      BY <2>1, <2>2, <2>3
  <1> QED
    BY <1>3, <1>9, Numbers, NumbersNext, ScoreGrows

LEMMA TimerCosts ==
    ASSUME Known, Known', Timely, RequeueTimer, NEW s \in Source
    PROVE  Score(s)' <= Score(s) + 0
  <1> DEFINE b == Bare(object, s, object.uid)
  <1>1. /\ watch = <<>> /\ cache = object /\ timer /\ ~timer' /\ queued'
        /\ UNCHANGED <<object, watch, cache, pc, instance, todo, taskIDs, taskReq, outcomes>>
    BY DEF RequeueTimer, Known, IInv, WakeInv, apiVars, localVars, taskVars
  <1>2. Live(s)' = Live(s) /\ (Doomed(s)' <=> Doomed(s))
    BY <1>1 DEF Live, LiveTasks, Doomed, Dead, RecordedTask
  <1>3. (Sends(s)' <=> Sends(s)) /\ (b' <=> b) /\ (pc = "idle" => ~Sends(s))
    BY <1>1 DEF Sends, Bare, RecordedTask
  <1>4. Due(s)' <= Due(s)
    <2>1. CASE b
      BY <1>1, <1>3, <2>1 DEF Due, One
    <2>2. CASE ~b
      <3>1. Ahead(s)' = Ahead(s)
        BY <1>1 DEF Ahead, Bare, RecordedTask
      <3>2. Held(s)' = Held(s)
        BY <1>1, <1>3, <2>2, <3>1 DEF Held, One
      <3> QED
        BY <1>3, <2>2, <3>2, Numbers, NumbersNext
    <2> QED
      BY <2>1, <2>2
  <1> QED
    BY <1>2, <1>4, Numbers, NumbersNext, ScoreGrows

LEMMA ReconcileCosts ==
    ASSUME Known, Known', Reconcile, NEW s \in Source
    PROVE  Score(s)' <= Score(s) + 0
  <1> DEFINE b == Bare(object, s, object.uid)
  <1>1. /\ pc = "idle" /\ queued /\ ~queued' /\ pc' # "idle"
        /\ instance' = cache /\ todo' = cache.spec /\ taskIDs' = NoTaskIDs
        /\ UNCHANGED <<object, watch, cache, timer, taskReq, outcomes>>
    BY DEF Reconcile, Known, IInv, ReconcileInv, apiVars, taskVars
  <1>2. Live(s)' = Live(s) /\ (Doomed(s)' => Doomed(s))
    BY <1>1, DoomedAtRest DEF Live, LiveTasks
  <1>3. /\ ~Sends(s) /\ (b' <=> b)
        /\ Sends(s)' => Bare(cache, s, object.uid)
    BY <1>1 DEF Sends, Bare, RecordedTask
  <1>4. Ahead(s)' = Ahead(s) /\ Cardinality(Ahead(s)) \in Nat
    BY <1>1, AheadType DEF Ahead, Bare, RecordedTask, Known, IInv
  <1>5. Held(s)' <= Held(s)
    BY <1>1, <1>3, <1>4 DEF Held, One
  <1>6. Due(s)' <= Due(s)
    <2>1. CASE ~b
      BY <1>3, <1>5, <2>1, Numbers, NumbersNext
    <2>2. CASE b /\ watch # <<>>
      BY <1>1, <1>3, <1>5, <2>2, Numbers, NumbersNext DEF Due, One, Disturbed
    <2>3. CASE b /\ watch = <<>>
      <3>1. cache = object
        BY <2>3 DEF Known, IInv, WakeInv
      <3> QED
        BY <1>1, <1>3, <2>3, <3>1 DEF Due, One
    <2> QED
      BY <2>1, <2>2, <2>3
  <1> QED
    BY <1>2, <1>6, Numbers, NumbersNext, ScoreGrows

LEMMA KeepTaskCosts ==
    ASSUME Known, Known', KeepTask, NEW s \in Source
    PROVE  Score(s)' <= Score(s) + 0
  <1>1. PICK r \in Source : /\ ExistingTask(instance, r) # NoTask
                            /\ taskIDs' = [taskIDs EXCEPT ![r] = ExistingTask(instance, r)]
                            /\ todo' = todo \ {r}
    BY DEF KeepTask
  <1>2. UNCHANGED <<object, watch, cache, queued, timer, instance, pc, taskReq, outcomes>>
    BY DEF KeepTask, apiVars, queueVars, taskVars
  <1>3. Live(s)' = Live(s) /\ (Sends(s)' => Sends(s))
    BY <1>1, <1>2 DEF Live, LiveTasks, Sends, Bare
  <1>4. Doomed(s)' => Doomed(s)
    <2>1. taskIDs'[s] \in {taskIDs[s], RecordedTask(instance, s)}
      BY <1>1 DEF Known, IInv, TypeOK, ExistingTask, RecordedTask
    <2> QED
      BY <1>2, <2>1 DEF Doomed, Dead, RecordedTask
  <1>5. Due(s)' <= Due(s)
    BY <1>2, <1>3, DueMoves, Numbers, NumbersNext DEF One
  <1> QED
    BY <1>3, <1>4, <1>5, Numbers, NumbersNext, ScoreGrows

\* What a request for s was counted as before it was sent.
LEMMA SentWasDue ==
    ASSUME Known, Exists(object), NEW s \in Source, NEW req, Sending(req),
           req = AddRequest(s, object.uid)
    PROVE  Sends(s)
  <1>1. PICK r \in Source : /\ pc = "trigger" /\ Visited(r)
                            /\ ExistingTask(instance, r) = NoTask
                            /\ req = AddRequest(r, instance.uid)
    BY DEF Sending, DeleteRequest, AddRequest
  <1>2. r = s /\ instance.uid = object.uid
    BY <1>1 DEF AddRequest
  <1> QED
    BY <1>1, <1>2 DEF Sends, Bare, Visited, ExistingTask, RecordedTask, Known, IInv, ReconcileInv

LEMMA TriggerCosts ==
    ASSUME Known, Known', Exists(object), TriggerTask, NEW s \in Source
    PROVE  Score(s)' <= Score(s) + 0
  <1>1. PICK req \in Bodies, t \in TaskId : TriggerSucceeds(t, req)
    BY DEF TriggerTask
  <1>2. /\ Sending(req) /\ Accept(t, req) /\ outcomes' = outcomes
        /\ UNCHANGED <<object, watch, cache, queued>>
    BY <1>1 DEF TriggerSucceeds, Accept, Submit, apiVars
  <1>3. TypeOK /\ TasksInv
    BY DEF Known, IInv
  <1>4. Live(s)' = Live(s) + One(req = AddRequest(s, object.uid))
    BY <1>2, <1>3, LiveAdded DEF One
  <1>5. CASE req.op = "Delete"
    <2>1. pc = "delete" /\ ~Exists(instance)
      BY <1>2, <1>3, <1>5 DEF Sending, AddRequest, Known, IInv, ReconcileInv
    <2>2. pc' = "idle" /\ taskIDs' = NoTaskIDs /\ instance # object
      BY <1>1, <1>5, <2>1 DEF TriggerSucceeds, Return, Exists
    <2>3. Due(s)' <= Due(s)
      BY <1>2, <2>1, <2>2, DueEnds
    <2>4. Doomed(s)' => Doomed(s)
      BY <1>2, <2>2, DoomedAtRest
    <2>5. req # AddRequest(s, object.uid)
      BY <1>5 DEF AddRequest
    <2> QED
      BY <1>4, <2>3, <2>4, <2>5, Numbers, NumbersNext, ScoreGrows DEF One
  <1>6. CASE req.op # "Delete"
    <2>1. PICK r \in Source : pc = "trigger" /\ req = AddRequest(r, instance.uid)
      BY <1>2, <1>6 DEF Sending, DeleteRequest
    <2>2. /\ taskIDs' = [taskIDs EXCEPT ![r] = t] /\ todo' = todo \ {r}
          /\ UNCHANGED <<timer, pc, instance>>
      BY <1>1, <1>6, <2>1 DEF TriggerSucceeds, AddRequest
    <2>3. /\ Sends(s)' => Sends(s)
          /\ req = AddRequest(s, object.uid) => Sends(s) /\ ~Sends(s)'
      <3>1. Sends(s)' => Sends(s)
        BY <1>2, <2>2 DEF Sends, Bare
      <3>2. ASSUME req = AddRequest(s, object.uid)
            PROVE  Sends(s) /\ ~Sends(s)'
        <4>1. r = s
          BY <2>1, <3>2 DEF AddRequest
        <4> QED
          BY <1>2, <2>2, <3>2, <4>1, SentWasDue DEF Sends
      <3> QED
        BY <3>1, <3>2
    <2>4. Due(s)' + One(Sends(s)) = Due(s) + One(Sends(s)')
      BY <1>2, <2>1, <2>2, DueMoves
    <2>5. Doomed(s)' => Doomed(s)
      <3>1. t \in TaskId /\ outcomes[t] = {}
        BY <1>2, <1>3, FreshIdIsFresh DEF Accept, TasksInv
      <3>2. taskIDs'[s] \in {taskIDs[s], t}
        BY <1>3, <2>2 DEF TypeOK
      <3> QED
        BY <1>2, <2>2, <3>1, <3>2 DEF Doomed, Dead, RecordedTask
    <2>6. Live(s)' + Due(s)' <= Live(s) + Due(s) + 0
      BY <1>4, <2>3, <2>4, Numbers, NumbersNext DEF One
    <2> QED
      BY <2>5, <2>6, Numbers, NumbersNext, ScoreGrows
  <1> QED
    BY <1>5, <1>6

\* A call that fails costs two submissions: it may have been accepted, and
\* it may have to be repeated, by a reconcile that reads an old cache.
LEMMA TriggerErrorCosts ==
    ASSUME Known, Known', Exists(object), TriggerError, NEW s \in Source
    PROVE  Score(s)' <= Score(s) + 2
  <1>1. PICK req \in Bodies : TriggerTimesOut(req) \/ TriggerFails(req)
    BY DEF TriggerError
  <1>2. /\ Sending(req) /\ MayHaveAccepted(req) /\ outcomes' = outcomes
        /\ UNCHANGED <<object, watch, cache, queued>>
    BY <1>1 DEF TriggerTimesOut, TriggerFails, MayHaveAccepted, Accept, Submit, taskVars,
                apiVars, queueVars
  <1>3. TypeOK /\ TasksInv
    BY DEF Known, IInv
  <1>4. Live(s)' <= Live(s) + One(req = AddRequest(s, object.uid))
    <2>1. CASE \E t \in TaskId : Accept(t, req)
      BY <1>2, <1>3, <2>1, LiveAdded, Numbers DEF One
    <2>2. CASE UNCHANGED taskVars
      <3>1. Live(s)' = Live(s)
        BY <1>2, <2>2 DEF Live, LiveTasks, taskVars
      <3> QED
        BY <3>1, Numbers DEF One
    <2> QED
      BY <1>2, <2>1, <2>2 DEF MayHaveAccepted
  <1>5. CASE TriggerTimesOut(req)
    <2>1. UNCHANGED <<timer, instance, pc, todo, taskIDs>>
      BY <1>5 DEF TriggerTimesOut, queueVars
    <2>2. Due(s)' = Due(s)
      <3>1. Sends(s)' <=> Sends(s)
        BY <1>2, <2>1 DEF Sends, Bare
      <3> QED
        BY <1>2, <2>1, <3>1, DueMoves, Numbers, NumbersNext DEF One
    <2>3. Doomed(s)' => Doomed(s)
      BY <1>2, <2>1 DEF Doomed, Dead, RecordedTask
    <2>4. Live(s)' + Due(s)' <= Live(s) + Due(s) + 2
      BY <1>4, <2>2, Numbers, NumbersNext DEF One
    <2> QED
      BY <2>3, <2>4, Numbers, NumbersNext, ScoreGrows
  <1>6. CASE TriggerFails(req)
    <2>1. pc' = "idle" /\ taskIDs' = NoTaskIDs
      BY <1>6 DEF TriggerFails, Return
    <2>2. Doomed(s)' => Doomed(s)
      BY <1>2, <2>1, DoomedAtRest
    <2>3. ~Sends(s)'
      BY <2>1 DEF Sends
    <2>4. Held(s)' + One(Sends(s)) <= Held(s) + 0
      BY <1>2, <1>3, <2>3, HeldStill DEF One
    <2>5. req = AddRequest(s, object.uid) => Sends(s)
      BY <1>2, SentWasDue
    <2>6. Live(s)' + Due(s)' <= Live(s) + Due(s) + 2
      BY <1>4, <2>4, <2>5, Numbers, NumbersNext DEF One
    <2> QED
      BY <2>2, <2>6, Numbers, NumbersNext, ScoreGrows
  <1> QED
    BY <1>1, <1>5, <1>6

LEMMA LoopCosts ==
    ASSUME Known, Known', HandleDDDone \/ PollAnswered \/ PollFails, NEW s \in Source
    PROVE  Score(s)' <= Score(s) + 0
  <1>1. /\ pc # "idle" /\ pc' # "idle"
        /\ UNCHANGED <<object, watch, cache, queued, timer, instance, taskIDs, taskReq, outcomes>>
    BY DEF HandleDDDone, PollAnswered, PollFails, CheckSource, apiVars, queueVars, taskVars
  <1>2. Live(s)' = Live(s) /\ (Doomed(s)' => Doomed(s))
    BY <1>1 DEF Live, LiveTasks, Doomed, Dead, RecordedTask
  <1>3. ~Sends(s) /\ ~Sends(s)'
    BY DEF HandleDDDone, PollAnswered, PollFails, CheckSource, Sends
  <1>4. Due(s)' = Due(s)
    BY <1>1, <1>3, DueMoves, Numbers, NumbersNext DEF One
  <1> QED
    BY <1>2, <1>4, Numbers, NumbersNext, ScoreGrows

\* A doomed task is paid for when it fails; giving it up costs nothing more.
LEMMA ScoreTrades ==
    ASSUME NEW s,
           Live(s) \in Nat, Live(s)' \in Nat, Due(s) \in Nat, Due(s)' \in Nat,
           Live(s)' <= Live(s), Due(s)' <= Due(s) + 2, Doomed(s), ~Doomed(s)'
    PROVE  Score(s)' <= Score(s) + 0
  BY DEF Score, Live, One

\* An update that is accepted is made to the stored version, which has been
\* delivered.
LEMMA UpdatesStored ==
    ASSUME Known, pc = "check", UpToDate(instance)
    PROVE  instance = object /\ watch = <<>>
  <1>1. Exists(instance) /\ Exists(object) /\ instance.rv = object.rv
    BY DEF UpToDate, Known, IInv, ReconcileInv
  <1> QED
    BY <1>1 DEF Known, IInv, VersionsInv, IsVersion, VersionOf, CopiesInv

LEMMA StatusCosts ==
    ASSUME Known, Known', Exists(object), HandleDDStatus, NEW s \in Source
    PROVE  Score(s)' <= Score(s) + 0
  <1> DEFINE new == NewStatus(instance, results)
             b == Bare(object, s, object.uid)
  <1>1. /\ pc = "check" /\ todo = {} /\ pc' = "idle" /\ taskIDs' = NoTaskIDs
        /\ UNCHANGED <<cache, queued, taskReq, outcomes>>
    BY DEF HandleDDStatus, Return, taskVars
  <1>2. ~Sends(s) /\ ~Sends(s)'
    BY <1>1 DEF Sends
  <1>3. /\ results[s].task \in {NoTask, taskIDs[s]}
        /\ s \in instance.spec /\ results[s].task = NoTask => Dead(taskIDs[s])
    BY <1>1 DEF Known, IInv, ReconcileInv, SourceInv, ResultSound, HasTask, Dead
  <1>4. new.sources = results
    BY DEF NewStatus
  <1>5. CASE UNCHANGED apiVars /\ (instance # object \/ watch # <<>>)
    <2>1. UNCHANGED <<object, watch>>
      BY <1>5 DEF apiVars
    <2>2. Live(s)' = Live(s) /\ (Doomed(s)' => Doomed(s))
      BY <1>1, <2>1, DoomedAtRest DEF Live, LiveTasks
    <2>3. Due(s)' <= Due(s)
      BY <1>1, <1>5, <2>1, DueEnds
    <2> QED
      BY <2>2, <2>3, Numbers, NumbersNext, ScoreGrows
  <1>6. CASE UNCHANGED apiVars /\ instance = object /\ watch = <<>>
    <2>1. UNCHANGED <<object, watch>>
      BY <1>6 DEF apiVars
    <2>2. Live(s)' = Live(s) /\ (Doomed(s)' => Doomed(s) /\ Dead(RecordedTask(object, s)))
      BY <1>1, <2>1, DoomedAtRest DEF Live, LiveTasks
    <2>3. results[s].task = RecordedTask(object, s)
      <3>1. UpToDate(instance)
        BY <1>6 DEF UpToDate
      <3>2. new = instance.status
        BY <1>6, <3>1, CounterType DEF HandleDDStatus, Store, apiVars, Known, IInv
      <3> QED
        BY <1>4, <1>6, <3>2 DEF RecordedTask
    <2>4. Held(s)' <= Held(s)
      BY <1>1, <1>2, <2>1, HeldStill, Numbers, NumbersNext DEF One, Known, IInv
    <2>5. b' <=> b
      BY <2>1 DEF Bare
    <2>6. CASE b
      <3>1. Doomed(s) /\ ~Doomed(s)'
        BY <1>3, <1>6, <2>2, <2>3, <2>6 DEF Bare, Doomed, Dead, RecordedTask
      <3>2. Due(s)' <= Due(s) + 2
        BY <2>4, Numbers, NumbersNext
      <3> QED
        BY <2>2, <3>1, <3>2, Numbers, NumbersNext, ScoreTrades
    <2>7. CASE ~b
      <3>1. Due(s)' <= Due(s)
        BY <2>4, <2>5, <2>7, Numbers, NumbersNext
      <3> QED
        BY <2>2, <3>1, Numbers, NumbersNext, ScoreGrows
    <2> QED
      BY <2>6, <2>7
  <1>7. CASE Store(instance.uid, instance.spec, new) /\ UpToDate(instance)
    <2>1. instance = object /\ watch = <<>>
      BY <1>1, <1>7, UpdatesStored
    <2>2. /\ object'.uid = object.uid /\ object'.spec = object.spec
          /\ RecordedTask(object', s) = results[s].task
      BY <1>4, <1>7, <2>1 DEF Store, RecordedTask
    <2>3. watch' = Append(watch, object')
      BY <1>7 DEF Store
    <2>4. Live(s)' = Live(s)
      BY <1>1, <2>2 DEF Live, LiveTasks
    <2>5. Cardinality(Ahead(s)') = Cardinality(Ahead(s)) + One(Bare(object', s, object.uid))
      BY <2>2, <2>3, AheadAppend DEF Known, IInv
    <2>6. Cardinality(Ahead(s)) = 0
      BY <2>1, AheadType DEF Known, IInv
    <2>7. Bare(cache, s, object.uid)' <=> Bare(cache, s, object.uid)
      BY <1>1, <2>2 DEF Bare, RecordedTask
    <2>8. Held(s)' = Held(s) + One(Bare(object', s, object.uid))
      BY <1>1, <1>2, <2>5, <2>6, <2>7 DEF Held, One
    <2>9. CASE Bare(object', s, object.uid)
      <3>1. s \in instance.spec /\ results[s].task = NoTask
        BY <2>1, <2>2, <2>9 DEF Bare
      <3>2. Doomed(s)
        BY <1>3, <2>1, <3>1 DEF Doomed, Dead
      <3>3. ~Doomed(s)'
        BY <1>1, <2>2, <3>1 DEF Doomed, Dead, NoTaskIDs, RecordedTask
      <3>4. Due(s)' <= Held(s)' + 1
        <4>1. watch' # <<>>
          BY <2>1, <2>3
        <4> QED
          BY <2>2, <2>9, <4>1, NumbersNext DEF Due, One, Bare
      <3>5. Due(s)' <= Due(s) + 2
        BY <2>8, <2>9, <3>4, Numbers, NumbersNext DEF One
      <3> QED
        BY <2>4, <3>2, <3>3, <3>5, Numbers, NumbersNext, ScoreTrades
    <2>10. CASE ~Bare(object', s, object.uid)
      <3>1. Doomed(s)' => Doomed(s)
        BY <1>1, <1>3, <2>1, <2>2 DEF Doomed, Dead, NoTaskIDs, RecordedTask
      <3>2. Due(s)' = Held(s)'
        BY <2>2, <2>10, NumbersNext DEF Bare, RecordedTask
      <3>3. Due(s)' <= Due(s)
        BY <2>8, <2>10, <3>2, Numbers, NumbersNext DEF One
      <3> QED
        BY <2>4, <3>1, <3>3, Numbers, NumbersNext, ScoreGrows
    <2> QED
      BY <2>9, <2>10
  <1> QED
    BY <1>5, <1>6, <1>7 DEF HandleDDStatus

LEMMA StatusFailsCosts ==
    ASSUME Known, Known', StatusUpdateFails, NEW s \in Source
    PROVE  Score(s)' <= Score(s) + 2
  <1>1. /\ pc = "check" /\ pc' = "idle" /\ taskIDs' = NoTaskIDs
        /\ UNCHANGED <<object, watch, cache, queued, taskReq, outcomes>>
    BY DEF StatusUpdateFails, Return, apiVars, taskVars
  <1>2. Live(s)' = Live(s) /\ (Doomed(s)' => Doomed(s))
    BY <1>1, DoomedAtRest DEF Live, LiveTasks
  <1>3. ~Sends(s) /\ ~Sends(s)'
    BY <1>1 DEF Sends
  <1>4. Held(s)' <= Held(s)
    BY <1>1, <1>3, HeldStill, Numbers, NumbersNext DEF One, Known, IInv
  <1>5. Live(s)' + Due(s)' <= Live(s) + Due(s) + 2
    BY <1>2, <1>4, Numbers, NumbersNext
  <1> QED
    BY <1>2, <1>5, Numbers, NumbersNext, ScoreGrows

LEMMA RestartCosts ==
    ASSUME Known, Known', Restart, NEW s \in Source
    PROVE  Score(s)' <= Score(s) + 2
  <1>1. /\ pc' = "idle" /\ taskIDs' = NoTaskIDs /\ cache' = object /\ watch' = <<>> /\ ~timer'
        /\ UNCHANGED <<object, taskReq, outcomes>>
    BY DEF Restart, taskVars
  <1>2. Live(s)' = Live(s) /\ (Doomed(s)' => Doomed(s))
    BY <1>1, DoomedAtRest DEF Live, LiveTasks
  <1>3. Due(s)' <= 1
    <2>1. CASE Bare(object, s, object.uid)'
      BY <1>1, <2>1 DEF Due, One
    <2>2. CASE ~Bare(object, s, object.uid)'
      <3>1. Ahead(s)' = {}
        BY <1>1 DEF Ahead
      <3>2. Held(s)' = 0
        BY <1>1, <2>2, <3>1, FS_EmptySet DEF Held, One, Sends
      <3> QED
        BY <2>2, <3>2, NumbersNext
    <2> QED
      BY <2>1, <2>2
  <1>4. Live(s)' + Due(s)' <= Live(s) + Due(s) + 2
    BY <1>2, <1>3, Numbers, NumbersNext
  <1> QED
    BY <1>2, <1>4, Numbers, NumbersNext, ScoreGrows

LEMMA WorkerCosts ==
    ASSUME Known, Known', Grows, NEW t \in TaskId, NEW s \in Source
    PROVE  /\ Execute(t) => Score(s)' <= Score(s) + 0
           /\ TaskFault(t) => Score(s)' <= Score(s) + 2
  <1> SUFFICES ASSUME Execute(t) \/ TaskFault(t)
               PROVE  /\ Execute(t) => Score(s)' <= Score(s) + 0
                      /\ Score(s)' <= Score(s) + 2
    OBVIOUS
  <1>0. TypeOK /\ TasksInv
    BY DEF Known, IInv
  <1>1. /\ UNCHANGED <<object, watch, cache, queued, timer, instance, todo, taskIDs, pc>>
        /\ UNCHANGED taskReq
    BY DEF Execute, TaskFault, operatorVars, apiVars, queueVars, localVars,
           Start, Finish, Redelivered, Report, Expire
  <1>2. Live(s)' <= Live(s)
    BY <1>0, <1>1, LiveKept
  <1>3. Due(s)' = Due(s)
    <2>1. Sends(s)' <=> Sends(s)
      BY <1>1 DEF Sends, Bare
    <2> QED
      BY <1>1, <2>1, DueMoves, Numbers, NumbersNext DEF One
  <1>4. Execute(t) => (Doomed(s)' => Doomed(s))
    <2> SUFFICES ASSUME Execute(t)
                 PROVE  Doomed(s)' => Doomed(s)
      OBVIOUS
    <2>1. \A u \in TaskId : "FAILURE" \in outcomes'[u] => "FAILURE" \in outcomes[u]
      <3>1. CASE Start(t)
        BY <3>1 DEF Start
      <3>2. CASE Finish(t, "SUCCESS")
        <4>1. outcomes' = [outcomes EXCEPT ![t] = outcomes[t] \union ({"SUCCESS"} \intersect FinalState)]
          BY <3>2 DEF Finish, Report
        <4>2. \A u \in TaskId : outcomes'[u] \subseteq outcomes[u] \union {"SUCCESS"}
          BY <1>0, <4>1 DEF TypeOK, TasksTypeOK
        <4> QED
          BY <4>2
      <3> QED
        BY <3>1, <3>2 DEF Execute
    <2> QED
      BY <1>0, <1>1, <2>1, DoomedKept
  <1>5. Score(s)' <= Score(s) + 2
    BY <1>2, <1>3, Numbers, NumbersNext DEF Score, Live, One
  <1>6. Execute(t) => Score(s)' <= Score(s) + 0
    BY <1>2, <1>3, <1>4, Numbers, NumbersNext, ScoreGrows
  <1> QED
    BY <1>5, <1>6

LEMMA EditCosts ==
    ASSUME Known, Known', NEW spec, Edit(spec), NEW s \in Source
    PROVE  Score(s)' <= Score(s) + 2
  <1>1. /\ object'.uid = object.uid /\ object'.status = object.status
        /\ watch' = Append(watch, object')
        /\ UNCHANGED <<cache, queued, timer, pc, instance, todo, taskIDs, taskReq, outcomes>>
    BY DEF Edit, Store, UserOp, queueVars, localVars, taskVars
  <1>2. Live(s)' = Live(s) /\ (Doomed(s)' => Doomed(s))
    BY <1>1 DEF Live, LiveTasks, Doomed, Dead, RecordedTask
  <1>3. /\ Cardinality(Ahead(s)') = Cardinality(Ahead(s)) + One(Bare(object', s, object.uid))
        /\ Cardinality(Ahead(s)) \in Nat
    BY <1>1, AheadAppend, AheadType DEF Known, IInv
  <1>4. (Sends(s)' <=> Sends(s)) /\ (Bare(cache, s, object.uid)' <=> Bare(cache, s, object.uid))
        /\ (Bare(object, s, object.uid)' <=> Bare(object', s, object.uid))
    BY <1>1 DEF Sends, Bare, RecordedTask
  <1>5. Held(s)' = Held(s) + One(Bare(object', s, object.uid))
    BY <1>1, <1>3, <1>4 DEF Held, One
  <1>6. Due(s)' <= Held(s) + 2
    <2>1. CASE Bare(object', s, object.uid)
      <3>1. watch' # <<>>
        <4>1. watch \in Seq(Descriptor)
          BY DEF Known, IInv, TypeOK
        <4>2. Len(watch') # 0
          BY <1>1, <4>1
        <4> QED
          BY <4>2
      <3>2. Due(s)' = Held(s)' + One(Disturbed')
        BY <1>4, <2>1, <3>1 DEF Due, One
      <3> QED
        BY <1>5, <2>1, <3>2, Numbers, NumbersNext DEF One
    <2>2. CASE ~Bare(object', s, object.uid)
      BY <1>4, <1>5, <2>2, Numbers, NumbersNext DEF One
    <2> QED
      BY <2>1, <2>2
  <1>7. Live(s)' + Due(s)' <= Live(s) + Due(s) + 2
    BY <1>2, <1>6, Numbers, NumbersNext
  <1> QED
    BY <1>2, <1>7, Numbers, NumbersNext, ScoreGrows

\* A new incarnation starts with nothing but its first version on its way.
LEMMA CreateCosts ==
    ASSUME Known, Known', StillInv, NEW spec, Create(spec), NEW s \in Source
    PROVE  Score(s)' < 2 * (faults' + userOps')
  <1>0. TypeOK /\ rev \in Nat /\ faults \in Nat /\ userOps \in Nat /\ watch \in Seq(Descriptor)
    BY DEF Known, IInv, TypeOK
  <1>1. /\ object'.uid = rev + 1 /\ object'.status = EmptyStatus
        /\ watch' = Append(watch, object')
        /\ userOps' = userOps + 1 /\ faults' = faults
        /\ UNCHANGED <<cache, queued, timer, pc, instance, todo, taskIDs, taskReq, outcomes>>
    BY DEF Create, Store, UserOp, queueVars, localVars, taskVars
  <1>2. /\ cache.uid # rev + 1 /\ instance.uid # rev + 1
        /\ \A i \in 1 .. Len(watch) : watch[i].uid # rev + 1
    <2>1. cache.uid \in 0 .. rev /\ instance.uid \in 0 .. rev
          /\ \A i \in 1 .. Len(watch) : watch[i].uid <= rev
      BY DEF Known, CopiesInv
    <2> QED
      BY <1>0, <2>1
  <1>3. Live(s)' = 0
    <2>1. LiveTasks(s)' = {}
      <3> SUFFICES ASSUME NEW t \in TaskId, taskReq[t] = AddRequest(s, rev + 1)
                   PROVE  FALSE
        BY <1>1 DEF LiveTasks
      <3>1. taskReq[t] # NoReq
        BY <1>0, RequestTypes, NoReqAssumption
      <3>2. taskReq[t].uid <= rev
        BY <3>1 DEF Known, TasksInv
      <3> QED
        BY <1>0, <3>2 DEF AddRequest
    <2> QED
      BY <2>1, FS_EmptySet DEF Live
  <1>4. ~Doomed(s)'
    <2>1. RecordedTask(object', s) = NoTask
      <3>1. EmptyStatus.sources = NoEntries
        BY DEF EmptyStatus
      <3>2. NoEntries[s] = NoEntry
        BY DEF NoEntries
      <3>3. NoEntry.task = NoTask
        BY DEF NoEntry
      <3> QED
        BY <1>1, <3>1, <3>2, <3>3 DEF RecordedTask
    <2> QED
      BY <1>1, <1>2, <2>1 DEF Doomed, Dead, RecordedTask
  <1>5. Held(s)' <= 1
    <2>1. Len(watch) \in Nat /\ Len(watch') = Len(watch) + 1
          /\ \A i \in 1 .. Len(watch) : watch'[i] = watch[i]
      BY <1>0, <1>1
    <2>2. Ahead(s)' \in SUBSET {Len(watch) + 1}
      BY <1>1, <1>2, <2>1 DEF Ahead, Bare
    <2>3. Cardinality(Ahead(s)') <= 1 /\ Cardinality(Ahead(s)') \in Nat
      <3>1. IsFiniteSet({Len(watch) + 1}) /\ Cardinality({Len(watch) + 1}) = 1
        BY FS_Singleton
      <3> QED
        BY <2>2, <3>1, FS_Subset, FS_CardinalityType
    <2>4. ~Sends(s)' /\ ~Bare(cache, s, object.uid)'
      BY <1>1, <1>2 DEF Sends, Bare
    <2>5. Held(s)' = Cardinality(Ahead(s)')
      BY <2>3, <2>4 DEF Held, One
    <2> QED
      BY <2>3, <2>5
  <1>6. Due(s)' <= 1 + One(Disturbed')
    <2>1. watch' # <<>>
      BY <1>0, <1>1
    <2>2. CASE Bare(object, s, object.uid)'
      BY <1>5, <2>1, <2>2, NumbersNext DEF Due, One
    <2>3. CASE ~Bare(object, s, object.uid)'
      BY <1>5, <2>3, NumbersNext DEF One
    <2> QED
      BY <2>2, <2>3
  <1>7. Score(s)' = Due(s)'
    BY <1>3, <1>4, NumbersNext DEF Score, Live, One
  <1>8. CASE faults + userOps = 0
    <2>1. ~Disturbed'
      <3>1. pc = "idle" /\ ~queued /\ ~timer /\ watch = <<>>
        BY <1>8 DEF StillInv
      <3>2. Len(watch') = 1
        BY <1>0, <1>1, <3>1
      <3> QED
        BY <1>1, <3>1, <3>2 DEF Disturbed
    <2> QED
      BY <1>0, <1>1, <1>6, <1>7, <1>8, <2>1, NumbersNext DEF One
  <1>9. CASE faults + userOps # 0
    BY <1>0, <1>1, <1>6, <1>7, <1>9, NumbersNext DEF One
  <1> QED
    BY <1>8, <1>9

(***************************************************************************)
(* The bound on duplicates                                                 *)
(***************************************************************************)

LEMMA TasksInvStep == Known /\ [Next]_vars => TasksInv'
  <1> SUFFICES ASSUME Known, [Next]_vars
               PROVE  TasksInv'
    OBVIOUS
  <1>00. TypeOK /\ TasksInv /\ CopiesInv
    BY DEF Known, IInv
  <1>0. Grows /\ rev \in Nat
    BY <1>00, StepGrows DEF TypeOK
  <1>1. ASSUME UNCHANGED <<taskReq, taskState, outcomes>>, rev' \in {rev, rev + 1}
        PROVE  \A t \in TaskId : IF taskReq'[t] = NoReq
                                 THEN outcomes'[t] = {} /\ taskState'[t] = "PENDING"
                                 ELSE taskReq'[t].uid <= rev'
    <2> SUFFICES ASSUME NEW t \in TaskId, taskReq[t] # NoReq
                 PROVE  taskReq[t].uid <= rev'
      BY <1>00, <1>1 DEF TasksInv
    <2>1. taskReq[t].uid <= rev /\ taskReq[t].uid \in Nat
      BY <1>00 DEF TasksInv, TypeOK, TasksTypeOK, Request
    <2> QED
      BY <1>0, <1>1, <2>1
  <1>2. ASSUME UNCHANGED <<taskReq, taskState, outcomes>>, rev' \in {rev, rev + 1},
               object'.uid = object.uid \/ object'.uid = 0
        PROVE  TasksInv'
    <2>1. CASE object'.uid = object.uid
      BY <1>00, <1>0, <1>1, <1>2, <2>1, LiveKept DEF TasksInv
    <2>2. CASE object'.uid = 0
      <3>1. \A s \in Source : LiveTasks(s)' = {}
        BY <2>2 DEF LiveTasks
      <3> QED
        BY <1>1, <1>2, <3>1, FS_EmptySet DEF TasksInv
    <2> QED
      BY <1>2, <2>1, <2>2
  <1>3. ASSUME NEW t, NEW req, Sending(req), Accept(t, req), UNCHANGED <<object, rev>>
        PROVE  TasksInv'
    <2>1. t \in TaskId /\ taskReq' = [taskReq EXCEPT ![t] = req]
          /\ UNCHANGED <<taskState, outcomes>>
      BY <1>3, FreshIdIsFresh DEF Accept, Submit
    <2>2. req.uid <= rev /\ req # NoReq
      <3>1. req \in Request
        BY <1>00, <1>3, SendingType
      <3>2. req.uid \in {0, instance.uid}
        BY <1>3 DEF Sending, AddRequest, DeleteRequest
      <3>3. instance.uid \in 0 .. rev
        BY <1>00 DEF CopiesInv
      <3> QED
        BY <1>0, <3>1, <3>2, <3>3, NoReqAssumption
    <2>3. \A u \in TaskId : taskReq'[u] = IF u = t THEN req ELSE taskReq[u]
      BY <1>00, <2>1 DEF TypeOK, TasksTypeOK
    <2>4. \A s \in Source : IsFiniteSet(LiveTasks(s))'
      BY <1>00, <1>3, LiveAdded
    <2> QED
      BY <1>00, <1>3, <2>1, <2>2, <2>3, <2>4 DEF TasksInv
  <1>4. CASE User
    <2>1. CASE Delete
      BY <1>2, <2>1 DEF Delete, UserOp, taskVars, NotFound
    <2>2. CASE \E spec \in SUBSET Source : Edit(spec)
      BY <1>2, <2>2 DEF Edit, Store, UserOp, taskVars
    <2>3. ASSUME NEW spec \in SUBSET Source, Create(spec)
          PROVE  TasksInv'
      <3>1. object'.uid = rev + 1 /\ rev' = rev + 1 /\ UNCHANGED <<taskReq, taskState, outcomes>>
        BY <2>3 DEF Create, Store, UserOp, taskVars
      <3>2. \A s \in Source : LiveTasks(s)' = {}
        <4> SUFFICES ASSUME NEW s \in Source, NEW t \in TaskId, taskReq[t] = AddRequest(s, rev + 1)
                     PROVE  FALSE
          BY <3>1 DEF LiveTasks
        <4>1. taskReq[t] # NoReq
          BY <1>00, <1>0, RequestTypes, NoReqAssumption
        <4>2. taskReq[t].uid <= rev
          BY <1>00, <4>1 DEF TasksInv
        <4> QED
          BY <1>0, <4>2 DEF AddRequest
      <3> QED
        BY <1>1, <3>1, <3>2, FS_EmptySet DEF TasksInv
    <2> QED
      BY <1>4, <2>1, <2>2, <2>3 DEF User
  <1>5. CASE InformerEvent \/ RequeueTimer \/ Restart
    BY <1>2, <1>5 DEF InformerEvent, RequeueTimer, Restart, apiVars, taskVars
  <1>6. CASE TriggerTask
    BY <1>3, <1>6 DEF TriggerTask, TriggerSucceeds, apiVars
  <1>7. CASE TriggerError
    <2>1. PICK req \in Bodies : TriggerTimesOut(req) \/ TriggerFails(req)
      BY <1>7 DEF TriggerError
    <2>2. Sending(req) /\ MayHaveAccepted(req) /\ UNCHANGED <<object, rev>>
      BY <2>1 DEF TriggerTimesOut, TriggerFails, apiVars
    <2> QED
      BY <1>2, <1>3, <2>2 DEF MayHaveAccepted, taskVars
  <1>8. CASE \/ Reconcile \/ KeepTask \/ HandleDDDone \/ PollAnswered \/ PollFails
             \/ StatusUpdateFails
    BY <1>2, <1>8 DEF Reconcile, KeepTask, HandleDDDone, PollAnswered, PollFails, CheckSource,
                      StatusUpdateFails, apiVars, taskVars
  <1>9. CASE HandleDDStatus
    <2>1. CASE UNCHANGED apiVars
      BY <1>2, <1>9, <2>1 DEF HandleDDStatus, apiVars, taskVars
    <2>2. CASE UpToDate(instance) /\ Store(instance.uid, instance.spec, NewStatus(instance, results))
      <3>1. instance = object
        BY <1>9, <2>2, UpdatesStored DEF HandleDDStatus
      <3> QED
        BY <1>2, <1>9, <2>2, <3>1 DEF HandleDDStatus, Store, taskVars
    <2> QED
      BY <1>9, <2>1, <2>2 DEF HandleDDStatus
  <1>10. ASSUME NEW t \in TaskId, Execute(t) \/ TaskFault(t)
         PROVE  TasksInv'
    <2>1. UNCHANGED <<object, rev, taskReq>>
      BY <1>10 DEF Execute, TaskFault, operatorVars, apiVars, Start, Finish, Redelivered, Report,
                   Expire
    <2>2. taskReq[t] # NoReq
      BY <1>00, <1>10 DEF Execute, TaskFault, Start, Finish, Redelivered, Expire, Submitted, TasksInv,
                   FinalState
    <2>3. \A u \in TaskId : u # t => outcomes'[u] = outcomes[u] /\ taskState'[u] = taskState[u]
      BY <1>00, <1>10 DEF Execute, TaskFault, Start, Finish, Redelivered, Report, Expire,
                   TypeOK, TasksTypeOK
    <2>4. \A s \in Source : IsFiniteSet(LiveTasks(s))'
      BY <1>00, <1>0, <2>1, LiveKept
    <2> QED
      BY <1>00, <2>1, <2>2, <2>3, <2>4 DEF TasksInv
  <1>11. CASE UNCHANGED vars
    BY <1>2, <1>11 DEF vars, apiVars, taskVars
  <1> QED
    BY <1>4, <1>5, <1>6, <1>7, <1>8, <1>9, <1>10, <1>11 DEF Next, Controller

LEMMA CopiesInvStep == Known /\ IInv' /\ [Next]_vars => CopiesInv'
  <1> SUFFICES ASSUME Known, IInv', [Next]_vars
               PROVE  CopiesInv'
    OBVIOUS
  <1>0. /\ TypeOK /\ CopiesInv /\ VersionsInv
        /\ rev \in Nat /\ watch \in Seq(Descriptor)
        /\ object.uid \in 0 .. rev /\ cache.uid \in 0 .. rev /\ instance.uid \in 0 .. rev
    BY DEF Known, IInv, TypeOK, CopiesInv
  <1>00. \A i \in 1 .. Len(watch) : watch[i] \in Descriptor
    BY <1>0
  <1>1. NotFound.uid = 0 /\ NotFound.rv = 0
    BY DEF NotFound
  <1>2. Exists(object) => object.rv # 0
    BY <1>0 DEF VersionsInv, IsVersion, VersionOf
  <1>3. cache.rv <= rev /\ instance.rv <= rev /\ \A i \in 1 .. Len(watch) : watch[i].rv <= rev
    BY <1>0 DEF VersionsInv, IsVersion, VersionOf
  <1>4. cache.rv \in Nat /\ instance.rv \in Nat /\ \A i \in 1 .. Len(watch) : watch[i].rv \in Nat
    BY <1>0, <1>00 DEF TypeOK, Descriptor
  \* nothing is stored, and the reconcile keeps, drops or reads a copy;
  <1>5. ASSUME UNCHANGED <<object, rev, watch, cache>>, instance' \in {instance, cache, NotFound}
        PROVE  CopiesInv'
    BY <1>0, <1>1, <1>2, <1>5 DEF CopiesInv, Exists
  \* a version is stored;
  <1>6. ASSUME rev' = rev + 1, watch' = Append(watch, object'), UNCHANGED cache,
               instance' \in {instance, NotFound}, object'.uid \in 0 .. rev + 1,
               object'.uid # 0 => object'.rv = rev + 1
        PROVE  CopiesInv'
    <2>1. {object'.uid, cache'.uid, instance'.uid} \subseteq 0 .. rev'
      BY <1>0, <1>1, <1>6
    <2>2. Len(watch) \in Nat /\ Len(watch') = Len(watch) + 1 /\ watch'[Len(watch) + 1] = object'
          /\ \A i \in 1 .. Len(watch) : watch'[i] = watch[i]
      BY <1>0, <1>6
    <2>3. \A i \in 1 .. Len(watch) : watch[i].uid <= rev /\ watch[i].uid \in Nat
      BY <1>0, <1>00 DEF CopiesInv, Descriptor
    <2>4. \A i \in 1 .. Len(watch') : watch'[i].uid <= rev'
      BY <1>0, <1>6, <2>2, <2>3
    <2>5. object'.uid # 0 => object'.rv \notin {cache'.rv, instance'.rv}
      BY <1>0, <1>1, <1>3, <1>4, <1>6
    <2>6. object'.uid # 0 => \A i \in 1 .. Len(watch') - 1 : watch'[i].rv # object'.rv
      BY <1>0, <1>3, <1>4, <1>6, <2>2
    <2> QED
      BY <2>1, <2>4, <2>5, <2>6 DEF CopiesInv, Exists
  <1>7. CASE User
    <2>1. UNCHANGED <<cache, instance>>
      BY <1>7 DEF User, Create, Edit, Delete, UserOp, queueVars, localVars
    <2>2. rev' = rev + 1 /\ watch' = Append(watch, object')
      BY <1>7 DEF User, Create, Edit, Delete, Store, NotFound
    <2>3. object'.uid \in 0 .. rev + 1 /\ (object'.uid # 0 => object'.rv = rev + 1)
      BY <1>0, <1>1, <1>7 DEF User, Create, Edit, Delete, Store
    <2> QED
      BY <1>6, <2>1, <2>2, <2>3
  <1>8. CASE InformerEvent
    <2>1. /\ watch # <<>> /\ cache' = watch[1] /\ watch' = Tail(watch)
          /\ UNCHANGED <<object, rev, instance>>
      BY <1>0, <1>8 DEF InformerEvent, localVars
    <2>2. Len(watch) \in Nat \ {0} /\ Len(watch') = Len(watch) - 1
          /\ \A i \in 1 .. Len(watch) - 1 : watch'[i] = watch[i + 1]
      BY <1>0, <2>1
    <2>3. watch[1].uid \in 0 .. rev
      <3>1. watch[1] \in Descriptor /\ watch[1].uid <= rev
        BY <1>0, <1>00, <2>2 DEF CopiesInv
      <3> QED
        BY <1>0, <3>1 DEF Descriptor
    <2>4. \A i \in 1 .. Len(watch') : watch'[i].uid <= rev'
      BY <1>0, <2>1, <2>2 DEF CopiesInv
    <2>5. Exists(object) /\ watch' # <<>> =>
            /\ object.rv \notin {watch[1].rv, instance.rv}
            /\ \A i \in 1 .. Len(watch') - 1 : watch'[i].rv # object.rv
      <3> SUFFICES ASSUME Exists(object), watch' # <<>>
                   PROVE  /\ object.rv \notin {watch[1].rv, instance.rv}
                          /\ \A i \in 1 .. Len(watch') - 1 : watch'[i].rv # object.rv
        OBVIOUS
      <3>1. object.rv \notin {cache.rv, instance.rv}
            /\ \A i \in 1 .. Len(watch) - 1 : watch[i].rv # object.rv
        BY <1>0, <2>1 DEF CopiesInv
      <3>2. Len(watch) > 1
        <4>1. Len(watch') # 0
          BY <1>0, <2>1
        <4> QED
          BY <2>2, <4>1
      <3>3. object.rv # watch[1].rv
        BY <3>1, <3>2, <2>2
      <3>4. ASSUME NEW i \in 1 .. Len(watch') - 1
            PROVE  watch'[i].rv # object.rv
        <4>1. i \in 1 .. Len(watch) - 1 /\ i + 1 \in 1 .. Len(watch) - 1
          BY <2>2
        <4> QED
          BY <2>2, <3>1, <4>1
      <3> QED
        BY <3>1, <3>3, <3>4
    <2> QED
      BY <1>0, <2>1, <2>3, <2>4, <2>5 DEF CopiesInv, Exists
  <1>9. CASE Restart
    <2>1. /\ cache' = object /\ watch' = <<>> /\ instance' = NotFound
          /\ UNCHANGED <<object, rev>>
      BY <1>9 DEF Restart
    <2>2. \A i \in 1 .. Len(watch') : watch'[i].uid <= rev'
      BY <2>1
    <2> QED
      BY <1>0, <1>1, <2>1, <2>2 DEF CopiesInv
  <1>10. CASE \/ RequeueTimer \/ Reconcile \/ KeepTask \/ HandleDDDone \/ PollAnswered
              \/ PollFails \/ StatusUpdateFails
    BY <1>5, <1>10 DEF RequeueTimer, Reconcile, KeepTask, HandleDDDone, PollAnswered, PollFails,
                       CheckSource, StatusUpdateFails, Return, apiVars, queueVars, localVars
  <1>11. CASE TriggerTask
    BY <1>5, <1>11 DEF TriggerTask, TriggerSucceeds, Return, apiVars
  <1>12. CASE TriggerError
    BY <1>5, <1>12 DEF TriggerError, TriggerTimesOut, TriggerFails, Return, apiVars, queueVars
  <1>13. CASE HandleDDStatus
    <2>1. UNCHANGED cache /\ instance' = NotFound
      BY <1>13 DEF HandleDDStatus, Return
    <2>2. CASE UNCHANGED apiVars
      BY <1>5, <2>1, <2>2 DEF apiVars
    <2>3. CASE Store(instance.uid, instance.spec, NewStatus(instance, results))
      <3>1. object'.uid = instance.uid /\ object'.rv = rev + 1 /\ rev' = rev + 1
            /\ watch' = Append(watch, object')
        BY <2>3 DEF Store
      <3> QED
        BY <1>0, <1>6, <2>1, <3>1
    <2> QED
      BY <1>13, <2>2, <2>3 DEF HandleDDStatus
  <1>14. ASSUME NEW t \in TaskId, Execute(t) \/ TaskFault(t)
         PROVE  CopiesInv'
    BY <1>5, <1>14 DEF Execute, TaskFault, operatorVars, apiVars, queueVars, localVars
  <1>15. CASE UNCHANGED vars
    BY <1>5, <1>15 DEF vars, apiVars, queueVars, localVars
  <1> QED
    BY <1>7, <1>8, <1>9, <1>10, <1>11, <1>12, <1>13, <1>14, <1>15 DEF Next, Controller

LEMMA StillInvStep == TypeOK /\ StillInv /\ [Next]_vars => StillInv'
  <1> SUFFICES ASSUME TypeOK, StillInv, [Next]_vars
               PROVE  StillInv'
    OBVIOUS
  <1>0. faults \in Nat /\ userOps \in Nat
    BY DEF TypeOK
  <1>1. ASSUME <<faults', userOps'>> \in {<<faults + 1, userOps>>, <<faults, userOps + 1>>}
        PROVE  StillInv'
    BY <1>0, <1>1 DEF StillInv
  <1>2. ASSUME UNCHANGED <<faults, userOps>>, pc # "idle" \/ queued \/ timer \/ watch # <<>>
        PROVE  StillInv'
    BY <1>2 DEF StillInv
  <1>3. ASSUME UNCHANGED <<faults, userOps, pc, queued, timer, watch, object>>
        PROVE  StillInv'
    BY <1>3 DEF StillInv, Exists
  <1>4. CASE User
    BY <1>1, <1>4 DEF User, Create, Edit, Delete, UserOp
  <1>5. CASE InformerEvent \/ RequeueTimer
    BY <1>2, <1>5 DEF InformerEvent, RequeueTimer, boundVars
  <1>6. CASE Restart
    BY <1>1, <1>6 DEF Restart, Fault
  <1>7. CASE Reconcile \/ KeepTask \/ HandleDDDone \/ HandleDDStatus
    BY <1>2, <1>7 DEF Reconcile, KeepTask, HandleDDDone, HandleDDStatus, boundVars
  <1>8. CASE TriggerTask
    BY <1>2, <1>8 DEF TriggerTask, TriggerSucceeds, Sending, boundVars
  <1>9. CASE TriggerError
    BY <1>1, <1>9 DEF TriggerError, TriggerTimesOut, TriggerFails, Fault
  <1>10. CASE PollAnswered
    BY <1>2, <1>10 DEF PollAnswered, CheckSource
  <1>11. CASE PollFails \/ StatusUpdateFails
    BY <1>1, <1>11 DEF PollFails, CheckSource, StatusUpdateFails, Fault
  <1>12. ASSUME NEW t \in TaskId, Execute(t) \/ TaskFault(t)
         PROVE  StillInv'
    BY <1>1, <1>3, <1>12 DEF Execute, TaskFault, Fault, operatorVars, apiVars, queueVars
  <1>13. CASE UNCHANGED vars
    BY <1>3, <1>13 DEF vars, apiVars, queueVars, boundVars
  <1> QED
    BY <1>4, <1>5, <1>6, <1>7, <1>8, <1>9, <1>10, <1>11, <1>12, <1>13 DEF Next, Controller

LEMMA PaidForStep == Known /\ Known' /\ StillInv /\ PaidFor /\ [Next]_vars => PaidFor'
  <1> SUFFICES ASSUME Known, Known', StillInv, PaidFor, [Next]_vars, Timely, Exists(object)',
                      NEW s \in Source
               PROVE  Score(s)' < 2 * (faults' + userOps')
    BY DEF PaidFor
  <1>0. TypeOK /\ Grows /\ faults \in Nat /\ userOps \in Nat
    BY StepGrows DEF Known, IInv, TypeOK
  <1>1. ASSUME Exists(object)
        PROVE  Score(s) < 2 * (faults + userOps)
    BY <1>1 DEF PaidFor
  <1>2. Score(s) \in Nat /\ Score(s)' \in Nat
    BY Numbers, NumbersNext DEF Score, Live, One
  <1>3. ASSUME Exists(object), Score(s)' <= Score(s) + 0, UNCHANGED <<faults, userOps>>
        PROVE  Score(s)' < 2 * (faults' + userOps')
    BY <1>0, <1>1, <1>2, <1>3
  <1>4. ASSUME Exists(object), Score(s)' <= Score(s) + 2,
               <<faults', userOps'>> \in {<<faults + 1, userOps>>, <<faults, userOps + 1>>}
        PROVE  Score(s)' < 2 * (faults' + userOps')
    BY <1>0, <1>1, <1>2, <1>4
  <1>5. CASE User
    <2>1. ASSUME NEW spec \in SUBSET Source, Create(spec)
          PROVE  Score(s)' < 2 * (faults' + userOps')
      BY <2>1, CreateCosts
    <2>2. ASSUME NEW spec \in SUBSET Source, Edit(spec)
          PROVE  Score(s)' < 2 * (faults' + userOps')
      BY <1>4, <2>2, EditCosts DEF Edit, UserOp
    <2>3. CASE Delete
      BY <2>3 DEF Delete, NotFound, Exists
    <2> QED
      BY <1>5, <2>1, <2>2, <2>3 DEF User
  <1>6. CASE ~User
    <2>1. Exists(object)
      <3>1. CASE HandleDDStatus
        BY <3>1 DEF HandleDDStatus, UpToDate, Store, Exists, apiVars
      <3>2. CASE ~HandleDDStatus
        <4>1. object' = object
          BY <1>6, <3>2
          DEF Next, Controller, InformerEvent, RequeueTimer, Restart, Reconcile, KeepTask, TriggerTask,
              TriggerSucceeds, TriggerError, TriggerTimesOut, TriggerFails, HandleDDDone, PollAnswered,
              PollFails, CheckSource, StatusUpdateFails, Execute, TaskFault, operatorVars, apiVars, vars
        <4> QED
          BY <4>1 DEF Exists
      <3> QED
        BY <3>1, <3>2
    <2>2. CASE InformerEvent
      BY <1>3, <2>1, <2>2, InformerCosts DEF InformerEvent, boundVars
    <2>3. CASE RequeueTimer
      BY <1>3, <2>1, <2>3, TimerCosts DEF RequeueTimer, boundVars
    <2>4. CASE Reconcile
      BY <1>3, <2>1, <2>4, ReconcileCosts DEF Reconcile, boundVars
    <2>5. CASE KeepTask
      BY <1>3, <2>1, <2>5, KeepTaskCosts DEF KeepTask, boundVars
    <2>6. CASE TriggerTask
      BY <1>3, <2>1, <2>6, TriggerCosts DEF TriggerTask, TriggerSucceeds, boundVars
    <2>7. CASE TriggerError
      BY <1>4, <2>1, <2>7, TriggerErrorCosts DEF TriggerError, TriggerTimesOut, TriggerFails, Fault
    <2>8. CASE HandleDDDone \/ PollAnswered
      BY <1>3, <2>1, <2>8, LoopCosts DEF HandleDDDone, PollAnswered, CheckSource, boundVars
    <2>9. CASE PollFails
      <3>1. faults' = faults + 1 /\ userOps' = userOps
        BY <2>9 DEF PollFails, CheckSource, Fault
      <3>2. Score(s)' <= Score(s) + 0
        BY <2>9, LoopCosts
      <3> QED
        BY <1>2, <1>4, <2>1, <3>1, <3>2
    <2>10. CASE HandleDDStatus
      BY <1>3, <2>1, <2>10, StatusCosts DEF HandleDDStatus, boundVars
    <2>11. CASE StatusUpdateFails
      BY <1>4, <2>1, <2>11, StatusFailsCosts DEF StatusUpdateFails, Fault
    <2>12. CASE Restart
      BY <1>4, <2>1, <2>12, RestartCosts DEF Restart, Fault
    <2>13. ASSUME NEW t \in TaskId, Execute(t)
           PROVE  Score(s)' < 2 * (faults' + userOps')
      BY <1>0, <1>3, <2>1, <2>13, WorkerCosts DEF Execute, operatorVars
    <2>14. ASSUME NEW t \in TaskId, TaskFault(t)
           PROVE  Score(s)' < 2 * (faults' + userOps')
      BY <1>0, <1>4, <2>1, <2>14, WorkerCosts DEF TaskFault, Fault, operatorVars
    <2>15. CASE UNCHANGED vars
      <3>1. UNCHANGED <<object, watch, cache, queued, timer, instance, todo, taskIDs, pc, taskReq,
                        outcomes, faults, userOps>>
        BY <2>15 DEF vars, apiVars, queueVars, localVars, boundVars, taskVars
      <3>2. Score(s)' = Score(s)
        BY <3>1 DEF Score, LiveTasks, Due, Held, Sends, Ahead, Bare, Disturbed, Doomed, Dead,
                    RecordedTask
      <3> QED
        BY <1>2, <1>3, <2>1, <3>1, <3>2
    <2> QED
      BY <1>6, <2>2, <2>3, <2>4, <2>5, <2>6, <2>7, <2>8, <2>9, <2>10, <2>11, <2>12, <2>13, <2>14,
         <2>15 DEF Next, Controller
  <1> QED
    BY <1>5, <1>6

LEMMA DuplicationInit == Init => DuplicationInv
  <1> SUFFICES ASSUME Init
               PROVE  DuplicationInv
    OBVIOUS
  <1>1. NotFound.uid = 0
    BY DEF NotFound
  <1>2. \A s \in Source : LiveTasks(s) = {}
    BY <1>1 DEF Init, LiveTasks
  <1>3. TasksInv
    BY <1>2, FS_EmptySet DEF Init, TasksInit, TasksInv
  <1>4. CopiesInv
    <2>1. rev = 0 /\ watch = <<>> /\ Len(watch) = 0
          /\ object = NotFound /\ cache = NotFound /\ instance = NotFound
      BY DEF Init
    <2> QED
      BY <1>1, <2>1 DEF CopiesInv
  <1>5. StillInv /\ PaidFor
    BY <1>1 DEF Init, StillInv, PaidFor, Exists
  <1> QED
    BY <1>3, <1>4, <1>5 DEF DuplicationInv

\* What pays for every submission that is done, due or doomed to be repeated
\* is a fault or a user operation.
THEOREM DuplicationInvariant == Spec => [](IInv /\ DuplicationInv)
  <1>1. Init => IInv /\ DuplicationInv
    BY IInvInit, DuplicationInit
  <1>2. IInv /\ DuplicationInv /\ [Next]_vars => (IInv /\ DuplicationInv)'
    <2> SUFFICES ASSUME IInv, DuplicationInv, [Next]_vars
                 PROVE  (IInv /\ DuplicationInv)'
      OBVIOUS
    <2>1. Known /\ IInv' /\ StillInv /\ PaidFor /\ TypeOK
      BY IInvStep DEF DuplicationInv, Known, IInv
    <2>2. TasksInv' /\ CopiesInv' /\ StillInv'
      BY <2>1, TasksInvStep, CopiesInvStep, StillInvStep
    <2>3. Known'
      BY <2>1, <2>2 DEF Known
    <2> QED
      BY <2>1, <2>2, <2>3, PaidForStep DEF DuplicationInv
  <1> QED
    BY <1>1, <1>2, PTL DEF Spec

\* The tasks that process one source at the same time stay fewer than twice the
\* faults and user operations, for any number of sources, tasks and retries.
THEOREM DuplicationBounded == Spec => []BoundedDuplication
  <1>1. IInv /\ DuplicationInv => BoundedDuplication
    <2> SUFFICES ASSUME IInv, DuplicationInv, Timely, Exists(object), NEW s \in Source
                 PROVE  Cardinality(LiveTasks(s)) < 2 * (faults + userOps)
      BY DEF BoundedDuplication
    <2>1. Known /\ faults \in Nat /\ userOps \in Nat
      BY DEF DuplicationInv, Known, IInv, TypeOK
    <2>2. Score(s) < 2 * (faults + userOps)
      BY DEF DuplicationInv, PaidFor
    <2>3. Live(s) <= Score(s) /\ Live(s) \in Nat /\ Score(s) \in Nat
      BY <2>1, Numbers DEF Score, Live, One
    <2> QED
      BY <2>1, <2>2, <2>3 DEF Live
  <1> QED
    BY <1>1, DuplicationInvariant, PTL

=============================================================================
