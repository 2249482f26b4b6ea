----------------------------- MODULE DataSinkers -----------------------------
(***************************************************************************)
(* The Celery workers of data-sinkers executing process_data, the stores   *)
(* of data-services they write, and the result backend.                    *)
(*                                                                         *)
(* An execution is a list of HTTP calls, and a call a list of steps of     *)
(* the data-services (DataServices).  The workers interleave step by       *)
(* step.  A worker that gives up on a call - its process died, or the      *)
(* request timed out - does not stop the service from finishing it: the    *)
(* call goes on as an orphan.  A task is acknowledged only when it ended   *)
(* (acks_late), so the task of a dead worker is delivered again, and so is *)
(* one that runs past the broker's visibility timeout.                     *)
(***************************************************************************)
EXTENDS FiniteSets, DataServices

CONSTANTS
    Worker, TaskId, NoReq, NoTask,
    MaxFaults  \* bound on crashes, failed, lost and masked calls, redeliveries

ASSUME SinkersAssumption ==
    /\ IsFiniteSet(Descriptor) /\ IsFiniteSet(Worker)
    /\ \A d \in Descriptor : d.source \in {"mysql", "postgres", "minio", "fileserver"}
    /\ NoTask \notin TaskId \union Worker
    /\ MaxFaults \in Nat

VARIABLES
    request,   \* request[t]: what POST /trigger_task published, or NoReq
    queue,     \* the tasks the broker can deliver
    result,    \* result[t]: the state the result backend stores
    reported,  \* reported[t]: the final states executions of t stored (history)
    run,       \* run[w]: what worker w executes
    orphans,   \* the calls nobody waits for
    faults,    \* faults injected so far, at most MaxFaults
    runs,      \* runs[d]: executions of d's AddOrUpdate tasks begun (history)
    cleared    \* pairs <<store, d>>: d's Delete emptied that store (history)

sinkerVars ==
    <<request, queue, result, reported, run, orphans, faults, runs, cleared>>
vars == <<storeVars, sinkerVars>>

-----------------------------------------------------------------------------
\* A task, part by part.  A part is either work in the worker, with what its
\* steps make of a failure below them - it is raised and fails the task, or
\* logged, and what it would have given is missing - or a request to
\* data-services.
Reading(onError) == [work |-> onError, call |-> <<>>]
Request(steps) == [work |-> {}, call |-> steps]

\* The readers and the analyzer: what each makes of a failure.
Caught(onError) == IF onError = {} THEN {} ELSE {"missing"}

mysql_connect == {"raised"}
mysql_schema == {"raised"}
mysql_schema_relationship == {"raised"}
postgres_connect == {"raised"}
postgres_schema == {"raised"}
postgres_schema_relationship == {"raised"}
process_file == {"raised"}  \* of a type nobody reads, or empty
minio_query == Caught(process_file)
fileserver_query == Caught(process_file)
generate_table_relationship == {"raised"}
generate_tables_summary == {"raised"}
generate_fingerprint == {"raised"}
process_sql_schemas_in_batches == Caught(generate_fingerprint) \union {"raised"}  \* if none is left
agent_info == {"raised"}  \* None, which analyze then dereferences
analyze == process_sql_schemas_in_batches \union agent_info

\* A descriptor of tables has its fingerprint stored before its only document
\* is put together, of a summary for each batch of tables there is one for.
mysql_document == Caught(generate_tables_summary)
postgres_document == Caught(generate_tables_summary)

extract_mysql ==
    << Reading(mysql_connect \union mysql_schema \union mysql_schema_relationship
                 \union generate_table_relationship \union analyze),
       Request(create_fingerprint),
       Reading(mysql_document) >>
extract_postgres ==
    << Reading(postgres_connect \union postgres_schema \union postgres_schema_relationship
                 \union generate_table_relationship \union analyze),
       Request(create_fingerprint),
       Reading(postgres_document) >>

\* Files are read, and that is all.
extract_minio == << Reading(minio_query) >>
extract_fileserver == << Reading(fileserver_query) >>

send_add_documents_to_knowledge_pyramid ==
    << Request(create_collection_with_knowledge_pyramid),
       Request(add_documents_with_knowledge_pyramid) >>
send_delete_fingerprint == << Request(delete_fingerprints_by_dd_info) >>
send_delete_collection_to_knowledge_pyramid ==
    << Request(delete_all_documents_and_memorys_by_collection_name) >>

process_data(body) ==
    IF body.op = "Delete"
    THEN send_delete_fingerprint \o send_delete_collection_to_knowledge_pyramid
    ELSE (CASE body.of.source = "mysql" -> extract_mysql
            [] body.of.source = "postgres" -> extract_postgres
            [] body.of.source = "minio" -> extract_minio
            [] body.of.source = "fileserver" -> extract_fileserver)
         \o send_add_documents_to_knowledge_pyramid

Body == [op : {"AddOrUpdate", "Delete"}, of : Descriptor]

ASSUME BodyAssumption == NoReq \notin Body

Idle == [task |-> NoTask, at |-> 0, part |-> Reading({}), lost |-> FALSE,
         met |-> {}, blind |-> {}]

Init ==
    /\ StoresInit
    /\ request = [t \in TaskId |-> NoReq]
    /\ queue = {}
    /\ result = [t \in TaskId |-> "PENDING"]
    /\ reported = [t \in TaskId |-> {}]
    /\ run = [w \in Worker |-> Idle]
    /\ orphans = {}
    /\ faults = 0
    /\ runs = [d \in Descriptor |-> 0]
    /\ cleared = {}

Fault == faults < MaxFaults /\ faults' = faults + 1

Busy == {w \in Worker : run[w].task # NoTask}
BodyOf(w) == request[run[w].task]
Parts(w) == process_data(BodyOf(w))

\* The step data-services is to execute next for w.
Waiting(w) == w \in Busy /\ run[w].part.call # <<>>
Step(w) == Head(run[w].part.call)

\* Files that could not be read leave nothing to send; tables that could not
\* be summarised leave a document without them.
DocsOf(w) == IF run[w].lost /\ BodyOf(w).of.source \in {"minio", "fileserver"} THEN 0 ELSE 1

-----------------------------------------------------------------------------
\* The result backend (celery's RedisBackend, on behalf of the tasks).

\* Variant: it is.
OverwriteResult(t, state) == result' = [result EXCEPT ![t] = state]

\* A stored SUCCESS is never overwritten.
StoreResult(t, state) ==
    result' = [result EXCEPT ![t] = IF @ = "SUCCESS" THEN @ ELSE state]

\* An execution of w's task ends: its state is stored, the message acknowledged.
Report(w, state) ==
    LET t == run[w].task
    IN  /\ StoreResult(t, state)
        /\ reported' = IF result[t] = "SUCCESS" THEN reported
                       ELSE [reported EXCEPT ![t] = @ \union {state}]
        /\ run' = [run EXCEPT ![w] = Idle]

-----------------------------------------------------------------------------
\* celery-httpserver publishes a task.
TriggerTask(t, body) ==
    /\ {u \in TaskId : request[u] # NoReq} # TaskId
    /\ t = CHOOSE u \in TaskId : request[u] = NoReq
    /\ request' = [request EXCEPT ![t] = body]
    /\ queue' = queue \union {t}
    /\ UNCHANGED <<storeVars, result, reported, run, orphans, faults, runs, cleared>>

\* The execution turns to its n-th part, or has done them all.
Turn(execution, n) ==
    LET parts == process_data(request[execution.task])
    IN  [execution EXCEPT !.at = n,
             !.part = IF n <= Len(parts) THEN parts[n] ELSE Reading({})]

\* A free worker takes a delivery and the task is marked STARTED.
Take(w, t) ==
    /\ w \notin Busy /\ t \in queue
    /\ queue' = queue \ {t}
    /\ run' = [run EXCEPT ![w] = Turn([Idle EXCEPT !.task = t], 1)]
    /\ StoreResult(t, "STARTED")
    /\ runs' = IF request[t].op = "Delete" THEN runs
               ELSE [runs EXCEPT ![request[t].of] = @ + 1]
    /\ UNCHANGED <<storeVars, request, reported, orphans, faults, cleared>>

\* A part done in the worker is done, with all there was or with less.
Read(w) ==
    /\ w \in Busy /\ run[w].part.work # {}
    /\ \/ run' = [run EXCEPT ![w] = Turn(@, @.at + 1)] /\ UNCHANGED faults
       \/ /\ "missing" \in run[w].part.work
          /\ run' = [run EXCEPT ![w] = [Turn(@, @.at + 1) EXCEPT !.lost = TRUE]]
          /\ Fault
    /\ UNCHANGED <<storeVars, request, queue, result, reported, orphans, runs, cleared>>

-----------------------------------------------------------------------------
\* data-services.

\* History: which stores a Delete that is executing found or made empty and
\* which were written again since; which a Delete emptied last.
Met(v, w, step, d) ==
    IF v \notin Busy \/ BodyOf(v) # [op |-> "Delete", of |-> d] THEN run[v].met
    ELSE IF step \in Adds THEN run[v].met \union {StoreOf(step)}
    ELSE IF v = w THEN run[v].met \ {StoreOf(step)}
    ELSE run[v].met

Noted ==
    cleared' = { p \in Store \X Descriptor :
                    IF Held(p[1])'[p[2]] = Held(p[1])[p[2]] THEN p \in cleared
                    ELSE Held(p[1])'[p[2]] = 0 }

\* The service executes the next step of w's request.
Serve(w, readable) ==
    /\ Waiting(w)
    /\ LET d == BodyOf(w).of
           rest == Rest(run[w].part.call, d, readable)
           after == [run[w] EXCEPT !.part.call = rest,
                         !.blind = IF readable THEN @ ELSE @ \union {StoreOf(Step(w))}]
           done == IF rest = <<>> THEN Turn(after, run[w].at + 1) ELSE after
       IN  /\ readable \/ Step(w) \in Looks
           /\ Effect(Step(w), d, DocsOf(w), readable)
           /\ run' = [v \in Worker |->
                         [IF v = w THEN done ELSE run[v] EXCEPT !.met = Met(v, w, Step(w), d)]]
           /\ Noted
    /\ IF readable THEN UNCHANGED faults ELSE Fault
    /\ UNCHANGED <<request, queue, result, reported, orphans, runs>>

\* The service executes the next step of a request whose client has gone.
ServeOrphan(o) ==
    /\ o \in orphans
    /\ LET step == Head(o.call)
           rest == Rest(o.call, o.of, TRUE)
       IN  /\ Effect(step, o.of, o.docs, TRUE)
           /\ orphans' = (orphans \ {o}) \union
                             (IF rest = <<>> THEN {} ELSE {[o EXCEPT !.call = rest]})
           /\ run' = [v \in Worker |-> [run[v] EXCEPT !.met = Met(v, NoTask, step, o.of)]]
           /\ Noted
    /\ UNCHANGED <<request, queue, result, reported, faults, runs>>

OrphanRefused(o) ==
    /\ o \in orphans /\ Refused(Head(o.call), o.of)
    /\ orphans' = orphans \ {o}
    /\ UNCHANGED <<storeVars, request, queue, result, reported, run, faults, runs, cleared>>

\* The request answers 500 and the task fails.
CallRefused(w) ==
    /\ Waiting(w) /\ Refused(Step(w), BodyOf(w).of)
    /\ Report(w, "FAILURE")
    /\ UNCHANGED <<storeVars, request, queue, orphans, faults, runs, cleared>>

-----------------------------------------------------------------------------
\* What goes wrong.

\* A part raises, in the worker or in the service: nothing more is done.
PartFails(w) ==
    /\ w \in Busy
    /\ Waiting(w) \/ "raised" \in run[w].part.work
    /\ Fault
    /\ Report(w, "FAILURE")
    /\ UNCHANGED <<storeVars, request, queue, orphans, runs, cleared>>

\* What the service goes on with when w no longer waits for it.
Abandoned(w) ==
    IF Waiting(w) THEN {[call |-> run[w].part.call, of |-> BodyOf(w).of, docs |-> DocsOf(w)]}
    ELSE {}

\* The request takes longer than the client waits, or the process that waits
\* is killed: Celery stores a FAILURE and acknowledges the task.
CallAbandoned(w) ==
    /\ Waiting(w)
    /\ Fault
    /\ orphans' = orphans \union Abandoned(w)
    /\ Report(w, "FAILURE")
    /\ UNCHANGED <<storeVars, request, queue, runs, cleared>>

\* Variant: a task is acknowledged when it is delivered.
CrashAcknowledged(w) ==
    /\ w \in Busy
    /\ Fault
    /\ orphans' = orphans \union Abandoned(w)
    /\ run' = [run EXCEPT ![w] = Idle]
    /\ UNCHANGED <<storeVars, request, queue, result, reported, runs, cleared>>

\* The whole worker dies; its unacknowledged task goes back to the queue.
Crash(w) ==
    /\ w \in Busy
    /\ Fault
    /\ orphans' = orphans \union Abandoned(w)
    /\ queue' = queue \union {run[w].task}
    /\ run' = [run EXCEPT ![w] = Idle]
    /\ UNCHANGED <<storeVars, request, result, reported, runs, cleared>>

\* The broker takes a slow execution for a dead one.
VisibilityTimeout(w) ==
    /\ w \in Busy /\ run[w].task \notin queue
    /\ Fault
    /\ queue' = queue \union {run[w].task}
    /\ UNCHANGED <<storeVars, request, result, reported, run, orphans, runs, cleared>>

\* All parts done.
Finish(w) ==
    /\ w \in Busy /\ run[w].at > Len(Parts(w))
    /\ Report(w, "SUCCESS")
    /\ UNCHANGED <<storeVars, request, queue, orphans, faults, runs, cleared>>

-----------------------------------------------------------------------------
Execute(w) ==
    \/ Read(w) \/ Serve(w, TRUE) \/ CallRefused(w) \/ Finish(w)
    \/ \E t \in TaskId : Take(w, t)

Trouble(w) ==
    \/ Serve(w, FALSE) \/ PartFails(w) \/ CallAbandoned(w)
    \/ Crash(w) \/ VisibilityTimeout(w)

Next ==
    \/ \E t \in TaskId, body \in Body : TriggerTask(t, body)
    \/ \E w \in Worker : Execute(w) \/ Trouble(w)
    \/ \E o \in orphans : ServeOrphan(o) \/ OrphanRefused(o)

\* Workers consume, and every request ends one way or another.  Nothing is
\* assumed of the clients that trigger tasks, or of an abandoned request.
Fairness == \A w \in Worker : WF_vars(Execute(w))

Spec == Init /\ [][Next]_vars /\ Fairness

-----------------------------------------------------------------------------
\* Type invariant.
TypeOK ==
    /\ tables \subseteq {table_name(d) : d \in Descriptor}
    /\ rows \in [Descriptor -> Nat] /\ memories \in [Descriptor -> Nat]
    /\ prints \in [Descriptor -> Nat] /\ runs \in [Descriptor -> Nat]
    /\ request \in [TaskId -> Body \union {NoReq}]
    /\ queue \subseteq TaskId
    /\ result \in [TaskId -> {"PENDING", "STARTED", "SUCCESS", "FAILURE"}]
    /\ reported \in [TaskId -> SUBSET {"SUCCESS", "FAILURE"}]
    /\ \A w \in Worker :
          /\ run[w].task \in TaskId \union {NoTask}
          /\ run[w].lost \in BOOLEAN
          /\ run[w].met \subseteq Store /\ run[w].blind \subseteq Store
    /\ \A o \in orphans : o.of \in Descriptor /\ o.call # <<>> /\ o.docs \in {0, 1}
    /\ faults \in 0..MaxFaults
    /\ cleared \subseteq Store \X Descriptor

\* At the moment a Delete succeeds, each store holds nothing of its descriptor
\* but what another execution, or an abandoned request, wrote after the Delete
\* had been there - unless the Delete could not see that store (a failed look
\* reads as "absent"), or could never have seen it: the table of a collection
\* whose name is too long is looked up by a name it does not have.
DeleteClears ==
    [][ \A w \in Worker :
          run[w].task # NoTask /\ run'[w].task = NoTask
            /\ BodyOf(w).op = "Delete" /\ run[w].at > Len(Parts(w)) =>
              \A s \in Store :
                  Held(s)[BodyOf(w).of] > 0 =>
                      \/ s \in run[w].met \union run[w].blind
                      \/ s = "rows" /\ Len(generate_collection_name(BodyOf(w).of)) > NameLimit
      ]_vars

\* What a successful AddOrUpdate stored is there until a Delete - of this
\* descriptor or of one that shares its table or its user_id - took it away.
\* (A task about files may have had nothing to store.)
SuccessfulAddIsThere ==
    \A t \in TaskId :
        result[t] = "SUCCESS" /\ request[t].op = "AddOrUpdate" =>
            \A s \in Store :
                \/ Held(s)[request[t].of] > 0
                \/ <<s, request[t].of>> \in cleared
                \/ /\ request[t].of.source \in {"minio", "fileserver"}
                   /\ s = "prints" \/ faults > 0

\* Documents, memories and fingerprints are stored once per execution at most:
\* every further copy is due to a redelivery or to another task.
CopiesBounded ==
    \A d \in Descriptor :
        rows[d] <= runs[d] /\ memories[d] <= runs[d] /\ prints[d] <= runs[d]

-----------------------------------------------------------------------------
\* What executions, requests and stores rely on between them: the inductive
\* invariant of the proofs.

Part == [work : SUBSET {"raised", "missing"}, call : Seq(Adds \union Removes \union Looks)]
Execution ==
    [task : TaskId \union {NoTask}, at : Nat, part : Part, lost : BOOLEAN,
     met : SUBSET Store, blind : SUBSET Store]

OfTables(d) == d.source \in {"mysql", "postgres"}
LastPart(d) == IF OfTables(d) THEN 5 ELSE 3

\* The places where an execution can be: the part, and what is left of its request.
DeleteStage(e) ==
    \/ e.at = 1 /\ e.part.call \in {<<"exists_by_dd_info", "delete_by_dd_info">>, <<"delete_by_dd_info">>}
    \/ e.at = 2 /\ e.part.call \in {<<"adelete", "delete_all_memories">>, <<"delete_all_memories">>}
    \/ e.at = 3 /\ e.part.call = <<>>
AddStage(e, d) ==
    \/ e.at = 1 /\ e.part.call = <<>>
    \/ OfTables(d) /\ e.at = 2 /\ e.part.call = <<"create">>
    \/ OfTables(d) /\ e.at = 3 /\ e.part.call = <<>>
    \/ e.at = LastPart(d) - 1 /\ e.part.call = <<"acreate_collection">>
    \/ e.at = LastPart(d) /\ e.part.call \in {<<"aadd_texts", "add_memory">>, <<"add_memory">>}
    \/ e.at = LastPart(d) + 1 /\ e.part.call = <<>>
Behind(e, body) == e.at = IF body.op = "Delete" THEN 3 ELSE LastPart(body.of) + 1

ExecutionsInv ==
    /\ run \in [Worker -> Execution]
    /\ \A w \in Busy :
          /\ BodyOf(w) \in Body /\ result[run[w].task] # "PENDING"
          /\ IF BodyOf(w).op = "Delete" THEN DeleteStage(run[w]) ELSE AddStage(run[w], BodyOf(w).of)
          /\ run[w].part.call # <<>> \/ Behind(run[w], BodyOf(w)) => run[w].part.work = {}
          /\ run[w].lost => faults > 0

\* What clients may have left behind.
Calls ==
    {delete_fingerprints_by_dd_info, <<"delete_by_dd_info">>,
     delete_all_documents_and_memorys_by_collection_name, <<"delete_all_memories">>,
     create_fingerprint, create_collection_with_knowledge_pyramid,
     add_documents_with_knowledge_pyramid, <<"add_memory">>}
OrphansInv ==
    IsFiniteSet(orphans) /\ orphans \subseteq [call : Calls, of : Descriptor, docs : {0, 1}]

TasksInv ==
    \A t \in TaskId :
        /\ t \in queue => request[t] \in Body
        /\ result[t] # "PENDING" => request[t] \in Body
        /\ result[t] \in {"SUCCESS", "FAILURE"} => result[t] \in reported[t]
        /\ reported[t] # {} => result[t] # "PENDING"

\* A table is not dropped under its rows.
RowsHaveTable == \A d \in Descriptor : rows[d] > 0 => table_name(d) \in tables

AddTo(s) == CASE s = "rows" -> "aadd_texts" [] s = "memories" -> "add_memory" [] OTHER -> "create"

\* The execution has still to write to the store.
Due(e, d, s) ==
    \/ s = "prints" /\ OfTables(d) /\ e.at <= 2
    \/ s = "rows" /\ (e.at < LastPart(d) \/ e.part.call = <<"aadd_texts", "add_memory">>)
    \/ s = "memories" /\ e.at <= LastPart(d)

\* A store that was written holds something until a Delete empties it.
Stored(s, d) ==
    \/ Held(s)[d] > 0
    \/ <<s, d>> \in cleared
    \/ d.source \in {"minio", "fileserver"} /\ (s = "prints" \/ faults > 0)

Adding(w) == w \in Busy /\ BodyOf(w).op = "AddOrUpdate"
AddsInv ==
    \A w \in Worker, s \in Store :
        Adding(w) /\ ~Due(run[w], BodyOf(w).of, s) => Stored(s, BodyOf(w).of)

\* The execution of a Delete has been to the store.
BeenTo(e, s) ==
    \/ s = "prints" /\ e.at > 1
    \/ s = "rows" /\ (e.at > 2 \/ e.part.call = <<"delete_all_memories">>)
    \/ s = "memories" /\ e.at > 2

DeletesInv ==
    \A w \in Worker, s \in Store :
        w \in Busy /\ BodyOf(w).op = "Delete" /\ BeenTo(run[w], s) =>
            \/ Held(s)[BodyOf(w).of] = 0
            \/ s \in run[w].met \union run[w].blind
            \/ s = "rows" /\ Len(generate_collection_name(BodyOf(w).of)) > NameLimit

\* Whoever has still to write to a store is paid for by an execution begun.
DueWorkers(s, d) == {w \in Worker : Adding(w) /\ BodyOf(w).of = d /\ Due(run[w], d, s)}
DueOrphans(s, d) == {o \in orphans : o.of = d /\ \E i \in DOMAIN o.call : o.call[i] = AddTo(s)}
CopiesInv ==
    \A s \in Store, d \in Descriptor :
        Held(s)[d] + Cardinality(DueWorkers(s, d)) + Cardinality(DueOrphans(s, d)) <= runs[d]

IInv ==
    /\ TypeOK /\ ExecutionsInv /\ OrphansInv /\ TasksInv /\ RowsHaveTable
    /\ AddsInv /\ SuccessfulAddIsThere /\ DeletesInv /\ CopiesInv

\* The operator's view of its tasks (TaskBackend) is what the workers provide.
Backend == INSTANCE TaskBackend
             WITH taskReq <- request, taskState <- result, outcomes <- reported
ImplementsTaskBackend == Backend!TasksInit /\ [][Backend!TasksNext(Body)]_(Backend!taskVars)

\* Whatever happens to the workers, in the end every task that was published
\* has been reported, and not only as started.
EveryTaskReported ==
    <>[](\A t \in TaskId : request[t] # NoReq => reported[t] # {})

=============================================================================
