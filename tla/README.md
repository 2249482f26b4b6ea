# Verification of the Data Agent Container (DAC)

This directory holds TLA+ specifications of the DAC platform, configurations
that model-check them with TLC on small instances, and theorems about them that
the TLA+ proof system checks for every instance. Source paths are relative to
the repository; line numbers are in `PROJECT.json`, which also lists for every
definition the code it stands for, every run, and every hazard.

## 1. The system

DAC turns data sources into knowledge that agents answer questions from. It is
a set of services:

| Component | State it keeps | Operations | Talks to |
|---|---|---|---|
| **execution-engine** (Go operator), DataDescriptor controller | none of its own: the descriptor's `status` in the API server | `Reconcile`: `DoAddOrUpdate` (`handleDD`, `handleDDStatus`) or `DoDelete` | API server and its cache, celery-httpserver over HTTP with retries |
| execution-engine, DataAgentContainer controller | Service, config map, Deployment, `status` | create what is absent, check, report conditions | API server and its caches |
| **celery-httpserver** | none (Celery's broker and result backend) | `trigger_task`, `get_task_status` | Redis |
| **data-sinkers** (Celery workers) | none | `process_data`: extract, store fingerprint, documents, memories; delete them | sources, LLMs, data-services |
| **data-services** | vector tables, fingerprints, memories, conversation history | creation, deletion, search | PostgreSQL, mem0 |
| **agent-registry** | in-memory agent list, vector documents of the agents; Redis hash, heartbeat set and marker keys | watcher thread, cleanup thread, list and search | Redis, data-services |
| **expert-agent** | registration; the state of one run; the process's connection pools | heartbeat thread; `run`: steps, observers, rewordings; the SQL readers | Redis, LLMs, the user's databases, data-services |
| **orchestrator-agent** | registration; plan and task status of one question | `get_plan`, `a2a_tasks`, `stream`, `add_history`, `add_memory` | experts (A2A), LLMs, agent-registry, data-services |
| **routing-agent** | one list of agent cards for all requests | pick an orchestrator, relay its stream | agent-registry, orchestrators |
| **dac-apiserver** (Go) | users and runs in SQL | REST, chat (whole or streamed), `dactl` with a terminal interface | routing-agent (A2A), API server |
| model_sdk, vector_sdk | (none) | factories; `PGVector` | LLM and vector providers, PostgreSQL |

Two paths lead through the system. *Knowledge in*: a user applies a
DataDescriptor, the operator has a worker process each of its sources, the worker
fills the stores of data-services. *Answers out*: dactl asks dac-apiserver, which
streams from the routing agent, which relays an orchestrator, which plans and
asks the experts it found in the agent registry. A DataAgentContainer is what
deploys an agent.

### What is hard, and what makes each part correct

*DataDescriptor pipeline.* The operator reads a **cache** that lags behind the
API server, writes under **optimistic concurrency**, submits tasks through a
**non-idempotent POST that is retried**, polls results that **expire** and that
**redelivery** can change, may **crash** between any two of these, and has **no
finalizer**. Correct means: task ids in the status are this incarnation's own;
`Ready` is only said of a task that succeeded; the controller never rests on
something unfinished; a deletion is followed by a Delete task; duplicates of a
task are bounded by what went wrong.

*Workers and stores.* At-least-once execution over stores without transactions;
requests outlive the workers that sent them; Delete may overlap AddOrUpdate;
table names are neither injective nor kept in full. Correct means: a successful
task's data is there until a Delete takes it, a successful Delete leaves nothing
it could see, copies are bounded by executions, and the workers are the task
service that the operator relies on.

*Knowledge looked up.* An expert searches several collections, each in three reads
without a transaction, while workers write and drop them; a request that fails only
makes its collection's knowledge missing. Correct means: what had been stored when
the search began is found, unless a Delete or the request's own failure accounts for
it.

*Agent registry.* Three Redis structures changed by agents' pipelines,
heartbeat threads and the cleaner, observed through keyspace notifications that
may be missed. Correct means: a live agent ends up listed, a dead one not, and
list, hash and vector documents agree when nothing happens any more.

*Expert.* A chain of calls that may each raise, a query that is reworded in five
places, a state flag that is set before it is earned. Correct means: history,
task list and query stay together, a run ends early only over an answer, its
stream ends once and can be judged by its last chunk.

*SQL readers.* All runs of an expert process share one PostgreSQL pool, and each
call, when it ends, closes it: under readers that hold a connection, that wait
for one, or that are between two uses. The closing holds the registry's lock while
it waits for them. A schema is read in several statements outside a transaction
while others create and drop tables. Correct means: a call fails for a cause
outside itself only, no pool stays open without somebody to close it, what is
returned of the tables is whole, and nobody waits in a circle.

*Conversation.* Replanning that counts, forgets and repeats; a completion that is
published before the answer is stored; five hops of streams and channels, each of
which may break. Correct means: what arrives is what was said, a follow-up
question knows the stored answers, failures are planned again, and every
question ends.

*Agent containers.* Creation from caches that lag, over objects that an earlier
container of the name left behind. Correct means: the container comes to run,
its status says so, and the status is not written for ever.

*The terminal.* Two channels whose order is lost in a `select`, lines cut
anywhere, filters that look at whole lines. Correct means: the display does not
depend on the cuts, and the prompt comes back.

## 2. Plan

| Modules | Contents | State |
|---|---|---|
| `TaskBackend`, `DataDescriptor`, `MCDataDescriptor`, `DataDescriptorProofs` | task service (abstract), controller around it, instances, proofs | done |
| `DataServices`, `DataSinkers`, `KnowledgeSearch`, `MCKnowledgeSearch`, `DataSinkersProofs` | stores, workers over them, an expert's search beside them, the refinement of `TaskBackend`, instances, proofs | done |
| `AgentStore`, `AgentRegistry`, `MCAgentRegistry`, `AgentRegistryProofs` | Redis, heartbeat thread, cleaner, watcher and vector documents, instances, proofs | done |
| `AgentAnswers`, `ExpertAgent`, `ExpertAgentProofs` | what an agent's stream promises (abstract), the expert's run, the refinement, proofs | done |
| `AgentSearch`, `History`, `OrchestratorAgent`, `RoutingAgent`, `Conversation`, `MCConversation`, `ConversationProofs` | one layer each, composed by extension, instances, proofs | done |
| `AgentContainer`, `AgentContainerProofs` | controller, caches and garbage collector, proofs | done |
| `ChatTerminal`, `MCChatTerminal`, `ChatTerminalProofs` | reader goroutine, channels, filters, instances, proofs | done |
| `SqlReaders`, `MCSqlReaders`, `SqlReadersProofs` | the expert's PostgreSQL and MySQL readers with their pools, instances, proofs | done |

Abstract specifications: `TaskBackend` is what the operator's model is built on
and what `DataSinkers` is shown to implement; `AgentAnswers`, a safety promise, is what
`OrchestratorAgent` reads of an expert and what `ExpertAgent` is shown to
implement. So the compositions operator and workers, orchestrator and expert are
checked in halves that meet in an abstract module.

## 3. Modules

### TaskBackend

What celery-httpserver and Celery promise the operator. `Submit` is
`POST /trigger_task`, the value of `taskState` is what `GET /task_status/<id>`
answers. `Start`, `Finish`, `Redelivered` and `Expire` are the only ways the
stored state of an id changes: tasks are tracked when started, acknowledged
late (so they may run again after a failure), a stored SUCCESS is not
overwritten, and results expire, after which Celery says PENDING. `outcomes` is
everything ever reported for an id. An id with an outcome has been acknowledged,
so `Start` is not enabled for it: the task of an expired result is PENDING and
nobody executes it again, while a redelivery of a task under way still is
`Redelivered`.

The id of a new task is a fixed choice among the unused ones (`FreshId`): ids are
uuids that are only compared, so this loses no behaviour up to renaming.

### DataDescriptor

One descriptor name, over all its incarnations.

| Model | Code |
|---|---|
| `object`, `rev`, `watch`, `cache` | the stored descriptor, the last resource version, versions on their way to the informer, the informer's copy |
| `queued`, `timer` | the controller's workqueue for this key: present now, or after `RequeueAfter` |
| `pc`, `instance`, `todo`, `taskIDs`, `results`, `attempt` | locals of the one running `Reconcile`: which loop it is in, the copy it works on, the sources left, `handleDD`'s map, `handleDDStatus`'s new statuses, the HTTP retry counter |
| `Reconcile` | `Get`, then `DoAddOrUpdate` or, on NotFound, `DoDelete` |
| `KeepTask`, `TriggerSucceeds`, `TriggerTimesOut`, `TriggerFails` | one iteration of `handleDD`, or `handleDDDelete`, with the outcome of `TriggerTask`; an error may hide an accepted request |
| `HandleDDDone` | from `handleDD` to `handleDDStatus` |
| `PollAnswered`, `PollFails` | one iteration of the loop over `checkSourceStatus` |
| `HandleDDStatus`, `StatusUpdateFails` | the comparison, `Status().Update` (accepted only for the current version) and the requeue decision of `handleDDStatus`, `Reconcile` and `hasPendingSources` |
| `Restart` | the operator dies and lists what exists |
| `Create`, `Edit`, `Delete` | users |

Abstractions. A source is a number; its content travels unread. A condition is
its type: messages are functions of the phases, times are not compared. The
phases RETRY, REVOKED and OTHERS are absent because no task of this system
reports their states; `checkDataSourceConnectivity` is reached only without a
task id, which `HasTask` in the invariant excludes. A `Get` that fails for
another reason than NotFound cannot happen on a cache. A timer firing while
another is outstanding is one timer, as in the workqueue. The order of the
sources in a spec is their numeric order.

Definitions marked "Variant" are plausible mistakes. Nothing uses them; each is
substituted for the definition after it to see that a property notices.

### AgentStore

The three structures in Redis and the notifications their changes send:
`Register`, `Remove` and `Beat` are the pipelines, which redis-py executes as
transactions. A card is represented by the process that wrote it. A heartbeat
is `fresh` or `stale` (older than 30 seconds) instead of a time.

### AgentRegistry

| Model | Code |
|---|---|
| `proc`, `heartbeat` | an agent process and its heartbeat thread |
| `Start` | `main`: register, and start the thread only if that succeeded |
| `HeartbeatCheck`, `HeartbeatRecover`, `HeartbeatBeat` | the requests of one round; other writers come between them |
| `Terminate`, `Unregister`, `Exit` | SIGTERM; the signal handler's and then `atexit`'s `graceful_shutdown`; death, up to which the heartbeat thread goes on |
| `agents`, `copies` | `self.agents`; the copy that a thread interrupted while rewriting it holds |
| `Receive`, `UpdateAgents`, `Callback` | the listener: message and `get_agent`; `_update_agents_on_event`; `change_logger`, with `add_agent_to_vector_db` and `remove_agent_from_vector_db` and the routes they call |
| `Connect`, `Disconnect`, `Restart` | (re)subscription, which loads nothing; the connection; a new registry process, which does |
| `StartPass`, `CheckUrl`, `RemoveExpired`, `UpdateList` | `cleanup_expired`: list urls, one `zscore` each, the batch, the list |
| `docs` | documents by `agent_url` in the vector store |
| actions named `...Fails` | an exception in a request, executed or not where that can differ |

Abstractions. Two processes with one url are an old and a new pod. Urls have
feeds of their own since nobody observes the order between two urls. `hkeys` and
`zrange` are one step: an url that goes between them only makes the pass abort,
as it does when it goes after them. `Age` waits for a pass that has still to
check the url, because the pass compares with the time it began at. That the
web server raises a captured signal again after winding down is its documented
behaviour. Redis losing its data is a fault, since no configuration promises
persistence.

### DataServices, DataSinkers

`DataServices` are the stores that hold what is known about a descriptor and the
requests that write them; `DataSinkers` extends it with the workers.

| Model | Code |
|---|---|
| `tables`, `rows`, `memories`, `prints` | the pgvector tables, their rows per descriptor, mem0, the fingerprint table |
| `generate_collection_name`, `table_name` | a name is the sequence of its parts between `-`; joining namespace and name turns each `-` into `_`, so the concatenation is what the code computes; PostgreSQL keeps `NameLimit` parts of it |
| `Effect`, `Rest`, `Refused` | one transaction of a request: what it does, what is left, when it raises |
| `process_data` | the parts of a task: work in the worker, with what its readers and analyzers make of a failure (raised, or caught and something missing), and requests |
| `Take`, `Read`, `Serve`, `CallRefused`, `Finish` | delivery; a part in the worker; a step in the service; a 500; success |
| `PartFails`, `CallAbandoned`, `Crash`, `VisibilityTimeout`, `Serve(w, FALSE)` | faults: an exception; a time-out or a killed child process, after which the service goes on with the request as an orphan; a dead worker; a delivery that is repeated; a look-up whose error reads as "absent" |

Abstractions. A batch of documents is one unit, so are the memories of a call.
Of a collection's name only equality and length matter. The extractors' branches
for sampling and for all files at once are taken only when configured and make
the same requests; the mode `sql_process_mode="dictionary"` is hard-coded
(`data-sinkers/README.md:21` calls it an environment variable), so the batch mode
is dead code and left out.

### KnowledgeSearch

Extends `DataSinkers` with one expert that looks up what is known about its
descriptors, again and again. `SearchNext` is a step of the pipeline or one of the
search.

| Model | Code |
|---|---|
| `reading`, `nth` | which of the three reads of `search_documents_with_knowledge_pyramid` comes next, for which collection of `search_multiple_collections` |
| `hits`, `content` | what the request under way has found; `all_content` |
| `get_knowledge`, `GiveKnowledge` | `ExpertAgent.get_knowledge` begins; the step goes on with what it returned |
| `asearch_by_vector`, `asearch_by_full_text`, `search_memories` | the reads: two statements on the table, one request to mem0 |
| `SearchRefused`, `SearchFails` | a 500 because there is no such table; anything else that goes wrong with a request, caught by `search_multiple_collections` |
| `added`, `taken`, `failed` | history variables: what was stored when the search began, what a Delete has taken of it, whose request failed |

Abstractions. The documents and memories of a descriptor stand for those that the
query is about and that pass limits, scores and thresholds: ranking is arithmetic on
scores that only the models know. Which of them the words match is left open. A
document found twice is found.

### AgentAnswers, ExpertAgent

`AgentAnswers` is what an agent promises the reader of its stream. `ExpertAgent`
is one run of an expert: `at` names the awaited call that the chain has come to,
a query is named by the step that worded it, and the answer of the model is
abstracted to what the code branches on (a conclusion, an answer and a reworded
query that may be absent, empty or there). Each of the calls in `Fallible` may
raise; what the handlers do then is `StepFailed` and `Rephrase`, in which the
model is called again and may raise again. `Querying` marks the calls that read
the user's database, which may never return. `direct_return` (a constant answer
without a model) and the non-streaming mode (not implemented in the code) are left
out.

### SqlReaders

The readers of one expert process, as its runs call them: to execute the model's
SQL, to list the values of the dimensions it chose, or to describe the tables a
question is about.

| Model | Code |
|---|---|
| `registry`, `lock` | `_pools` and `_lock` of `AsyncPostgresPoolManager` |
| `phase`, `idle`, `awaited` | a pool: open, being closed, its connections cut, closed; the connections in its queue; the users whose release the closing still awaits |
| `at`, `op`, `pool`, `conn` | which await a run's call has come to, in which method, with which pool and connection |
| `stage`, `todo`, `entries` | what the method is fetching, the tables left, what it has of each |
| `get_pool`, `create_pool`, `initialize` | `get_pool` under the lock; a MySQL reader's `initialize` |
| `Acquire`, `Release`, `ReleaseFailing` | the two ends of `async with pool.acquire()`, whether its body succeeded or raised |
| `PostgresTables` ... `SampleTable`, `FetchFails` | the statements of `execute_query`, `get_table_schema`, `get_table_relationships`, `get_sample_data`, and their failure |
| `close_all`, `CloseConnections`, `Shut` | `__aexit__`, which runs `close_all` over the registry; `close` is MySQL's |
| `DescribeNext`, `process_dimensions`, `EndTask` | the callers in `server.py` |
| `Alter` | others create and drop tables |

Abstractions. A process serves the one descriptor that
`analyze_descriptor_types` picks, so the registry has one key. The behaviour of
asyncpg's pool (`external` in the map) is what its documentation and the way it is
called say: a closing pool refuses new users, waits once for each connection in
use, and closes them all; a waiter that gets its turn afterwards connects anew.
Rows are abstracted to the tables they are about. How the readers classify
relationships and render markdown is computation on rows that were read.

### AgentSearch, History, OrchestratorAgent, RoutingAgent, Conversation

`AgentSearch` has no state: it says how the search for agents can end, layer by
layer (data-services, the registry's `VectorClient`, its route, the agents'
`AgentRegistryClient`), as a set of outcomes. Which agents are found is data here;
that the documents are those of the registered agents is `SearchMatches` of
`AgentRegistry`. The others extend each other in this order.

| Model | Code |
|---|---|
| `history`, `memories` | the rows of data-services; what mem0 was given |
| `orch[t]`, `knew[t]` | the orchestrator's agent object for turn t; the rows and memories that the plan or the answer under way is made with |
| `list_agent_cards`, `make_plan`, `a2a_tasks` | planning and execution, with `_update_task_status`, replanning and its counter |
| `recall`, `stream`, `add_history`, `add_memory` | `stream`: memories and history, the answer chunk by chunk, completion, then `add_history` and `add_memory` |
| `up[t]`, `down[t]` | the event streams orchestrator to router and router to apiserver |
| `routing[t]`, `get_plan`, `relay` | the routing agent |
| `chat[t]`, `convertStreamResponse`, `handleStreaming`, `handleNonStreaming` | the request in dac-apiserver: goroutine, channel, handler |
| `AgentFault`, `LinkBreaks`, `ClientLeft`, `ChatRefused` | a call that raises or whose error is masked; a broken connection; a client that goes; a refusal |

An expert's stream, if it ends, ends in one of the ways that `AgentAnswers` allows
(`AgentEnd`), which is how the two halves meet. It may not end: `AwaitsExpert` is
where the orchestrator is then, and `TimeOut`, a case of `LinkBreaks`, is what
becomes of the question.

Abstractions. One user and one orchestrator agent. What is said of a plan and its
tasks is one chunk. Loading the shared list of cards and searching it are one
step of the routing agent, because it awaits nothing in between; that is also why
concurrent requests cannot see each other's list. Two answers stored within one
second, whose timestamps do not order them, are not modelled; rows are in the
order of their creation. What mem0 makes of a turn is data. An agent of this
system never publishes `failed`, and never a last chunk.

### AgentContainer

| Model | Code |
|---|---|
| `container`, `objects` | the container with its status; for each object of its name, whose it is |
| `seen`, `queued`, `delayed` | the informer caches, the workqueue, `RequeueAfter` |
| `worker` | the reconciliation under way and the copy it works on |
| `CreateService`, `createConfigMapForSkills`, `CreateDeployment` | creation of what the cache does not have; an object that exists is an error |
| `checkDACStatus`, `handleDACStatus` | the check; the conditions, their order, the comparison without times, the update of an unchanged version |
| `Collect` | the garbage collector, which deletes what an earlier container of the name owned |

Abstractions. A selection of descriptors is the version of the specification that
made it. `present` says whether the descriptors and config maps it names exist.
The creation condition and the outcome of the first check have the same second,
since they are made in one call. An update that changes times only toggles
`writes`, because it too is a new resource version. `DescConditionsByTime` is a
stable sort given by where each condition belongs. Objects vanish only through
the garbage collector. `Resync`, which happens every ten hours, happens only when
nothing else is due. `missed` records that an object went away since the last
reconciliation began: nothing watches the objects.

### ChatTerminal

`dactl chat`: `reader` is the goroutine that turns the event stream into chunks,
`chunkCh` and `errCh` its two channels; `state`, `err` and `m` are fields of the
interface's model, `m` those that the filters read and write. A text is a
sequence of tokens; the first token of a line is its kind, which is all that the
filters look at. Left out: widths, styles, white space, carriage returns, the "..."
lines, the history of the prompt, quitting.

### The proof modules

`DataDescriptorProofs`, `DataSinkersProofs`, `AgentRegistryProofs`,
`ExpertAgentProofs`, `SqlReadersProofs`, `ConversationProofs`,
`AgentContainerProofs` and `ChatTerminalProofs` each extend the module they are about; see section 5. The
invariants the proofs rest on are defined in the modules themselves, as `IInv`, so
that the runs can check them.

## 4. Runs

Deadlock is not checked where the system may rest: a Ready descriptor with no
user, idle workers, a conversation whose questions are answered, a container
nobody edits. It is checked in the registry (a cleaner never stops), in the
terminal, in the expert, where `Done` marks the end of the run, and in the readers,
where it marks that every run has ended or waits for a pool that is gone.

| Run | Module, instance | Shows |
|---|---|---|
| `descriptor_faults` | 2 sources, 3 ids, any 2 faults of 6 kinds, 1 user operation | `NeverAsleepUnready` where one source is done and the other not; `ReadyMeansProcessed`; `ReadyIsKept`; `IInv`, the invariant of the proofs |
| `descriptor_liveness` | 1 source, 6 ids, 2 HTTP attempts, 1 HTTP, poll or task fault or expired result, 2 user operations, timely informer, fairness | `BoundedDuplication`, `DeletionNotForgotten`; `RecordedTaskKept`: an id is only dropped after its task failed; `EventuallyReady`, `EventuallyCleaned` |
| `registry_rolling_update` | `MCAgentRegistry`: 2 pods on 1 url, 1 registry, no fault, fairness | `SearchMatches` and `LiveAgentsStayRegistered` while the new pod starts and the old one leaves |
| `registry_liveness` | 1 agent, 2 starts, 1 fault of any of 9 kinds, fairness | `LiveAgentsStayRegistered`, `DeadAgentsGo`: Redis converges whatever was lost; `RedisConsistent`: no url can block the cleaner for ever; `NoGhosts` |
| `registry_list_complete` | 1 agent, 1 crash | violates `ListComplete`, see Findings |
| `pipeline` | `MCKnowledgeSearch`: 2 tasks, 2 workers, 2 descriptors that share a table, one of them by a name that is cut, 1 fault, 1 expert that searches | `FindsWhatWasAdded`; `DeleteClears`, `SuccessfulAddIsThere`, `CopiesBounded`; `ImplementsTaskBackend`: the workers are the operator's task service; `EveryTaskReported` |
| `expert` | `ExpertAgent`: 3 steps, every answer of the model, any call may raise | `HistoryKeepsQuery`, `EndsEarlyOverAnAnswer`; `RunEnds`: a run ends unless a query of the user's database never returns; `ImplementsAgentAnswers` |
| `conversation` | `MCConversation`: 2 questions, 1 replanning, 3 plans, 1 fault, both kinds of client | `AnswerRelayed`, `FollowUpSeesStoredAnswers`, `HistoryOfWholeAnswers`, `FailuresReplanned`, `QuestionEnds` |
| `chat_session` | 2 questions, no fault, the terminal client | violates `SessionStaysInOneRun`, see Findings |
| `containers` | `AgentContainer`: 2 user operations, 1 failed call or crash, an earlier container's deployment | `StatusConsistent`, `EventuallyRunning`, `StatusSettles` |
| `terminal` | `MCChatTerminal`: answers of up to 3 chunks, 1 fault | `DisplayIsOfLines`, `LostOnlyAtTheEnd`, `TerminalReady` |
| `sql_calls` | `MCSqlReaders`: 3 runs, 1 of which describes a table or lists values and may meet faults, pool of 1 connection, 1 table that comes and goes, both databases | `FailureHasACause`, `PoolsAreCleanedUp`, `AnswersComplete`, `EveryCallEnds` |

`IInv` is the inductive invariant of a module's proofs, and the type invariant is a
part of it. `descriptor_faults` checks it; in the other modules it was checked with
TLC on the same instances before it was proved.

Bounds. In the controller `MaxUserOps` and `MaxFaults` bound the only unbounded
inputs; `rev` follows them because the controller stores a version only when a
phase changes. Two user operations give every race between two versions; one is
enough where the faults are what races. Two incarnations (create, delete, create)
need three: `RecordedTaskIsOwn`, which is about them, is proved. `TaskId`
bounds the submissions: where it is reached `Submit` is disabled, which can only
cut behaviours off. The safety runs reach all the interesting orders with three
ids (recorded, duplicate, Delete, or one for each source and a duplicate);
`descriptor_liveness` has enough ids that the bound is never reached in a state
that matters (`BoundedDuplication` allows at most five live tasks there).
`Timely` states that the ten seconds of `RequeueAfter` are longer than the
informer's lag; it is assumed only where a bound on duplicates or progress
depends on it.

In the registry every notification follows a start, a shutdown or an expiry, which
needs a death or a `stall`. Two starts give the shortest life that follows another
one, which is what every race here needs. The instances have one url; agents on
different urls meet only in the cleaner's batches, and `RedisConsistent`, `NoGhosts`
and `SearchMatches` are proved for any number of agents, registries and faults, which is
why one fault suffices in `registry_liveness`.

In `pipeline` two tasks are every pair of operations on every pair of the
descriptors: add and delete of the same, or of two that share a table and differ in
everything else, one about tables and one about files. Two workers and one fault
give a second execution of either task beside the other. The expert knows one
descriptor; with both, the run finds no error either, but takes more than five
minutes. Descriptors that share a name, mysql and fileserver sources and further
collections are covered by the proof. `MaxSteps` 3 in `expert` gives a first step, one in the middle,
and a last one. In `conversation` a second question is what a follow-up needs, one
replanning is the difference between a plan that may be repeated and one that may
not, capacity 1 makes every producer wait, and the limits of the history differ
between plan and answer as they do in the code. `AnswerLimit` is never reached
with two questions: the second one has at most one row to take. Plans with one id
twice are in the model and not in the run; `FailuresReplanned` is not claimed of
them. In `containers` two operations are apply and edit, apply and delete, or an
apply and a dependency that appears; delete-and-recreate is an apply over the
remains of the initial state. In `terminal`, three chunks of up to four tokens cut a line in any
place and still leave a line after it; the channel holds two (ten in the code), so
the goroutine blocks on it. In `sql_calls` three runs on one connection are what it
takes for a reader to get its turn while the pool closes: one holds the connection,
one waits, one closes. A run that makes several calls can close the pool of another
and need it again. One table that comes and goes is there, gone, or gone in between.
Several readers stranded by one closing, and a second table half of which was read,
are covered by the proof only.

Fairness. In `FairSpec` of the controller: weak fairness of the informer, the
timer, every controller step that needs no luck, and each task's execution. The
workqueue hands out every key, `RequeueAfter` expires, and workers consume the
queue; no fairness is assumed of users, of faults, or of a particular outcome of
a request beyond that it cannot time out for ever (faults are bounded). Fairness
of an execution is of no use to a task whose result has expired; `EventuallyReady`
excuses exactly the descriptor for which such a task is recorded, and without the
excuse TLC finds it violated.
In `AgentRegistry` it is weak fairness of the heartbeat thread, of the listener and
of the cleaner, all of them endless loops, of the end of a process that was told
to stop, and strong fairness of the passing of 30 seconds, which a running pass
only postpones. No agent has to start, and none has to stop. In `DataSinkers` each
worker goes on, and nothing is assumed of clients, of abandoned requests or of
searches. In `ExpertAgent` the run goes on where it awaits the model or data-services,
whose clients have time-outs; nothing is assumed of a query of the user's database
(`Querying`), whose connection is waited for without one (`postgres_reader.py:94`),
so `RunEnds` excepts a run that is left there, and `AgentAnswers` promises no end.
In `Conversation` it is one condition: while the server or an agent can do
something for a turn, one of them does, except that the orchestrator need not go on
while it waits for an expert (`Stalls`). What ends such a question is the time-out
that dac-apiserver gives its a2a client (`NewClient`, `client.go:26`), a fair
`TimeOut`; without it TLC finds `QuestionEnds` violated. An expert that never
answers is one of the `MaxFaults` faults. Each turn takes finitely many
steps, so no turn can starve another, and finer conditions would say the same. In
`AgentContainer` the worker with its queue goes on, and so do the caches with the
garbage collector; which of two things that are due comes first is left open. In
`ChatTerminal` the goroutine and the interface's loop go on; the user need not
ask. In `SqlReaders` each run goes on where it can: the event loop resumes what is
ready, commands and connecting have time-outs, and the locks and queues hand on
what is released. Nothing is assumed of a reader in the queue of a pool whose
connections are gone, because nobody wakes it.

## 5. Proofs

`DataDescriptorProofs` proves, for any number of sources, ids, retries, faults
and user operations, and from the two named assumptions of `DataDescriptor`
only (types of the constants, `NoTask` and `NoReq` being no id and no request):

| Theorem | Property |
|---|---|
| `Invariant` | `[]IInv` |
| `TypeCorrectness` | `[]TypeOK` |
| `RecordedTasksAreOwn` | `[]RecordedTaskIsOwn` |
| `ReadyIsProcessed` | `[]ReadyMeansProcessed` |
| `AlwaysAwake` | `[]NeverAsleepUnready` |
| `DeletionFollows` | `[]DeletionNotForgotten` |
| `RecordedTasksAreKept` | `RecordedTaskKept`, an action property |
| `ReadyStays` | `ReadyIsKept`, an action property |
| `DuplicationInvariant` | `[](IInv /\ DuplicationInv)` |
| `DuplicationBounded` | `[]BoundedDuplication` |

None of the properties is inductive alone. `IInv` adds what they rest on:

- `VersionsInv`: every copy (stored, undelivered, cached, being reconciled) is a
  version the API server once stored; a copy with the stored resource version
  *is* the stored object; its ids were submitted for its own incarnation, and
  where it says Ready its task has reported SUCCESS.
  This is what makes `Status().Update` a compare-and-swap in `RecordedTaskKept`.
- `ReconcileInv`: what the two loops have established for the sources behind
  them. Its `HasTask` is also why a poll always has an id, which `TypeOK` needs.
- `OutcomesInv`: a stored final state has been reported, and while results do not
  expire a reported SUCCESS stays stored. The first half links a poll to
  `ReadyMeansProcessed`, the second to `ReadyIsKept`.
- `WakeInv`: the last undelivered version is the stored one, and a reconcile
  that nothing has queued again works on the cache's copy. So a reconcile that
  ends with nothing queued and nothing undelivered has looked at the stored
  object, which gives `NeverAsleepUnready` and `DeletionNotForgotten`.

`StepGrows` (no step takes back a request or an outcome) is cited wherever one of
these parts must survive a step of another actor.

`BoundedDuplication` counts tasks, and a task may be submitted long after the fault
that caused it. So the proof keeps accounts. `Score(s)` is the number of live tasks
of source `s`, plus the submissions that are `Due`, plus two if a recorded task is
`Doomed`; `PaidFor` says that it stays below `2 * (faults + userOps)`. What is due:

- one submission for every bare version (one that lists `s` without a task id) that
  a reconcile, the queue or the informer still holds (`Held`). Submitting moves it
  from one side of the account to the other;
- one more, at most, while the *stored* version is bare and a reconcile of an older
  one is under way, because its conflict or the timer makes the controller look
  once more. Two where that reconcile can leave both the queue and the timer set.

Every action of the controller, the informer and the timer leaves the score where it
is or lowers it; a fault or a user operation raises it by two at most. A failed task
is paid for when it fails: forgetting its id stores a bare version, whose two
submissions the doomed task has already accounted for. A creation starts a new
account, which is why the incarnation of a task matters (`TasksInv`). `CopiesInv`
says that a stored version that has been delivered is not met again behind an
undelivered one, so an accepted status update finds nothing undelivered and the
cache up to date. `StillInv` says that nothing happens before somebody does
something; without it the first creation would be one submission short. `Timely` is
used in one place: `RequeueTimer` finds the cache up to date. TLC finds no
violation of `DuplicationInv` when it stands in the place of `BoundedDuplication`
in `DescriptorLiveness.cfg`. The lemmas `InformerCosts`, `TimerCosts`, ... state the
price of each action.

`AgentRegistryProofs` proves, for any processes, urls, registries, faults and
starts, from `AgentStoreAssumption` (every process has an url; `NoAgent` is no
process; there is a registry) and `AgentRegistryAssumption` (`NoJob` is no job):

| Theorem | Property |
|---|---|
| `RegistryInvariant` | `[]IInv` |
| `RegistryTypes` | `[]TypeOK` |
| `RedisAgrees` | `[]RedisConsistent` |
| `ListHasNoGhosts` | `[]NoGhosts` |
| `SearchMatchesRegistry` | `[]SearchMatches` |

`RedisConsistent` is inductive with the types. `NoGhosts` speaks of registries
at rest only and says nothing about the way there; `RemovalsInv` does: for an
url that is not registered, what a registry has still to read ends with its
removal, or the removal is in the listener's hands, or the url is off the list
and nobody is going to put it back. The step that needs `RedisConsistent` is the
removal of an url: it is notified because its marker exists. The step in which
the cleaner changes the list needs nothing, because it only takes urls off; that
it may take off too many is the finding on the registry. `SteadyFaults` and
`AllNotified` look at the faults that have happened so far (`happened`), so the
properties hold in every execution up to the fault that breaks their premise,
and `FaultsLast` (what happened stays happened) is what carries the premise
through an inductive step.

`SearchMatches` needs more than that each notification is handled: any number of
registries write the documents of one url, late, and with what they read when they
got to it. `SearchInv` says of a url that the last news each registry has of it is
how it is registered now, and that its documents are right or some registry has
still to make them so. A registry that writes an outdated card, or deletes a new
one, is never the last: whoever registered or removed the url afterwards sent news
that this registry, too, has still to handle (`LastNews`). That there is a registry
at all is the assumption `Replica # {}`.

`DataSinkersProofs`, for any workers, tasks, descriptors, name limit and faults,
from `NameAssumption` (names are not empty), `SinkersAssumption` and
`BodyAssumption` (types of the constants; `NoReq` is no request):

| Theorem | Property |
|---|---|
| `PipelineInvariant` | `[]IInv` |
| `AddedUntilDeleted` | `[]SuccessfulAddIsThere` |
| `CopiesPaidFor` | `[]CopiesBounded` |
| `DeletesWhatItSaw` | `DeleteClears`, an action property |
| `TasksAsPromised` | `ImplementsTaskBackend`, the refinement |
| `SearchesDisturbNothing` | `SearchSpec` implies `Spec`: all of the above holds beside searches |
| `SearchInvariant` | `[](IInv /\ SearchIInv)` |
| `KnowledgeFound` | `[]FindsWhatWasAdded`, from `KnownAssumption` too (the agent has descriptors) |

`ExecutionsInv` lists the places an execution can be at: which parts are behind
it, and what is left of the request under way. Over these places the other parts
say what has come of them. `AddsInv`: a store that an execution has written and not
yet left holds the descriptor, unless it was deleted since. `DeletesInv`: where a
Delete has been, nothing is left but what it could not see. `CopiesInv` counts, for
a store, the copies it holds, the workers and the abandoned requests that have still
to write one; the sum never exceeds the executions begun, because a write moves a
unit from one term to another. The finite-set lemmas at the head of the module are
there for this sum. `TasksInv` is what the refinement needs: whoever is running is
a task that was requested, and a final result has been reported.

`KnowledgeFound` is about three reads at three moments. What makes each of them find
what it should is the invariant of the pipeline at that moment (`SuccessfulAddIsThere`,
and that a table with rows exists); that they are about the same descriptors is
`SuccessKept` (a success is never taken back) and `ExcusedLasts` (nor is an excuse).
`SearchIInv` carries over what was read: in the collections behind the search
(`SearchedInv`) and in the request under way (`HitsInv`).

`ExpertAgentProofs`, for any number of steps, from `ExpertAssumption` (there is a
step):

| Theorem | Property |
|---|---|
| `RunInvariant` | `[]IInv` |
| `HistoryKeepsItsQuery` | `[]HistoryKeepsQuery` |
| `TaskDescribesItsQuery` | `[]TaskDescribesQuery`, which no run lists |
| `EndsEarly` | `EndsEarlyOverAnAnswer`, an action property |
| `StreamAsPromised` | `ImplementsAgentAnswers`, the refinement |

`StepsCounted` and `SavedBefore` relate the counters to the place the chain has come
to, `Verdicts` says what the model's answer and the run's state can be there, and
`Finishing` why the last chunk of a run that is finished is an answer.

`SqlReadersProofs`, for any finite set of runs, any tables, pool size, selections
and faults, from `ReadersAssumption` (types of the constants; a pool has a
connection; the model may select no table):

| Theorem | Property |
|---|---|
| `ReadersInvariant` | `[]IInv` |
| `ReadersTypes` | `[]TypeOK` |
| `FailuresHaveCauses` | `[]FailureHasACause` |
| `NoPoolIsLeftOpen` | `[]PoolsAreCleanedUp` |
| `DescriptionsAreWhole` | `[]AnswersComplete` |

`Places` ties where a run is to what it holds: a pool, a connection, the lock.
`PoolsInUse` ties a pool's phase to whoever closes it, and accounts for its
connections: those in the queue and those in use are `PoolSize`, until it is
closed. This is why a waiter of an open pool has a user to wait for, and so why a
reader is stranded only after another's closing (`StrandedByCleanup`). `Causes` says
what a call that will fail, but has not yet, can blame. `Reads` says what has been
read of each table as against the tables that were there all the while
(`throughout`) or at some time (`ever`) since the call began. A step either fetches,
or ends a use, or moves pools, or moves on to the next call, and the lemmas are
about these four, with one lemma per action below them.

`ConversationProofs`, for any number of turns, plans, limits, capacities and
faults, from `OrchestratorAssumption` and `ConversationAssumption` (types of the
constants):

| Theorem | Property |
|---|---|
| `ConversationInvariant` | `[]IInv` |
| `AnswersRelayed` | `[]AnswerRelayed` |
| `WholeAnswers` | `[]HistoryOfWholeAnswers` |
| `FollowUps` | `[]FollowUpSeesStoredAnswers` |
| `Replanned` | `FailuresReplanned`, an action property |

`TurnsInv` treats a turn as one pipeline: `Fits` says in which states its five hops
can be together, `InOrder` that what the client has, what is in the two streams
and the channel, and what the orchestrator has still to publish are one text.
`TurnOrder` is what keeps turns apart: the next question is asked when the
client has ended the one before. `LimitsInv` (a query finds as many rows as there
are, up to its limit) turns "all rows" into "as many as are taken", and `SessionInv`
says what a client of whole answers keeps and the terminal does not.

`AgentContainerProofs`, for any number of user operations and faults, with and
without skills:

| Theorem | Property |
|---|---|
| `ContainerInvariant` | `[]IInv` |
| `ContainerTypes` | `[]TypeOK` |
| `StatusStaysConsistent` | `[]StatusConsistent` |

The lemmas before them are about the sort: it returns every condition once
(`Place` is a bijection), so a status with one condition of each type keeps it
through sorting, replacing and appending.

`ChatTerminalProofs`, for any texts, capacity, number of chunks and faults:

| Theorem | Property |
|---|---|
| `TerminalInvariant` | `[]IInv` |
| `ChunksLostOnlyAtTheEnd` | `[]LostOnlyAtTheEnd` |

The invariant says that the channel holds the window of `sent` that follows what
was handled (`shown`), and that a window is given up only when the goroutine has
returned.

The theorems named after types, `RecordedTasksAreOwn` and `TaskDescribesItsQuery`
state what no run lists by itself.

Model-checked only: `DisplayIsOfLines` (it compares two
folds over the same tokens: an induction over data), all liveness properties
(`EventuallyReady`, `EventuallyCleaned`, `LiveAgentsStayRegistered`, `DeadAgentsGo`,
`EveryTaskReported`, `RunEnds`, `QuestionEnds`, `EventuallyRunning`, `StatusSettles`,
`TerminalReady`, `EveryCallEnds`), which are out of the prover's reach. None of these modules declares a recursive operator.

## 6. Findings

`ListComplete`: the list update of `cleanup_expired`, "(ensuring consistency)",
runs after the batch and from the result of the checks before it. An agent that
registered again in between has been listed by the listener thread and is
dropped; no later notification adds it while it stays registered.

`SessionStaysInOneRun`: `dactl chat` advertises a multi-turn context and makes up
a run id. `GetOrCreateRun` does not know that id and creates a run per question,
and the stream's first chunk repeats the client's id, so the client never learns
the real one. Each turn is planned and answered without the turns before it.

Not worth a run of its own: the comment on `hasPendingSources`
(`datadescriptor_controller.go:99`) says that for FAILURE "no further checks will
be performed". `checkSourceStatus` returns a failed source with an error, so
`Reconcile` requeues before `hasPendingSources` is asked, and without its task id,
so the next reconcile submits it again. Failed sources are retried every ten
seconds for ever; `EventuallyReady` depends on it.

Behaviours the models have because the code does, and that the properties are
therefore not stated for:

- *Controller.* A crash around a deletion loses the Delete task; an expired result
  turns a Ready source PENDING for good once it is looked at again, the one excuse of
  `EventuallyReady`; a duplicate
  task's id is known to nobody. A source whose content changed keeps its task id
  by name and is not processed again (the content is not modelled).
- *Registry.* An agent that registers or beats between the cleaner's `zscore` and
  its batch is deleted all the same; it comes back (`LiveAgentsStayRegistered`),
  after up to 30 seconds in which nobody finds it. A registry that loses its
  subscription, even for the moment between loading the list and subscribing,
  never learns what it missed; a listed url keeps its old card when it is
  registered with a new one; an agent whose first registration fails never starts
  its heartbeat thread and never registers.
- *Workers.* A Delete that ran beside an AddOrUpdate, or beside a request nobody
  waits for any more, leaves what was written behind its back. Deleting one
  descriptor deletes the documents of every other one whose table's name is the
  same. A Delete whose look-up fails reports success and deletes nothing there. A
  table whose name was cut is never found again, so no Delete drops it. Files that
  cannot be read are left out of a task that succeeds.
- *Searches.* A table that is dropped between the reads of a request makes the request
  fail, and the memories under the same name are then not found either. What could
  not be searched is missing from the prompt without a word about it. A search for
  agents that fails, on the other hand, fails the question.
- *Expert.* After an SQL error the query is reworded, and then the empty result is
  judged all the same; the verdict "terminate" ends the run as a success. A second
  exception, in the handler of the first, leaves `run`. A run that waits for a
  connection of a pool that was closed never ends, nor does its stream.
- *SQL readers.* Any PostgreSQL call that ends closes the pool that all share: others
  lose their connection in mid-statement or are refused at the next table, and a
  reader in the pool's queue may wait for ever. A closing that raises leaves the
  closed pool registered, and the next call is given it and fails; its own end
  clears the registry. A table that is dropped between the list and its columns is
  described without columns.
- *Conversation.* The question of an orchestrator that waits for an expert which
  never answers ends, as if it had been answered, when dac-apiserver's client times
  out; the orchestrator may wait on. In a plan with one id twice, `_update_task_status` writes the
  first task, so the failure of one can be overwritten and is never planned again.
  The completion is published before the answer is stored, so a quick follow-up
  may miss it. When a connection broke, an earlier answer may still be composed
  while the next question is stored, and is then composed with that. A stream that
  broke ends with `finish_reason` "stop" like one that completed. A goroutine that
  nobody reads from any more stays blocked.
- *Containers.* Failed, recorded when a lagging cache hid what was just created,
  stays True beside Available=True. After delete-and-recreate, what the old
  container owned is taken for the new one's until the collector takes it away,
  and then nothing starts a reconciliation. The active descriptors follow every
  edit, the deployment that exists never does. A missing descriptor or config map
  is an error before any status is written.
- *Terminal.* The `select` may take the closed error channel while chunks are
  still buffered, and the rest of the answer is not shown; an error is not shown
  when the closed channel of chunks is taken first; `m.err` is never cleared. The
  last line, when it has no end, passes other filters than a whole one. Lines about
  retries are dropped inside an answer too, although the comment there says
  everything is displayed.

## 7. Not modelled

- *dac-apiserver, REST for users, descriptors and containers*: each request is one
  call to the API server or the database. Their descriptor and container calls are
  the user operations of `DataDescriptor` and `AgentContainer`. (An update is
  refused there for want of a resource version.)
- *Generated database code, process wiring, schemes, the other commands of dactl.*
- *Ranking*: scores, limits and thresholds of the searches; which agents a search
  returns, and in which order.
- *What the SQL readers make of rows*: relationship classes and markdown.
- *Prompts, SQL text, file formats, and the contents of documents, memories and
  cards.* Of the calls to models, only what the code branches on.
- *Code that nothing calls*: most of the registry's vector client, the orchestrator's non-streaming mode, the batch routes
  of the history, the batch mode of the data sinkers.
- *Timestamps of the history* at their resolution of one second.
- *Demo, docs, bundled tokenizer and corpus data.*

`PROJECT.json` gives the reason per component.
