----------------------------- MODULE SqlReaders -----------------------------
(***************************************************************************)
(* The readers through which the runs of one expert process read the       *)
(* user's database: postgres_reader.py and mysql_reader.py, called by      *)
(* server.py to run the model's SQL, to list the values of dimensions, and *)
(* to describe the tables a question is about.                             *)
(*                                                                         *)
(* Every call opens a reader and closes it.  A MySQL reader has a pool of  *)
(* its own.  The PostgreSQL readers share the pool of a class-level        *)
(* registry - a process serves one descriptor, so one database, one key -  *)
(* and each of them, when it is done, closes the registry's pool under     *)
(* whoever still uses it.                                                  *)
(*                                                                         *)
(* A step ends where the code awaits: the registry's lock, the creation    *)
(* of a pool, a connection, an answer of the database, the release of a    *)
(* connection, the closing of a pool.  What a reader makes of the rows is  *)
(* abstracted to the tables it answers about.                              *)
(***************************************************************************)
EXTENDS Integers, FiniteSets

CONSTANTS
    Runs,           \* the agent's runs that read the database
    Pools,          \* one more than the runs suffices: see Fresh
    NoRun, NoPool,  \* None
    Tables,
    Selections,     \* bound: the lists of tables the model may select
    Altered,        \* bound: the tables others create and drop meanwhile
    PoolSize,       \* max_connections
    Tasks,          \* bound: what each run may read the database for
    Faulty,         \* bound: the runs whose requests the database may fail
    MaxDimensions   \* bound: the dimensions the model selects

ASSUME ReadersAssumption ==
    /\ IsFiniteSet(Runs) /\ NoRun \notin Runs
    /\ NoPool \notin Pools
    /\ PoolSize \in Nat \ {0}
    /\ Selections \subseteq SUBSET Tables /\ {} \in Selections
    /\ Faulty \subseteq Runs /\ Altered \subseteq Tables
    /\ Tasks \in [Runs -> SUBSET {"execute", "dimensions", "tables"}]
    /\ MaxDimensions \in Nat

VARIABLES
    dbtype, task, asked,          \* the descriptor's type; what each run asks for
    registry, lock,               \* _pools and _lock of AsyncPostgresPoolManager
    phase, idle,                  \* of each pool, and the connections in its queue
    awaited,                      \* the users a closing pool still waits for
    at, op, left, pool, conn,     \* where each run is, and in which call
    stage, todo, entries,         \* what its reader is fetching, and has fetched
    outcome,                      \* of the call
    there,                        \* the tables of the database
    throughout, ever, cause, broken  \* history: see AnswersComplete, FailureHasACause

request == <<dbtype, task, asked>>
pools == <<registry, lock, phase, idle, awaited, broken>>
control == <<at, op, left, pool, conn>>
data == <<stage, todo, entries, outcome>>
database == <<there, throughout, ever>>
vars == <<request, pools, control, data, database, cause>>

Postgres == dbtype = "postgres"

Ops == {"query", "schema", "relationship", "sample"}

\* A connection is the pool's, or was closed under its user ("cut"), or was
\* opened by a waiter that got its turn after the pool's were closed ("own").
\* A reader without one waits for its turn.
HasPool == {"ready", "using", "releasing", "failing"}
Users(p) == {u \in Runs : pool[u] = p /\ conn[u] \in {"pooled", "own"}}
Waiting(p) == {u \in Runs : pool[u] = p /\ at[u] = "using" /\ conn[u] = "none"}

Blank == [t \in Tables |-> "none"]

\* The calls of a task, in order: the model selected tables, dimensions, SQL.
FirstOp(u) == IF task[u] = "tables" THEN "schema" ELSE "query"
After(o) == IF o = "schema" THEN "relationship" ELSE "sample"

\* With no table named the readers take them all, and a sample first asks
\* which there are.
FirstStage(u, o) ==
    IF o = "schema" \/ (o = "sample" /\ asked[u] = {}) THEN "tables" ELSE "rows"
Described == {"schema", "sample"}
Wanted(u) == IF asked[u] = {} THEN there ELSE asked[u] \intersect there

Init ==
    /\ dbtype \in {"mysql", "postgres"}
    /\ task \in [Runs -> {"execute", "dimensions", "tables"}]
    /\ \A u \in Runs : task[u] \in Tasks[u]
    /\ asked \in [Runs -> Selections]
    /\ \A u \in Runs : task[u] # "tables" => asked[u] = {}
    /\ registry = NoPool /\ lock = NoRun /\ awaited = {} /\ broken = FALSE
    /\ phase = [p \in Pools |-> "closed"]
    /\ idle = [p \in Pools |-> 0]
    /\ at = [u \in Runs |-> "called"]
    /\ op = [u \in Runs |-> FirstOp(u)]
    /\ left \in [Runs -> 0 .. MaxDimensions]
    /\ \A u \in Runs : task[u] # "dimensions" => left[u] = 0
    /\ pool = [u \in Runs |-> NoPool]
    /\ conn = [u \in Runs |-> "none"]
    /\ stage = [u \in Runs |-> FirstStage(u, FirstOp(u))]
    /\ todo = [u \in Runs |-> {}]
    /\ entries = [u \in Runs |-> Blank]
    /\ outcome = [u \in Runs |-> "none"]
    /\ there = Tables
    /\ throughout = [u \in Runs |-> IF op[u] \in Described THEN there ELSE {}]
    /\ ever = throughout
    /\ cause = [u \in Runs |-> "none"]

-----------------------------------------------------------------------------
\* A pool that was closed and that nobody can reach any more is forgotten: a
\* run has one pool at a time, and the registry one.
Unused(p) == phase[p] = "closed" /\ p # registry /\ \A u \in Runs : pool[u] # p
Fresh(p) == Unused(p) /\ p = CHOOSE q \in Pools : Unused(q)

Move(u, place) == at' = [at EXCEPT ![u] = place]
\* What went wrong with a call; another's cleanup of its pool before all.
Blame(u, why) == cause' = [cause EXCEPT ![u] = IF @ = "none" THEN why ELSE @]

\* The call raises before there is a reader to close.
NotEntered(u) ==
    /\ u \in Faulty
    /\ Move(u, "returned")
    /\ outcome' = [outcome EXCEPT ![u] = "raised"]
    /\ Blame(u, "fault")
    /\ UNCHANGED <<op, left, pool, conn, stage, todo, entries>>

\* The registry's lock is free, and its pool is created unless there is one.
get_pool(u) ==
    /\ Postgres /\ at[u] = "called" /\ lock = NoRun
    /\ IF registry = NoPool
       THEN /\ lock' = u /\ Move(u, "creating")
            /\ UNCHANGED <<pool, cause>>
       ELSE /\ pool' = [pool EXCEPT ![u] = registry]
            /\ Move(u, "ready")
            /\ IF phase[registry] = "open" THEN UNCHANGED cause ELSE Blame(u, "stale")
            /\ UNCHANGED lock
    /\ UNCHANGED <<request, registry, phase, idle, awaited, broken, op, left, conn, data, database>>

NewPool(u, p) ==
    /\ phase' = [phase EXCEPT ![p] = "open"]
    /\ idle' = [idle EXCEPT ![p] = PoolSize]
    /\ pool' = [pool EXCEPT ![u] = p]
    /\ Move(u, "ready")
    /\ UNCHANGED <<request, awaited, broken, op, left, conn, data, database, cause>>

create_pool(u) ==
    /\ at[u] = "creating"
    /\ lock' = NoRun
    /\ \/ \E p \in Pools : Fresh(p) /\ registry' = p /\ NewPool(u, p)
       \/ /\ NotEntered(u)
          /\ UNCHANGED <<request, registry, phase, idle, awaited, broken, database>>

\* A MySQL reader's own pool.
initialize(u) ==
    /\ ~Postgres /\ at[u] = "called"
    /\ \/ \E p \in Pools : Fresh(p) /\ NewPool(u, p) /\ UNCHANGED <<registry, lock>>
       \/ NotEntered(u) /\ UNCHANGED <<request, pools, database>>

-----------------------------------------------------------------------------
\* The table a sample has come to; their order is that of the list.
Current(u) == CHOOSE t \in todo[u] : TRUE

\* One use of a connection is over and the sample has its entry: next table.
Sampled(u, entry) ==
    /\ todo' = [todo EXCEPT ![u] = @ \ {Current(u)}]
    /\ entries' = [entries EXCEPT ![u][Current(u)] = entry]
    /\ UNCHANGED stage

\* What the method returns, or raises, is known: the reader is closed.  A
\* PostgreSQL reader only drops its reference.
Answer(u, what) ==
    /\ Move(u, "leave")
    /\ outcome' = [outcome EXCEPT ![u] = what]
    /\ pool' = IF Postgres THEN [pool EXCEPT ![u] = NoPool] ELSE pool

GoOn(u) ==
    IF todo'[u] = {} THEN Answer(u, "answer")
    ELSE Move(u, "ready") /\ UNCHANGED <<outcome, pool>>

\* Variant: a schema that could not be read to the end is what was read of it.
UseFailsPartly(u) ==
    IF op[u] = "sample" /\ stage[u] = "rows"
    THEN Sampled(u, "error") /\ GoOn(u)
    ELSE /\ Answer(u, IF op[u] = "schema" THEN "answer" ELSE "raised")
         /\ UNCHANGED <<stage, todo, entries>>

\* A failed use of a connection.  In a sample it is that table's error; when
\* the tables could not be listed, PostgreSQL's sample answers with the error.
UseFails(u) ==
    IF op[u] = "sample" /\ stage[u] = "rows"
    THEN Sampled(u, "error") /\ GoOn(u)
    ELSE /\ Answer(u, IF op[u] = "sample" /\ Postgres THEN "error" ELSE "raised")
         /\ UNCHANGED <<stage, todo, entries>>

\* A use that succeeded.  The tables listed first are the ones to sample.
UseDone(u) ==
    CASE op[u] = "sample" /\ stage[u] = "rows" -> Sampled(u, "full") /\ GoOn(u)
      [] op[u] = "sample" /\ stage[u] # "rows" ->
            /\ stage' = [stage EXCEPT ![u] = "rows"]
            /\ todo' = [todo EXCEPT ![u] = {t \in Tables : entries[u][t] # "none"}]
            /\ entries' = [entries EXCEPT ![u] = Blank]
            /\ GoOn(u)
      [] OTHER -> Answer(u, "answer") /\ UNCHANGED <<stage, todo, entries>>

\* A pool that closes or is closed refuses; a connection may have to be made,
\* which may fail; with none idle the reader waits.
Acquire(u) ==
    /\ at[u] = "ready"
    /\ IF phase[pool[u]] # "open"
       THEN UseFails(u) /\ UNCHANGED <<idle, conn, cause>>
       ELSE \/ /\ Move(u, "using")
               /\ IF idle[pool[u]] > 0
                  THEN /\ idle' = [idle EXCEPT ![pool[u]] = @ - 1]
                       /\ conn' = [conn EXCEPT ![u] = "pooled"]
                  ELSE UNCHANGED <<idle, conn>>
               /\ UNCHANGED <<pool, data, cause>>
            \/ /\ u \in Faulty /\ idle[pool[u]] > 0
               /\ UseFails(u) /\ Blame(u, "fault")
               /\ UNCHANGED <<idle, conn>>
    /\ UNCHANGED <<request, registry, lock, phase, awaited, broken, op, left, database>>

-----------------------------------------------------------------------------
Fetching(u, place) == at[u] = "using" /\ conn[u] \in {"pooled", "own"} /\ stage[u] = place

Fetched(u, rest) ==
    /\ Move(u, IF rest = {} THEN "releasing" ELSE "using")
    /\ todo' = [todo EXCEPT ![u] = rest]
    /\ UNCHANGED <<request, pools, op, left, pool, conn, outcome, database, cause>>

\* The tables there are; then their columns, table by table.
PostgresTables(u) ==
    /\ Postgres /\ Fetching(u, "tables")
    /\ stage' = [stage EXCEPT ![u] = "columns"]
    /\ UNCHANGED entries
    /\ Fetched(u, Wanted(u))

PostgresColumns(u) ==
    /\ Postgres /\ Fetching(u, "columns")
    /\ \E t \in todo[u] :
         /\ entries' = [entries EXCEPT ![u][t] = IF t \in there THEN "full" ELSE "bare"]
         /\ Fetched(u, todo[u] \ {t})
    /\ UNCHANGED stage

\* MySQL's sample needs the names alone, its schema all columns at once.
MySQLTables(u) ==
    /\ ~Postgres /\ Fetching(u, "tables") /\ op[u] = "schema"
    /\ stage' = [stage EXCEPT ![u] = "columns"]
    /\ UNCHANGED entries
    /\ Move(u, "using")
    /\ todo' = [todo EXCEPT ![u] = Wanted(u)]
    /\ UNCHANGED <<request, pools, op, left, pool, conn, outcome, database, cause>>

MySQLColumns(u) ==
    /\ ~Postgres /\ Fetching(u, "columns")
    /\ entries' = [entries EXCEPT ![u] =
                     [t \in Tables |-> IF t \notin todo[u] THEN entries[u][t]
                                       ELSE IF t \in there THEN "full" ELSE "bare"]]
    /\ UNCHANGED stage
    /\ Fetched(u, {})

MySQLNames(u) ==
    /\ ~Postgres /\ Fetching(u, "tables") /\ op[u] = "sample"
    /\ entries' = [entries EXCEPT ![u] = [t \in Tables |-> IF t \in there THEN "full" ELSE "none"]]
    /\ UNCHANGED stage
    /\ Fetched(u, {})

\* One statement: the SQL of a query, the foreign keys, a table's first row.
Statement(u, o, found) ==
    /\ Fetching(u, "rows") /\ op[u] = o
    /\ Move(u, IF found THEN "releasing" ELSE "failing")
    /\ UNCHANGED <<request, pools, op, left, pool, conn, data, database, cause>>

PostgresQuery(u) == Postgres /\ Statement(u, "query", TRUE)
MySQLQuery(u) == ~Postgres /\ Statement(u, "query", TRUE)
PostgresRelationship(u) == Postgres /\ Statement(u, "relationship", TRUE)
MySQLRelationship(u) == ~Postgres /\ Statement(u, "relationship", TRUE)
SampleTable(u) == Statement(u, "sample", Current(u) \in there)

\* The database refuses, does not answer in time, or the connection is lost.
FetchFails(u) ==
    /\ at[u] = "using" /\ conn[u] # "none"
    /\ Move(u, "failing")
    /\ \/ conn[u] = "cut" /\ UNCHANGED cause
       \/ u \in Faulty /\ Blame(u, "fault")
    /\ UNCHANGED <<request, pools, op, left, pool, conn, data, database>>

\* The connection goes back, to a waiter if there is one - unless it was cut,
\* which returned it, or its pool is closed, which refuses it: then it is lost
\* with its place in the pool, and the error is the caller's.
Return(u) ==
    /\ awaited' = awaited \ {u}
    /\ IF conn[u] = "cut" \/ phase[pool[u]] = "closed"
       THEN conn' = [conn EXCEPT ![u] = "none"] /\ UNCHANGED idle
       ELSE \/ /\ Waiting(pool[u]) = {}
               /\ conn' = [conn EXCEPT ![u] = "none"]
               /\ idle' = [idle EXCEPT ![pool[u]] = @ + 1]
            \/ \E w \in Waiting(pool[u]) :
                 /\ conn' = [conn EXCEPT ![u] = "none",
                                         ![w] = IF phase[pool[u]] = "cut" THEN "own" ELSE "pooled"]
                 /\ UNCHANGED idle
    /\ UNCHANGED <<request, registry, lock, phase, broken, op, left, database>>

Release(u) ==
    /\ at[u] = "releasing" /\ Return(u)
    /\ \/ /\ conn[u] = "cut" \/ phase[pool[u]] # "closed"
          /\ UseDone(u) /\ UNCHANGED cause
       \/ u \in Faulty /\ UseFails(u) /\ Blame(u, "fault")
       \/ /\ conn[u] = "cut" \/ phase[pool[u]] = "closed"
          /\ UseFails(u) /\ UNCHANGED cause

ReleaseFailing(u) ==
    /\ at[u] = "failing" /\ Return(u)
    /\ UseFails(u) /\ UNCHANGED cause

-----------------------------------------------------------------------------
\* Variant: a call that raised leaves the pool to the next.
close_all_on_success(u) ==
    /\ Postgres /\ at[u] = "leave" /\ lock = NoRun
    /\ IF registry # NoPool /\ phase[registry] = "open" /\ outcome[u] # "raised"
       THEN /\ lock' = u /\ Move(u, "closing")
            /\ phase' = [phase EXCEPT ![registry] = "closing"]
            /\ awaited' = Users(registry)
            /\ cause' = [v \in Runs |-> IF pool[v] = registry THEN "cleanup" ELSE cause[v]]
            /\ UNCHANGED registry
       ELSE /\ registry' = IF outcome[u] = "raised" THEN registry ELSE NoPool
            /\ Move(u, "returned")
            /\ UNCHANGED <<lock, phase, awaited, cause>>
    /\ UNCHANGED <<request, idle, broken, op, left, pool, conn, data, database>>

\* The end of a PostgreSQL call: whatever pool is registered is closed.  It
\* first waits for the connections in use now, once each.
close_all(u) ==
    /\ Postgres /\ at[u] = "leave" /\ lock = NoRun
    /\ IF registry # NoPool /\ phase[registry] = "open"
       THEN /\ lock' = u /\ Move(u, "closing")
            /\ phase' = [phase EXCEPT ![registry] = "closing"]
            /\ awaited' = Users(registry)
            /\ cause' = [v \in Runs |-> IF pool[v] = registry THEN "cleanup" ELSE cause[v]]
            /\ UNCHANGED registry
       ELSE /\ registry' = NoPool /\ Move(u, "returned")
            /\ UNCHANGED <<lock, phase, awaited, cause>>
    /\ UNCHANGED <<request, idle, broken, op, left, pool, conn, data, database>>

\* Then it closes them all, those that waiters have got since included.  Their
\* places in the pool go to the waiters left, who make connections of their own.
CutOff(p) ==
    \E served \in SUBSET Waiting(p) :
        /\ served = Waiting(p) \/ Cardinality(served) = PoolSize
        /\ Cardinality(served) <= PoolSize
        /\ conn' = [v \in Runs |-> IF v \in served THEN "own"
                                  ELSE IF v \in Users(p) THEN "cut" ELSE conn[v]]
        /\ idle' = [idle EXCEPT ![p] = PoolSize - Cardinality(served)]

CloseConnections(u) ==
    /\ at[u] = "closing" /\ awaited = {}
    /\ CutOff(registry)
    /\ phase' = [phase EXCEPT ![registry] = "cut"]
    /\ Move(u, "shutting")
    /\ UNCHANGED <<request, registry, lock, awaited, broken, op, left, pool, data, database, cause>>

\* Variant: the closed pool is not removed from the registry.
ShutWithoutClear(u) ==
    /\ at[u] = "shutting"
    /\ phase' = [phase EXCEPT ![registry] = "closed"]
    /\ lock' = NoRun /\ Move(u, "returned")
    /\ UNCHANGED <<registry, idle, conn, outcome, cause, broken>>
    /\ UNCHANGED <<request, awaited, op, left, pool, stage, todo, entries, database>>

\* Variant: the lock is not released when closing raises.
ShutKeepingLock(u) ==
    /\ at[u] = "shutting"
    /\ phase' = [phase EXCEPT ![registry] = "closed"]
    /\ Move(u, "returned")
    /\ \/ /\ registry' = NoPool /\ lock' = NoRun
          /\ UNCHANGED <<idle, conn, outcome, cause, broken>>
       \/ /\ u \in Faulty /\ CutOff(registry)
          /\ outcome' = [outcome EXCEPT ![u] = "raised"]
          /\ Blame(u, "fault") /\ broken' = TRUE
          /\ UNCHANGED <<registry, lock>>
    /\ UNCHANGED <<request, awaited, op, left, pool, stage, todo, entries, database>>

\* The pool is closed, and forgotten.  When closing a connection raises, the
\* rest are torn down, the pool stays registered, and the call raises.
Shut(u) ==
    /\ at[u] = "shutting"
    /\ phase' = [phase EXCEPT ![registry] = "closed"]
    /\ lock' = NoRun /\ Move(u, "returned")
    /\ \/ /\ registry' = NoPool
          /\ UNCHANGED <<idle, conn, outcome, cause, broken>>
       \/ /\ u \in Faulty /\ CutOff(registry)
          /\ outcome' = [outcome EXCEPT ![u] = "raised"]
          /\ Blame(u, "fault") /\ broken' = TRUE
          /\ UNCHANGED registry
    /\ UNCHANGED <<request, awaited, op, left, pool, stage, todo, entries, database>>

\* A MySQL reader closes its own pool; errors are passed over.
close(u) ==
    /\ ~Postgres /\ at[u] = "leave"
    /\ phase' = [phase EXCEPT ![pool[u]] = "closed"]
    /\ idle' = [idle EXCEPT ![pool[u]] = 0]
    /\ pool' = [pool EXCEPT ![u] = NoPool]
    /\ Move(u, "returned")
    /\ UNCHANGED <<request, registry, lock, awaited, broken, op, left, conn, data, database, cause>>

-----------------------------------------------------------------------------
Call(u, o) ==
    /\ Move(u, "called")
    /\ op' = [op EXCEPT ![u] = o]
    /\ stage' = [stage EXCEPT ![u] = FirstStage(u, o)]
    /\ todo' = [todo EXCEPT ![u] = IF o = "sample" THEN asked[u] ELSE {}]
    /\ entries' = [entries EXCEPT ![u] = Blank]
    /\ outcome' = [outcome EXCEPT ![u] = "none"]
    /\ throughout' = [throughout EXCEPT ![u] = IF o \in Described THEN there ELSE {}]
    /\ ever' = [ever EXCEPT ![u] = throughout'[u]]
    /\ cause' = [cause EXCEPT ![u] = "none"]

\* The tables are described by three calls, the first that raises ends it.
DescribeNext(u) ==
    /\ at[u] = "returned" /\ task[u] = "tables" /\ outcome[u] # "raised" /\ op[u] # "sample"
    /\ Call(u, After(op[u]))
    /\ UNCHANGED <<request, pools, left, pool, conn, there>>

\* A dimension whose query fails is reported as failed among the others.
process_dimensions(u) ==
    /\ at[u] = "returned" /\ task[u] = "dimensions" /\ left[u] > 0
    /\ left' = [left EXCEPT ![u] = @ - 1]
    /\ Call(u, "query")
    /\ UNCHANGED <<request, pools, pool, conn, there>>

EndTask(u) ==
    /\ at[u] = "returned"
    /\ CASE task[u] = "tables" -> outcome[u] = "raised" \/ op[u] = "sample"
         [] task[u] = "dimensions" -> left[u] = 0
         [] OTHER -> TRUE
    /\ Move(u, "ended")
    /\ outcome' = [outcome EXCEPT ![u] = "none"]
    /\ cause' = [cause EXCEPT ![u] = "none"]
    /\ throughout' = [throughout EXCEPT ![u] = {}]
    /\ ever' = [ever EXCEPT ![u] = {}]
    /\ entries' = [entries EXCEPT ![u] = Blank]
    /\ UNCHANGED <<request, pools, op, left, pool, conn, stage, todo, there>>

Reading(u) == op[u] \in Described /\ at[u] # "ended" /\ outcome[u] = "none"

\* Others create and drop tables.
Alter ==
    /\ \E t \in Altered :
         there' = IF t \in there THEN there \ {t} ELSE there \union {t}
    /\ throughout' = [u \in Runs |-> IF Reading(u) THEN throughout[u] \intersect there'
                                     ELSE throughout[u]]
    /\ ever' = [u \in Runs |-> IF Reading(u) THEN ever[u] \union there' ELSE ever[u]]
    /\ UNCHANGED <<request, pools, control, data, cause>>

Step(u) ==
    \/ get_pool(u) \/ create_pool(u) \/ initialize(u)
    \/ Acquire(u)
    \/ PostgresTables(u) \/ PostgresColumns(u)
    \/ MySQLTables(u) \/ MySQLColumns(u) \/ MySQLNames(u)
    \/ PostgresQuery(u) \/ MySQLQuery(u)
    \/ PostgresRelationship(u) \/ MySQLRelationship(u) \/ SampleTable(u)
    \/ FetchFails(u) \/ Release(u) \/ ReleaseFailing(u)
    \/ close_all(u) \/ CloseConnections(u) \/ Shut(u) \/ close(u)
    \/ DescribeNext(u) \/ process_dimensions(u) \/ EndTask(u)

\* A reader in the queue of a pool all of whose connections were lost.
Stranded(u) == at[u] = "using" /\ conn[u] = "none" /\ Users(pool[u]) = {}

Done == (\A u \in Runs : at[u] = "ended" \/ Stranded(u)) /\ UNCHANGED vars

Next == (\E u \in Runs : Step(u)) \/ Alter \/ Done

\* The event loop runs every task that can go on, and every await of the
\* database ends: commands and connecting have timeouts.
Spec == Init /\ [][Next]_vars /\ \A u \in Runs : WF_vars(Step(u))
-----------------------------------------------------------------------------
(* Type correctness of the readers and their pools. *)
TypeOK ==
    /\ dbtype \in {"mysql", "postgres"}
    /\ task \in [Runs -> {"execute", "dimensions", "tables"}] /\ asked \in [Runs -> Selections]
    /\ registry \in Pools \union {NoPool} /\ lock \in Runs \union {NoRun}
    /\ phase \in [Pools -> {"open", "closing", "cut", "closed"}]
    /\ idle \in [Pools -> 0 .. PoolSize]
    /\ awaited \subseteq Runs /\ broken \in BOOLEAN
    /\ at \in [Runs -> HasPool \union {"called", "creating", "leave", "closing", "shutting",
                                      "returned", "ended"}]
    /\ op \in [Runs -> Ops] /\ left \in [Runs -> 0 .. MaxDimensions]
    /\ pool \in [Runs -> Pools \union {NoPool}]
    /\ conn \in [Runs -> {"none", "pooled", "own", "cut"}]
    /\ stage \in [Runs -> {"tables", "columns", "rows"}]
    /\ todo \in [Runs -> SUBSET Tables]
    /\ entries \in [Runs -> [Tables -> {"none", "full", "bare", "error"}]]
    /\ outcome \in [Runs -> {"none", "answer", "error", "raised"}]
    /\ there \subseteq Tables
    /\ throughout \in [Runs -> SUBSET Tables] /\ ever \in [Runs -> SUBSET Tables]
    /\ cause \in [Runs -> {"none", "fault", "cleanup", "stale"}]

(* A call fails only for a fault of the database, or because another call    *)
(* ended and closed the pool they shared (__aexit__ cleans up every pool),   *)
(* or because it was given a pool whose closing had failed before.  A reader *)
(* that waits for ever waits for a pool another call closed.                 *)
FailureHasACause ==
    \A u \in Runs :
        /\ outcome[u] \in {"error", "raised"} => cause[u] # "none"
        /\ Stranded(u) => cause[u] = "cleanup"
        /\ cause[u] = "stale" => broken

(* A pool that is not closed has a reader that uses it or is about to close  *)
(* it, and the PostgreSQL readers of the process never have two: however     *)
(* calls overlap and fail, none leaves connections behind but those it lost. *)
PoolsAreCleanedUp ==
    \A p \in Pools : phase[p] # "closed" =>
        /\ Postgres => p = registry
        /\ \E u \in Runs :
              \/ pool[u] = p
              \/ Postgres /\ at[u] \in {"leave", "closing", "shutting"}

AnswerOf(u) ==
    outcome[u] = "answer" => \A t \in Tables :
        /\ entries[u][t] = "full" => t \in ever[u]
        /\ op[u] = "schema" /\ t \in throughout[u] /\ (asked[u] = {} \/ t \in asked[u]) =>
             entries[u][t] = "full"
        /\ op[u] = "sample" /\ t \in (IF asked[u] = {} THEN throughout[u] ELSE asked[u]) =>
             entries[u][t] # "none"
        /\ entries[u][t] = "error" => t \notin throughout[u] \/ cause[u] # "none"

(* The description a question's SQL is generated from is whole: a schema     *)
(* that is returned has the columns of every table asked for that was there  *)
(* during the read, a sample has an entry for every table asked for, or for  *)
(* every one there; both tell of tables that were there, and a table's error *)
(* in a sample has a cause.                                                  *)
AnswersComplete == \A u \in Runs : AnswerOf(u)

(* Every run comes to the end of its calls - nobody waits for a lock or a    *)
(* connection held by one who waits for him - or is left in the queue of a   *)
(* closed pool whose connections were lost.                                  *)
EveryCallEnds == \A u \in Runs : <>(at[u] = "ended" \/ Stranded(u))

-----------------------------------------------------------------------------
\* What the steps rely on: the inductive invariant of the proofs.

\* Where a run is tells whether it has a pool, a connection, the lock.
Places ==
    \A u \in Runs :
        /\ pool[u] # NoPool <=> at[u] \in HasPool \union (IF Postgres THEN {} ELSE {"leave"})
        /\ conn[u] # "none" => at[u] \in {"using", "releasing", "failing"}
        /\ at[u] \in {"releasing", "failing"} => conn[u] # "none"
        /\ lock = u <=> at[u] \in {"creating", "closing", "shutting"}
        /\ lock = u => Postgres
        /\ at[u] = "creating" => registry = NoPool
        /\ at[u] = "closing" => registry # NoPool /\ phase[registry] = "closing"
        /\ at[u] = "shutting" => registry # NoPool /\ phase[registry] = "cut"
        /\ outcome[u] # "none" <=> at[u] \in {"leave", "closing", "shutting", "returned"}

\* The phase of a pool, who closes it, and the connections its users have.
PoolsInUse ==
    /\ \A p \in Pools :
         /\ phase[p] = "closing" => lock # NoRun /\ at[lock] = "closing"
         /\ phase[p] = "cut" => lock # NoRun /\ at[lock] = "shutting"
         /\ phase[p] # "closed" => idle[p] + Cardinality(Users(p)) = PoolSize
    /\ \A u \in Runs :
         /\ conn[u] = "pooled" => phase[pool[u]] \in {"open", "closing"}
         /\ conn[u] \in {"own", "cut"} => phase[pool[u]] \in {"cut", "closed"}
         /\ at[u] = "using" /\ conn[u] = "none" /\ phase[pool[u]] # "closed" => idle[pool[u]] = 0
    /\ registry # NoPool => Postgres /\ (phase[registry] = "closed" => broken)
    /\ ~Postgres => \A u, v \in Runs :
         pool[u] # NoPool => phase[pool[u]] = "open" /\ (pool[u] = pool[v] => u = v)

\* What a call that has gone, or will go, wrong can blame.
CausesOf(u) ==
    /\ at[u] \in {"called", "creating"} => cause[u] = "none"
    /\ at[u] \in HasPool /\ phase[pool[u]] # "open" => cause[u] \in {"cleanup", "stale"}
    /\ at[u] = "using" => cause[u] # "stale"
    /\ at[u] \in HasPool /\ cause[u] = "stale" => phase[pool[u]] = "closed"
    /\ at[u] = "failing" /\ (op[u] = "sample" => stage[u] # "rows") => cause[u] # "none"

Causes == \A u \in Runs : CausesOf(u)

\* What a reader has read of the tables, and still has to read.
Listing(u) == op[u] = "sample" /\ stage[u] # "rows"
ReadsOf(u) ==
    /\ op[u] \notin Described => stage[u] = "rows" /\ entries[u] = Blank
    /\ op[u] = "schema" => stage[u] # "rows"
    /\ Listing(u) => asked[u] = {}
    /\ Reading(u) => throughout[u] \subseteq there /\ there \subseteq ever[u]
    /\ outcome[u] = "none" /\ at[u] # "ended" => \A t \in Tables :
         /\ entries[u][t] = "full" => t \in ever[u]
         /\ entries[u][t] = "bare" => t \notin throughout[u]
         /\ entries[u][t] = "error" => t \notin throughout[u] \/ cause[u] # "none"
         /\ (op[u] = "schema" \/ Listing(u)) /\ (stage[u] = "columns" \/ at[u] = "releasing")
                /\ t \in throughout[u] /\ (asked[u] = {} \/ t \in asked[u])
                /\ t \notin todo[u] =>
              entries[u][t] \in {"full", "bare"}
         /\ op[u] = "sample" /\ stage[u] = "rows"
                /\ t \in (IF asked[u] = {} THEN throughout[u] ELSE asked[u])
                /\ t \notin todo[u] =>
              entries[u][t] # "none"
    /\ at[u] = "releasing" /\ stage[u] # "rows" => todo[u] = {}
    /\ op[u] = "sample" /\ stage[u] = "rows" /\ at[u] \in HasPool \union {"called", "creating"} =>
         /\ todo[u] # {}
         /\ at[u] = "releasing" => Current(u) \in ever[u]
         /\ at[u] = "failing" => Current(u) \notin throughout[u] \/ cause[u] # "none"

Reads == \A u \in Runs : ReadsOf(u)

IInv ==
    /\ TypeOK /\ Places /\ PoolsInUse /\ Causes /\ Reads
    /\ FailureHasACause /\ PoolsAreCleanedUp /\ AnswersComplete
=============================================================================
