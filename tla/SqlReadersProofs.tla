--------------------------- MODULE SqlReadersProofs ---------------------------
(***************************************************************************)
(* Proofs about SqlReaders, for any number of runs, pools, tables and      *)
(* connections, whatever the database fails: the inductive invariant, and  *)
(* with it that a failed call has a cause, that pools are cleaned up, and  *)
(* that what is returned of the tables is complete.                        *)
(***************************************************************************)
EXTENDS SqlReaders, FiniteSetTheorems, TLAPS

(***************************************************************************)
(* A fetch, and its failure, change what one run has read and where it is. *)
(***************************************************************************)

FetchStep(u) ==
    /\ at[u] = "using" /\ conn[u] # "none"
    /\ at'[u] \in {"using", "releasing", "failing"}
    /\ \A v \in Runs \ {u} :
         /\ at'[v] = at[v] /\ stage'[v] = stage[v] /\ todo'[v] = todo[v]
         /\ entries'[v] = entries[v] /\ cause'[v] = cause[v]
    /\ UNCHANGED <<request, pools, op, left, pool, conn, outcome, database>>

LEMMA FetchKeepsPools ==
    ASSUME IInv, TypeOK', NEW u \in Runs, FetchStep(u)
    PROVE  /\ Places' /\ PoolsInUse' /\ PoolsAreCleanedUp' /\ AnswersComplete'
           /\ \A v \in Runs \ {u} : ReadsOf(v)'
  <1>1. \A p : Users(p)' = Users(p)
    BY DEF FetchStep, Users, pools
  <1>2. outcome[u] = "none"
    BY DEF IInv, FetchStep, Places
  <1>3. Places'
    BY DEF IInv, FetchStep, Places, HasPool, Postgres, request, pools
  <1>4. PoolsInUse'
    BY <1>1 DEF IInv, FetchStep, Places, PoolsInUse, TypeOK, Postgres, request, pools
  <1>5. PoolsAreCleanedUp'
    <2>1. \A w \in Runs : at[w] \in {"leave", "closing", "shutting"} => at'[w] = at[w]
      BY DEF FetchStep
    <2> QED
      BY <2>1 DEF IInv, FetchStep, PoolsAreCleanedUp, Postgres, request, pools
  <1>6. AnswersComplete'
    BY <1>2 DEF IInv, FetchStep, AnswersComplete, AnswerOf, request, database
  <1>7. ASSUME NEW v \in Runs \ {u} PROVE ReadsOf(v)'
    <2>1. ReadsOf(v)
      BY DEF IInv, Reads
    <2> QED
      BY <2>1, ZenonT(60) DEF FetchStep, ReadsOf, Current, Listing, Reading, request, database
  <1> QED
    BY <1>3, <1>4, <1>5, <1>6, <1>7

LEMMA PostgresTables_Keeps ==
    ASSUME IInv, NEW u \in Runs, PostgresTables(u)
    PROVE  IInv'
  <1>1. TypeOK'
    BY DEF IInv, TypeOK, Wanted, HasPool, request, pools, database,
           PostgresTables, Fetching, Fetched, Move
  <1>2. FetchStep(u)
    BY DEF IInv, TypeOK, FetchStep, PostgresTables, Fetching, Fetched, Move
  <1>3. Causes'
    BY DEF IInv, Causes, CausesOf, TypeOK, HasPool, pools,
           PostgresTables, Fetching, Fetched, Move
  <1>4. ReadsOf(u)'
    <2>1. ReadsOf(u) /\ outcome[u] = "none" /\ op[u] \in Ops
      BY DEF IInv, TypeOK, Places, Reads, PostgresTables, Fetching, Fetched, Move
    <2>2. /\ stage[u] = "tables" /\ stage'[u] = "columns" /\ at'[u] \in {"using", "releasing"}
          /\ todo'[u] = Wanted(u) /\ (at'[u] = "releasing" => todo'[u] = {})
          /\ entries'[u] = entries[u] /\ cause'[u] = cause[u]
      BY DEF IInv, TypeOK, PostgresTables, Fetching, Fetched, Move, Wanted
    <2> QED
      BY <1>2, <1>3, <2>1, <2>2 DEF FetchStep, request, database, ReadsOf, Wanted, Described, Listing, Reading, HasPool, Ops
  <1>5. FailureHasACause'
    BY DEF IInv, FailureHasACause, TypeOK, Stranded, Users, pools,
           PostgresTables, Fetching, Fetched, Move
  <1> QED
    BY <1>1, <1>2, <1>3, <1>4, <1>5, FetchKeepsPools DEF IInv, Reads

LEMMA PostgresColumns_Keeps ==
    ASSUME IInv, NEW u \in Runs, PostgresColumns(u)
    PROVE  IInv'
  <1>1. TypeOK'
    BY DEF IInv, TypeOK, HasPool, request, pools, database,
           PostgresColumns, Fetching, Fetched, Move
  <1>2. FetchStep(u)
    BY DEF IInv, TypeOK, FetchStep, PostgresColumns, Fetching, Fetched, Move
  <1>3. Causes'
    BY DEF IInv, Causes, CausesOf, TypeOK, HasPool, pools,
           PostgresColumns, Fetching, Fetched, Move
  <1>4. ReadsOf(u)'
    <2>1. ReadsOf(u) /\ outcome[u] = "none" /\ op[u] \in Ops
      BY DEF IInv, TypeOK, Places, Reads, PostgresColumns, Fetching, Fetched, Move
    <2>2. PICK t \in todo[u] :
           /\ stage[u] = "columns" /\ stage'[u] = "columns" /\ at'[u] \in {"using", "releasing"}
           /\ todo'[u] = todo[u] \ {t} /\ (at'[u] = "releasing" => todo'[u] = {})
           /\ entries'[u][t] = IF t \in there THEN "full" ELSE "bare"
           /\ \A s \in Tables \ {t} : entries'[u][s] = entries[u][s]
           /\ cause'[u] = cause[u]
      <3>1. PICK t \in todo[u] :
              /\ entries' = [entries EXCEPT ![u][t] = IF t \in there THEN "full" ELSE "bare"]
              /\ Fetched(u, todo[u] \ {t})
        BY DEF PostgresColumns
      <3>2. /\ stage[u] = "columns" /\ stage'[u] = "columns" /\ at'[u] \in {"using", "releasing"}
            /\ todo'[u] = todo[u] \ {t} /\ (at'[u] = "releasing" => todo'[u] = {})
            /\ cause'[u] = cause[u]
        BY <3>1 DEF IInv, TypeOK, PostgresColumns, Fetching, Fetched, Move
      <3>3. /\ entries'[u][t] = IF t \in there THEN "full" ELSE "bare"
            /\ \A s \in Tables \ {t} : entries'[u][s] = entries[u][s]
        BY <3>1 DEF IInv, TypeOK
      <3> QED
        BY <3>2, <3>3
    <2> QED
      BY <1>2, <1>3, <2>1, <2>2 DEF FetchStep, request, database, ReadsOf, Described, Listing, Reading, HasPool, Ops
  <1>5. FailureHasACause'
    BY DEF IInv, FailureHasACause, TypeOK, Stranded, Users, pools,
           PostgresColumns, Fetching, Fetched, Move
  <1> QED
    BY <1>1, <1>2, <1>3, <1>4, <1>5, FetchKeepsPools DEF IInv, Reads

LEMMA MySQLTables_Keeps ==
    ASSUME IInv, NEW u \in Runs, MySQLTables(u)
    PROVE  IInv'
  <1>1. TypeOK'
    BY DEF IInv, TypeOK, Wanted, HasPool, request, pools, database,
           MySQLTables, Fetching, Move
  <1>2. FetchStep(u)
    BY DEF IInv, TypeOK, FetchStep, MySQLTables, Fetching, Move
  <1>3. Causes'
    BY DEF IInv, Causes, CausesOf, TypeOK, HasPool, pools,
           MySQLTables, Fetching, Move
  <1>4. ReadsOf(u)'
    <2>1. ReadsOf(u) /\ outcome[u] = "none" /\ op[u] \in Ops
      BY DEF IInv, TypeOK, Places, Reads, MySQLTables, Fetching, Move
    <2>2. /\ stage[u] = "tables" /\ stage'[u] = "columns" /\ at'[u] = "using"
          /\ todo'[u] = Wanted(u)
          /\ entries'[u] = entries[u] /\ cause'[u] = cause[u]
      BY DEF IInv, TypeOK, MySQLTables, Fetching, Move, Wanted
    <2> QED
      BY <1>2, <1>3, <2>1, <2>2 DEF FetchStep, request, database, ReadsOf, Wanted, Described, Listing, Reading, HasPool, Ops
  <1>5. FailureHasACause'
    BY DEF IInv, FailureHasACause, TypeOK, Stranded, Users, pools,
           MySQLTables, Fetching, Move
  <1> QED
    BY <1>1, <1>2, <1>3, <1>4, <1>5, FetchKeepsPools DEF IInv, Reads

LEMMA MySQLColumns_Keeps ==
    ASSUME IInv, NEW u \in Runs, MySQLColumns(u)
    PROVE  IInv'
  <1>1. TypeOK'
    BY DEF IInv, TypeOK, HasPool, request, pools, database,
           MySQLColumns, Fetching, Fetched, Move
  <1>2. FetchStep(u)
    BY DEF IInv, TypeOK, FetchStep, MySQLColumns, Fetching, Fetched, Move
  <1>3. Causes'
    BY DEF IInv, Causes, CausesOf, TypeOK, HasPool, pools,
           MySQLColumns, Fetching, Fetched, Move
  <1>4. ReadsOf(u)'
    <2>1. ReadsOf(u) /\ outcome[u] = "none" /\ op[u] \in Ops
      BY DEF IInv, TypeOK, Places, Reads, MySQLColumns, Fetching, Fetched, Move
    <2>2. /\ stage[u] = "columns" /\ stage'[u] = "columns" /\ at'[u] = "releasing"
          /\ todo'[u] = {} /\ cause'[u] = cause[u]
          /\ \A t \in Tables : entries'[u][t] = IF t \notin todo[u] THEN entries[u][t]
                                 ELSE IF t \in there THEN "full" ELSE "bare"
      BY DEF IInv, TypeOK, MySQLColumns, Fetching, Fetched, Move
    <2> QED
      BY <1>2, <1>3, <2>1, <2>2 DEF FetchStep, request, database, ReadsOf, Described, Listing, Reading, HasPool, Ops
  <1>5. FailureHasACause'
    BY DEF IInv, FailureHasACause, TypeOK, Stranded, Users, pools,
           MySQLColumns, Fetching, Fetched, Move
  <1> QED
    BY <1>1, <1>2, <1>3, <1>4, <1>5, FetchKeepsPools DEF IInv, Reads

LEMMA MySQLNames_Keeps ==
    ASSUME IInv, NEW u \in Runs, MySQLNames(u)
    PROVE  IInv'
  <1>1. TypeOK'
    BY DEF IInv, TypeOK, HasPool, request, pools, database,
           MySQLNames, Fetching, Fetched, Move
  <1>2. FetchStep(u)
    BY DEF IInv, TypeOK, FetchStep, MySQLNames, Fetching, Fetched, Move
  <1>3. Causes'
    BY DEF IInv, Causes, CausesOf, TypeOK, HasPool, pools,
           MySQLNames, Fetching, Fetched, Move
  <1>4. ReadsOf(u)'
    <2>1. ReadsOf(u) /\ outcome[u] = "none" /\ op[u] \in Ops
      BY DEF IInv, TypeOK, Places, Reads, MySQLNames, Fetching, Fetched, Move
    <2>2. /\ op[u] = "sample" /\ stage[u] = "tables" /\ stage'[u] = "tables" /\ at'[u] = "releasing"
          /\ todo'[u] = {} /\ cause'[u] = cause[u]
          /\ \A t \in Tables : entries'[u][t] = IF t \in there THEN "full" ELSE "none"
      BY DEF IInv, TypeOK, MySQLNames, Fetching, Fetched, Move
    <2> QED
      BY <1>2, <1>3, <2>1, <2>2 DEF FetchStep, request, database, ReadsOf, Described, Listing, Reading, HasPool, Ops
  <1>5. FailureHasACause'
    BY DEF IInv, FailureHasACause, TypeOK, Stranded, Users, pools,
           MySQLNames, Fetching, Fetched, Move
  <1> QED
    BY <1>1, <1>2, <1>3, <1>4, <1>5, FetchKeepsPools DEF IInv, Reads

LEMMA Statement_Keeps ==
    ASSUME IInv, NEW u \in Runs, NEW o \in {"query", "relationship"}, Statement(u, o, TRUE)
    PROVE  IInv'
  <1>1. TypeOK'
    BY DEF IInv, TypeOK, HasPool, request, pools, data, database,
           Statement, Fetching, Move
  <1>2. FetchStep(u)
    BY DEF IInv, TypeOK, FetchStep, Statement, Fetching, Move, data
  <1>3. Causes'
    BY DEF IInv, Causes, CausesOf, TypeOK, HasPool, pools, data,
           Statement, Fetching, Move
  <1>4. ReadsOf(u)'
    <2>1. ReadsOf(u) /\ outcome[u] = "none" /\ op[u] \in Ops
      BY DEF IInv, TypeOK, Places, Reads, Statement, Fetching, Move
    <2>2. /\ op[u] = o /\ stage[u] = "rows" /\ stage'[u] = "rows" /\ at'[u] = "releasing"
          /\ todo'[u] = todo[u] /\ entries'[u] = entries[u] /\ cause'[u] = cause[u]
      BY DEF IInv, TypeOK, Statement, Fetching, Move, data
    <2> QED
      BY <1>2, <1>3, <2>1, <2>2 DEF FetchStep, request, database, ReadsOf, Described, Listing, Reading, HasPool, Ops
  <1>5. FailureHasACause'
    BY DEF IInv, FailureHasACause, TypeOK, Stranded, Users, pools, data,
           Statement, Fetching, Move
  <1> QED
    BY <1>1, <1>2, <1>3, <1>4, <1>5, FetchKeepsPools DEF IInv, Reads

LEMMA SampleTable_Keeps ==
    ASSUME IInv, NEW u \in Runs, SampleTable(u)
    PROVE  IInv'
  <1>1. TypeOK'
    BY DEF IInv, TypeOK, HasPool, request, pools, data, database,
           SampleTable, Statement, Fetching, Move
  <1>2. FetchStep(u)
    BY DEF IInv, TypeOK, FetchStep, SampleTable, Statement, Fetching, Move, data
  <1>3. Causes'
    BY DEF IInv, Causes, CausesOf, TypeOK, HasPool, pools, data,
           SampleTable, Statement, Fetching, Move
  <1>4. ReadsOf(u)'
    <2>1. ReadsOf(u) /\ outcome[u] = "none" /\ op[u] \in Ops
      BY DEF IInv, TypeOK, Places, Reads, SampleTable, Statement, Fetching, Move
    <2>2. /\ op[u] = "sample" /\ stage[u] = "rows" /\ stage'[u] = "rows"
          /\ at'[u] = IF Current(u) \in there THEN "releasing" ELSE "failing"
          /\ todo'[u] = todo[u] /\ entries'[u] = entries[u] /\ cause'[u] = cause[u]
          /\ Current(u)' = Current(u)
      BY DEF IInv, TypeOK, SampleTable, Statement, Fetching, Move, data, Current
    <2> QED
      BY <1>2, <1>3, <2>1, <2>2 DEF FetchStep, request, database, ReadsOf, Described, Listing, Reading, HasPool, Ops
  <1>5. FailureHasACause'
    BY DEF IInv, FailureHasACause, TypeOK, Stranded, Users, pools, data,
           SampleTable, Statement, Fetching, Move
  <1> QED
    BY <1>1, <1>2, <1>3, <1>4, <1>5, FetchKeepsPools DEF IInv, Reads

LEMMA FetchFails_Keeps ==
    ASSUME IInv, NEW u \in Runs, FetchFails(u)
    PROVE  IInv'
  <1>1. TypeOK'
    BY ZenonT(60) DEF IInv, TypeOK, HasPool, request, pools, data, database,
           FetchFails, Move, Blame
  <1>2. FetchStep(u)
    BY DEF IInv, TypeOK, FetchStep, FetchFails, Move, Blame, data
  <1>3. Causes' /\ cause'[u] # "none"
    <2>1. conn[u] = "cut" => cause[u] # "none"
      BY DEF IInv, Causes, CausesOf, PoolsInUse, HasPool, FetchFails
    <2>2. cause'[u] # "none" /\ (cause[u] # "none" => cause'[u] = cause[u])
      BY <2>1 DEF IInv, TypeOK, FetchFails, Blame
    <2>3. cause'[u] # "stale" \/ cause'[u] = cause[u]
      BY DEF IInv, TypeOK, FetchFails, Blame
    <2> QED
      <3>1. at[u] = "using" /\ at'[u] = "failing" /\ pool'[u] = pool[u] /\ phase' = phase
        BY DEF IInv, TypeOK, FetchFails, Move, pools
      <3>2. CausesOf(u)'
        BY <2>1, <2>2, <2>3, <3>1 DEF IInv, Causes, CausesOf, HasPool
      <3>3. ASSUME NEW v \in Runs \ {u} PROVE CausesOf(v)'
        BY <1>2 DEF FetchStep, IInv, Causes, CausesOf, HasPool, pools
      <3> QED
        BY <2>2, <3>2, <3>3 DEF Causes
  <1>4. ReadsOf(u)'
    <2>1. ReadsOf(u) /\ outcome[u] = "none" /\ op[u] \in Ops
      BY DEF IInv, TypeOK, Places, Reads, FetchFails, Move, Blame
    <2>2. /\ stage'[u] = stage[u] /\ at'[u] = "failing" /\ todo'[u] = todo[u]
          /\ entries'[u] = entries[u] /\ Current(u)' = Current(u)
      BY DEF IInv, TypeOK, FetchFails, Move, data, Current
    <2> QED
      BY <1>2, <1>3, <2>1, <2>2 DEF FetchStep, request, database, ReadsOf, Described, Listing, Reading, HasPool, Ops
  <1>5. FailureHasACause'
    BY DEF IInv, FailureHasACause, TypeOK, Stranded, Users, pools, data,
           FetchFails, Move, Blame
  <1> QED
    BY <1>1, <1>2, <1>3, <1>4, <1>5, FetchKeepsPools DEF IInv, Reads

(***************************************************************************)
(* The end of a use of a connection.                                       *)
(***************************************************************************)

LEMMA FiniteUsers ==
    \A p : IsFiniteSet(Users(p)) /\ IsFiniteSet(Users(p)')
  BY FS_Subset, ReadersAssumption DEF Users

\* Where a use that is over leaves its run, and what it leaves alone.
EndOf(u) ==
    /\ at'[u] \in {"ready", "leave"}
    /\ outcome'[u] # "none" <=> at'[u] = "leave"
    /\ pool'[u] = IF at'[u] = "leave" /\ Postgres THEN NoPool ELSE pool[u]
    /\ \A v \in Runs \ {u} :
         /\ at'[v] = at[v] /\ outcome'[v] = outcome[v] /\ pool'[v] = pool[v]
         /\ stage'[v] = stage[v] /\ todo'[v] = todo[v] /\ entries'[v] = entries[v]

EndTypes ==
    /\ at' \in [Runs -> HasPool \union {"called", "creating", "leave", "closing", "shutting",
                                        "returned", "ended"}]
    /\ outcome' \in [Runs -> {"none", "answer", "error", "raised"}]
    /\ pool' \in [Runs -> Pools \union {NoPool}]
    /\ stage' \in [Runs -> {"tables", "columns", "rows"}]
    /\ todo' \in [Runs -> SUBSET Tables]
    /\ entries' \in [Runs -> [Tables -> {"none", "full", "bare", "error"}]]

\* What became of the reader's data, and of the call with it.
TableSampled(u) ==
    /\ op[u] = "sample" /\ stage[u] = "rows" /\ stage'[u] = "rows"
    /\ todo'[u] = todo[u] \ {Current(u)}
    /\ \A t \in Tables \ {Current(u)} : entries'[u][t] = entries[u][t]
    /\ at'[u] = IF todo'[u] = {} THEN "leave" ELSE "ready"
    /\ outcome'[u] = IF todo'[u] = {} THEN "answer" ELSE "none"

Sampling(u) ==
    /\ Listing(u) /\ stage'[u] = "rows"
    /\ todo'[u] = {t \in Tables : entries[u][t] # "none"} /\ entries'[u] = Blank
    /\ at'[u] = IF todo'[u] = {} THEN "leave" ELSE "ready"
    /\ outcome'[u] = IF todo'[u] = {} THEN "answer" ELSE "none"

Ended(u) ==
    /\ op[u] = "sample" => stage[u] # "rows"
    /\ stage'[u] = stage[u] /\ todo'[u] = todo[u] /\ entries'[u] = entries[u]
    /\ at'[u] = "leave"

LEMMA UseEnds ==
    ASSUME IInv, NEW u \in Runs, at[u] \in HasPool
    PROVE  /\ UseFails(u) => 
                /\ EndOf(u) /\ EndTypes
                /\ \/ TableSampled(u) /\ entries'[u][Current(u)] = "error"
                   \/ Ended(u) /\ outcome'[u] \in {"error", "raised"}
           /\ UseDone(u) => 
                /\ EndOf(u) /\ EndTypes
                /\ \/ TableSampled(u) /\ entries'[u][Current(u)] = "full"
                   \/ Sampling(u)
                   \/ Ended(u) /\ outcome'[u] = "answer" /\ op[u] # "sample"
  <1>1. TypeOK /\ outcome[u] = "none" /\ Blank \in [Tables -> {"none", "full", "bare", "error"}]
    BY DEF IInv, Places, HasPool, Blank
  <1>2. ASSUME NEW what \in {"answer", "error", "raised"}, Answer(u, what),
               UNCHANGED <<stage, todo, entries>>
        PROVE  EndOf(u) /\ EndTypes /\ at'[u] = "leave" /\ outcome'[u] = what
    BY <1>1, <1>2 DEF TypeOK, Answer, Move, EndOf, EndTypes, HasPool
  <1>3. ASSUME GoOn(u), stage' = [stage EXCEPT ![u] = "rows"],
               todo' \in [Runs -> SUBSET Tables],
               entries' \in [Runs -> [Tables -> {"none", "full", "bare", "error"}]],
               \A v \in Runs \ {u} : todo'[v] = todo[v] /\ entries'[v] = entries[v]
        PROVE  /\ EndOf(u) /\ EndTypes
               /\ at'[u] = IF todo'[u] = {} THEN "leave" ELSE "ready"
               /\ outcome'[u] = IF todo'[u] = {} THEN "answer" ELSE "none"
               /\ stage'[u] = "rows"
    <2>1. /\ at' \in [Runs -> HasPool \union {"called", "creating", "leave", "closing",
                                              "shutting", "returned", "ended"}]
          /\ outcome' \in [Runs -> {"none", "answer", "error", "raised"}]
          /\ pool' \in [Runs -> Pools \union {NoPool}]
      <3>1. /\ at' = [at EXCEPT ![u] = "leave"] \/ at' = [at EXCEPT ![u] = "ready"]
            /\ outcome' = [outcome EXCEPT ![u] = "answer"] \/ outcome' = outcome
            /\ pool' = [pool EXCEPT ![u] = NoPool] \/ pool' = pool
        BY <1>3 DEF GoOn, Answer, Move
      <3>2. at' \in [Runs -> HasPool \union {"called", "creating", "leave", "closing",
                                            "shutting", "returned", "ended"}]
        <4>1. at \in [Runs -> HasPool \union {"called", "creating", "leave", "closing",
                                             "shutting", "returned", "ended"}]
          BY <1>1 DEF TypeOK
        <4> QED
          BY <3>1, <4>1 DEF HasPool
      <3>3. outcome' \in [Runs -> {"none", "answer", "error", "raised"}]
        BY <1>1, <3>1, SMTT(40) DEF TypeOK
      <3>4. pool' \in [Runs -> Pools \union {NoPool}]
        BY <1>1, <3>1, ZenonT(60) DEF TypeOK
      <3> QED
        BY <3>2, <3>3, <3>4
    <2>2. \A v \in Runs \ {u} : at'[v] = at[v] /\ outcome'[v] = outcome[v] /\ pool'[v] = pool[v]
      BY <1>1, <1>3 DEF TypeOK, GoOn, Answer, Move
    <2>3. /\ at'[u] = IF todo'[u] = {} THEN "leave" ELSE "ready"
          /\ outcome'[u] = IF todo'[u] = {} THEN "answer" ELSE "none"
          /\ pool'[u] = IF todo'[u] = {} /\ Postgres THEN NoPool ELSE pool[u]
      BY <1>1, <1>3 DEF TypeOK, GoOn, Answer, Move
    <2>4. /\ stage'[u] = "rows" /\ stage' \in [Runs -> {"tables", "columns", "rows"}]
          /\ \A v \in Runs \ {u} : stage'[v] = stage[v]
      BY <1>1, <1>3 DEF TypeOK
    <2> QED
      BY <1>3, <2>1, <2>2, <2>3, <2>4 DEF EndOf, EndTypes
  <1>4. ASSUME NEW entry \in {"full", "error"}, op[u] = "sample", stage[u] = "rows",
               Sampled(u, entry), GoOn(u)
        PROVE  EndOf(u) /\ EndTypes /\ TableSampled(u) /\ entries'[u][Current(u)] = entry
    <2>1. Current(u) \in Tables
      <3>1. todo[u] # {} /\ todo[u] \subseteq Tables
        BY <1>1, <1>4 DEF IInv, TypeOK, Reads, ReadsOf
      <3> QED
        BY <3>1 DEF Current
    <2>2. /\ stage' = [stage EXCEPT ![u] = "rows"]
          /\ todo' \in [Runs -> SUBSET Tables]
          /\ \A v \in Runs \ {u} : todo'[v] = todo[v]
          /\ todo'[u] = todo[u] \ {Current(u)}
      BY <1>1, <1>4 DEF TypeOK, Sampled
    <2>3. /\ entries' \in [Runs -> [Tables -> {"none", "full", "bare", "error"}]]
          /\ \A v \in Runs \ {u} : entries'[v] = entries[v]
          /\ \A t \in Tables \ {Current(u)} : entries'[u][t] = entries[u][t]
          /\ entries'[u][Current(u)] = entry
      BY <1>1, <1>4, <2>1 DEF TypeOK, Sampled
    <2> QED
      BY <1>3, <1>4, <2>2, <2>3 DEF TableSampled
  <1>5. ASSUME UseFails(u)
        PROVE  /\ EndOf(u) /\ EndTypes
               /\ \/ TableSampled(u) /\ entries'[u][Current(u)] = "error"
                  \/ Ended(u) /\ outcome'[u] \in {"error", "raised"}
    <2>1. CASE op[u] = "sample" /\ stage[u] = "rows"
      BY <1>4, <1>5, <2>1 DEF UseFails
    <2>2. CASE ~(op[u] = "sample" /\ stage[u] = "rows")
      <3> DEFINE what == IF op[u] = "sample" /\ Postgres THEN "error" ELSE "raised"
      <3>1. what \in {"error", "raised"} /\ Answer(u, what) /\ UNCHANGED <<stage, todo, entries>>
        BY <1>5, <2>2 DEF UseFails
      <3> HIDE DEF what
      <3> QED
        BY <1>2, <2>2, <3>1 DEF Ended
    <2> QED
      BY <2>1, <2>2
  <1>6. ASSUME UseDone(u)
        PROVE  /\ EndOf(u) /\ EndTypes
               /\ \/ TableSampled(u) /\ entries'[u][Current(u)] = "full"
                  \/ Sampling(u)
                  \/ Ended(u) /\ outcome'[u] = "answer" /\ op[u] # "sample"
    <2>1. CASE op[u] = "sample" /\ stage[u] = "rows"
      BY <1>4, <1>6, <2>1 DEF UseDone
    <2>2. CASE op[u] = "sample" /\ stage[u] # "rows"
      <3>1. /\ stage' = [stage EXCEPT ![u] = "rows"]
            /\ todo' = [todo EXCEPT ![u] = {t \in Tables : entries[u][t] # "none"}]
            /\ entries' = [entries EXCEPT ![u] = Blank]
            /\ GoOn(u)
        BY <1>6, <2>2 DEF UseDone
      <3>2. /\ todo' \in [Runs -> SUBSET Tables]
            /\ entries' \in [Runs -> [Tables -> {"none", "full", "bare", "error"}]]
            /\ \A v \in Runs \ {u} : todo'[v] = todo[v] /\ entries'[v] = entries[v]
            /\ todo'[u] = {t \in Tables : entries[u][t] # "none"} /\ entries'[u] = Blank
        BY <1>1, <3>1 DEF TypeOK
      <3> QED
        BY <1>3, <2>2, <3>1, <3>2 DEF Sampling, Listing
    <2>3. CASE op[u] # "sample"
      BY <1>2, <1>6, <2>3 DEF UseDone, Ended
    <2> QED
      BY <2>1, <2>2, <2>3
  <1> QED
    BY <1>5, <1>6

\* What a use that is over does to the pools: its run has let go of its
\* connection, if it had one, and the rest is as it was.
UseStep(u) ==
    /\ at[u] \in {"ready", "releasing", "failing"}
    /\ EndOf(u) /\ EndTypes
    /\ UNCHANGED <<request, registry, lock, phase, broken, op, left, database>>

LEMMA UseStepKeepsPlaces ==
    ASSUME IInv, NEW u \in Runs, UseStep(u), conn'[u] = "none",
           \A v \in Runs \ {u} : conn'[v] = conn[v] \/ (at[v] = "using" /\ conn'[v] # "none")
    PROVE  Places' /\ PoolsAreCleanedUp'
  <1>1. \A v \in Runs \ {u} : at'[v] = at[v] /\ pool'[v] = pool[v] /\ outcome'[v] = outcome[v]
    BY DEF UseStep, EndOf
  <1>2. /\ at'[u] \in {"ready", "leave"} /\ (outcome'[u] # "none" <=> at'[u] = "leave")
        /\ pool'[u] = IF at'[u] = "leave" /\ Postgres THEN NoPool ELSE pool[u]
        /\ at[u] \in {"ready", "releasing", "failing"} /\ pool[u] # NoPool
        /\ lock # u
    BY DEF IInv, Places, HasPool, UseStep, EndOf
  <1>3. Postgres' = Postgres /\ registry' = registry /\ phase' = phase /\ lock' = lock
    BY DEF UseStep, Postgres, request
  <1>4. Places'
    BY <1>1, <1>2, <1>3 DEF IInv, Places, HasPool
  <1>5. PoolsAreCleanedUp'
    BY <1>1, <1>2, <1>3 DEF IInv, PoolsAreCleanedUp
  <1> QED
    BY <1>4, <1>5

LEMMA UseStepKeepsOwners ==
    ASSUME IInv, NEW u \in Runs, UseStep(u)
    PROVE  /\ \A p \in Pools :
                /\ phase'[p] = "closing" => lock' # NoRun /\ at'[lock'] = "closing"
                /\ phase'[p] = "cut" => lock' # NoRun /\ at'[lock'] = "shutting"
           /\ registry' # NoPool => Postgres' /\ (phase'[registry'] = "closed" => broken')
           /\ ~Postgres' => \A v, w \in Runs :
                pool'[v] # NoPool => phase'[pool'[v]] = "open" /\ (pool'[v] = pool'[w] => v = w)
  <1>1. \A v \in Runs \ {u} : at'[v] = at[v] /\ pool'[v] = pool[v]
    BY DEF UseStep, EndOf
  <1>2. lock # u /\ (~Postgres => pool'[u] = pool[u])
    BY DEF IInv, Places, UseStep, EndOf
  <1>3. Postgres' = Postgres /\ registry' = registry /\ phase' = phase /\ lock' = lock
        /\ broken' = broken
    BY DEF UseStep, Postgres, request
  <1>4. \A p \in Pools :
          /\ phase[p] = "closing" => lock # NoRun /\ at[lock] = "closing" /\ at'[lock] = at[lock]
          /\ phase[p] = "cut" => lock # NoRun /\ at[lock] = "shutting" /\ at'[lock] = at[lock]
    BY <1>1, <1>2 DEF IInv, PoolsInUse, TypeOK
  <1>5. ~Postgres => \A v \in Runs : pool'[v] = pool[v]
    BY <1>1, <1>2
  <1> QED
    BY <1>3, <1>4, <1>5 DEF IInv, PoolsInUse

LEMMA RefusalKeepsPools ==
    ASSUME IInv, TypeOK', NEW u \in Runs, UseStep(u), at[u] = "ready", UNCHANGED <<idle, conn>>
    PROVE  Places' /\ PoolsAreCleanedUp' /\ PoolsInUse'
  <1>1. conn[u] = "none"
    BY DEF IInv, Places
  <1>2. Places' /\ PoolsAreCleanedUp'
    BY <1>1, UseStepKeepsPlaces
  <1>3. \A v \in Runs \ {u} : at'[v] = at[v] /\ pool'[v] = pool[v]
    BY DEF UseStep, EndOf
  <1>4. /\ at'[u] \in {"ready", "leave"}
        /\ pool'[u] = IF at'[u] = "leave" /\ Postgres THEN NoPool ELSE pool[u]
        /\ lock # u
    BY DEF IInv, Places, UseStep, EndOf
  <1>5. Postgres' = Postgres /\ registry' = registry /\ phase' = phase /\ lock' = lock
        /\ broken' = broken
    BY DEF UseStep, Postgres, request
  <1>6. \A p : Users(p)' = Users(p)
    BY <1>1, <1>3 DEF Users
  <1>7. PoolsInUse'
    <2>1. \A v \in Runs : at'[v] = "using" \/ conn'[v] # "none" =>
            v # u /\ at[v] = at'[v] /\ pool'[v] = pool[v] /\ conn'[v] = conn[v]
      BY <1>1, <1>3, <1>4
    <2> QED
      BY <1>5, <1>6, <2>1, UseStepKeepsOwners DEF IInv, PoolsInUse
  <1> QED
    BY <1>2, <1>7

LEMMA ReturnKeepsPools ==
    ASSUME IInv, TypeOK', NEW u \in Runs, UseStep(u), at[u] \in {"releasing", "failing"}, Return(u)
    PROVE  Places' /\ PoolsAreCleanedUp' /\ PoolsInUse'
  <1>1. /\ conn[u] \in {"pooled", "own", "cut"}
        /\ conn[u] = "pooled" => phase[pool[u]] \in {"open", "closing"}
        /\ conn[u] \in {"own", "cut"} => phase[pool[u]] \in {"cut", "closed"}
    BY DEF IInv, TypeOK, Places, PoolsInUse
  <1>2. PICK p \in Pools : p = pool[u]
    BY DEF IInv, TypeOK, Places, HasPool
  <1>3. \A v \in Runs \ {u} : at'[v] = at[v] /\ pool'[v] = pool[v]
    BY DEF UseStep, EndOf
  <1>4. /\ at'[u] \in {"ready", "leave"}
        /\ pool'[u] = IF at'[u] = "leave" /\ Postgres THEN NoPool ELSE p
        /\ lock # u
    BY <1>2 DEF IInv, Places, UseStep, EndOf
  <1>5. Postgres' = Postgres /\ registry' = registry /\ phase' = phase /\ lock' = lock
        /\ broken' = broken
    BY DEF UseStep, Postgres, request
  <1>6. /\ conn'[u] = "none" 
        /\ \A v \in Runs \ {u} :
             conn'[v] = conn[v] \/ (v \in Waiting(p)
                     /\ conn'[v] = IF phase[p] = "cut" THEN "own" ELSE "pooled")
        /\ \/ /\ conn[u] = "cut" \/ phase[p] = "closed"
              /\ idle' = idle /\ \A v \in Runs \ {u} : conn'[v] = conn[v]
           \/ /\ conn[u] # "cut" /\ phase[p] # "closed"
              /\ \/ /\ Waiting(p) = {} /\ idle' = [idle EXCEPT ![p] = @ + 1]
                    /\ \A v \in Runs \ {u} : conn'[v] = conn[v]
                 \/ \E w \in Waiting(p) : 
                      /\ idle' = idle /\ conn'[w] \in {"pooled", "own"}
                      /\ \A v \in Runs \ {u, w} : conn'[v] = conn[v]
    <2>1. conn \in [Runs -> {"none", "pooled", "own", "cut"}]
          /\ \A w \in Waiting(p) : w \in Runs /\ w # u
      BY DEF IInv, TypeOK, Waiting
    <2> QED
      BY <1>2, <2>1 DEF Return
  <1>7. Places' /\ PoolsAreCleanedUp'
    BY <1>6, UseStepKeepsPlaces DEF Waiting
  <1>8. \A q \in Pools \ {p} : Users(q)' = Users(q) /\ idle'[q] = idle[q]
    <2>1. \A q \in Pools \ {p} : idle'[q] = idle[q]
      BY <1>6 DEF IInv, TypeOK
    <2>2. \A q \in Pools \ {p} : Users(q)' = Users(q)
      BY <1>2, <1>3, <1>4, <1>6, ReadersAssumption DEF Users, Waiting
    <2> QED
      BY <2>1, <2>2
  <1>9. /\ phase[p] # "closed" => idle'[p] + Cardinality(Users(p)') = PoolSize
        /\ \A v \in Runs \ {u} : pool[v] = p /\ at[v] = "using" /\ conn'[v] = "none"
                                   /\ phase[p] # "closed" => idle'[p] = 0
    <2>1. /\ phase[p] # "closed" => idle[p] + Cardinality(Users(p)) = PoolSize
          /\ \A v \in Runs : pool[v] = p /\ at[v] = "using" /\ conn[v] = "none"
                               /\ phase[p] # "closed" => idle[p] = 0
          /\ idle[p] \in Nat /\ PoolSize \in Nat
          /\ Cardinality(Users(p)) \in Nat
      BY FiniteUsers, FS_CardinalityType, ReadersAssumption DEF IInv, PoolsInUse, TypeOK
    <2>2. CASE /\ conn[u] = "cut" \/ phase[p] = "closed"
               /\ idle' = idle /\ \A v \in Runs \ {u} : conn'[v] = conn[v]
      <3>1. phase[p] # "closed" => Users(p)' = Users(p)
        BY <1>3, <1>6, <2>2 DEF Users
      <3> QED
        BY <1>3, <2>1, <2>2, <3>1
    <2>3. CASE /\ conn[u] # "cut" /\ phase[p] # "closed"
               /\ Waiting(p) = {} /\ idle' = [idle EXCEPT ![p] = @ + 1]
               /\ \A v \in Runs \ {u} : conn'[v] = conn[v]
      <3>1. Users(p)' = Users(p) \ {u} /\ u \in Users(p)
        BY <1>1, <1>2, <1>3, <1>6, <2>3 DEF Users
      <3>2. Cardinality(Users(p)') = Cardinality(Users(p)) - 1
        BY <3>1, FiniteUsers, FS_RemoveElement
      <3>3. idle'[p] = idle[p] + 1
        BY <2>3 DEF IInv, TypeOK
      <3> QED
        BY <2>1, <2>3, <3>2, <3>3 DEF Waiting
    <2>4. ASSUME conn[u] # "cut", phase[p] # "closed", NEW w \in Waiting(p),
                 idle' = idle, conn'[w] \in {"pooled", "own"},
                 \A v \in Runs \ {u, w} : conn'[v] = conn[v]
          PROVE  /\ idle'[p] + Cardinality(Users(p)') = PoolSize
                 /\ \A v \in Runs \ {u} : pool[v] = p /\ at[v] = "using" /\ conn'[v] = "none" =>
                      idle'[p] = 0
      <3>1. w \in Runs /\ w # u /\ pool[w] = p /\ conn[w] = "none" /\ pool'[w] = p
        BY <1>3, <2>4 DEF Waiting
      <3>2. /\ Users(p)' = (Users(p) \ {u}) \union {w}
            /\ u \in Users(p) /\ w \notin Users(p) \ {u}
        BY <1>1, <1>2, <1>3, <1>6, <2>4, <3>1 DEF Users
      <3>3. Cardinality(Users(p) \ {u}) = Cardinality(Users(p)) - 1
            /\ IsFiniteSet(Users(p) \ {u})
        BY <3>2, FiniteUsers, FS_RemoveElement
      <3>4. Cardinality(Users(p)') = Cardinality(Users(p) \ {u}) + 1
        BY <3>2, <3>3, FS_AddElement
      <3>5. idle'[p] + Cardinality(Users(p)') = PoolSize
        BY <2>1, <2>4, <3>3, <3>4
      <3> QED
        BY <2>1, <2>4, <3>1, <3>5
    <2> QED
      BY <1>6, <2>2, <2>3, <2>4
  <1>10. \A v \in Runs \ {u} :
           /\ conn'[v] = "pooled" => phase[pool[v]] \in {"open", "closing"}
           /\ conn'[v] \in {"own", "cut"} => phase[pool[v]] \in {"cut", "closed"}
    <2>1. \A v \in Waiting(p) : pool[v] = p
      BY DEF Waiting
    <2>2. phase[p] \in {"open", "closing", "cut", "closed"}
      BY DEF IInv, TypeOK
    <2>3. \A v \in Waiting(p) \ {u} : conn'[v] # conn[v] => phase[p] # "closed"
      BY <1>6 DEF Waiting
    <2> QED
      BY <1>6, <2>1, <2>2, <2>3 DEF IInv, PoolsInUse
  <1>11. \A v \in Runs : at'[v] = "using" /\ conn'[v] = "none" /\ phase[pool'[v]] # "closed" =>
           idle'[pool'[v]] = 0
    <2>1. SUFFICES ASSUME NEW v \in Runs \ {u}, at[v] = "using", conn'[v] = "none",
                          phase[pool[v]] # "closed"
                   PROVE  idle'[pool[v]] = 0
      BY <1>3, <1>4
    <2>2. pool[v] \in Pools /\ (pool[v] # p => conn[v] = "none")
      BY <1>6, <2>1 DEF IInv, TypeOK, Places, HasPool, Waiting
    <2> QED
      BY <1>8, <1>9, <2>1, <2>2 DEF IInv, PoolsInUse
  <1>12. \A q \in Pools : phase[q] # "closed" => idle'[q] + Cardinality(Users(q)') = PoolSize
    BY <1>8, <1>9 DEF IInv, PoolsInUse
  <1>13. PoolsInUse'
    <2>1. \A v \in Runs : conn'[v] # "none" => v # u /\ pool'[v] = pool[v]
      BY <1>3, <1>6
    <2> QED
      BY <1>5, <1>10, <1>11, <1>12, <2>1, UseStepKeepsOwners DEF PoolsInUse
  <1> QED
    BY <1>7, <1>13

LEMMA StrandedByCleanup ==
    ASSUME TypeOK', Places', PoolsInUse', Causes', NEW u \in Runs, Stranded(u)'
    PROVE  cause'[u] = "cleanup"
  <1>1. PICK p \in Pools : p = pool'[u]
    BY DEF TypeOK, Places, HasPool, Stranded
  <1>2. Users(p)' = {}
    BY <1>1 DEF Stranded, Users
  <1>3. phase'[p] = "closed"
    <2>1. Cardinality(Users(p)') = 0
      BY <1>2, FS_EmptySet
    <2>2. phase'[p] # "closed" => idle'[p] = 0 /\ idle'[p] + Cardinality(Users(p)') = PoolSize
      BY <1>1 DEF PoolsInUse, Stranded
    <2>3. PoolSize # 0
      BY ReadersAssumption
    <2> QED
      BY <2>1, <2>2, <2>3
  <1>4. CausesOf(u)' /\ at'[u] = "using"
    BY DEF Causes, Stranded
  <1> QED
    BY <1>1, <1>3, <1>4 DEF CausesOf, HasPool

\* A use has gone wrong for a reason.
Blamed(u) ==
    \/ cause'[u] # "none"
    \/ op[u] = "sample" /\ stage[u] = "rows" /\ Current(u) \notin throughout[u]

BlameStep(u) ==
    /\ \A v \in Runs \ {u} : cause'[v] = cause[v]
    /\ cause[u] # "none" => cause'[u] = cause[u]
    /\ cause'[u] = "stale" => cause[u] = "stale"

LEMMA UseStepKeepsReads ==
    ASSUME IInv, TypeOK', NEW u \in Runs, UseStep(u), BlameStep(u),
           \/ UseDone(u) /\ at[u] = "releasing"
           \/ UseFails(u) /\ Blamed(u)
    PROVE  Reads' /\ AnswersComplete' /\ Causes'
           /\ \A v \in Runs : /\ outcome'[v] \in {"error", "raised"} => cause'[v] # "none"
                              /\ cause'[v] = "stale" => broken'
  <1>1. \A v \in Runs \ {u} :
          /\ at'[v] = at[v] /\ outcome'[v] = outcome[v] /\ pool'[v] = pool[v]
          /\ stage'[v] = stage[v] /\ todo'[v] = todo[v] /\ entries'[v] = entries[v]
          /\ cause'[v] = cause[v]
    BY DEF UseStep, EndOf, BlameStep
  <1>2. /\ at[u] \in {"ready", "releasing", "failing"} /\ at'[u] \in {"ready", "leave"}
        /\ outcome'[u] # "none" <=> at'[u] = "leave"
        /\ outcome[u] = "none" /\ pool'[u] \in {pool[u], NoPool}
        /\ at'[u] = "ready" => pool'[u] = pool[u]
    BY DEF UseStep, EndOf, IInv, Places
  <1>3. /\ op' = op /\ asked' = asked /\ there' = there /\ throughout' = throughout /\ ever' = ever
        /\ phase' = phase /\ broken' = broken
    BY DEF UseStep, request, database
  <1>4. /\ cause[u] # "none" => cause'[u] = cause[u]
        /\ cause'[u] = "stale" => cause[u] = "stale"
    BY DEF BlameStep
  <1>5. \/ /\ at[u] = "releasing"
           /\ \/ TableSampled(u) /\ entries'[u][Current(u)] = "full"
              \/ Sampling(u)
              \/ Ended(u) /\ outcome'[u] = "answer" /\ op[u] # "sample"
        \/ /\ Blamed(u)
           /\ \/ TableSampled(u) /\ entries'[u][Current(u)] = "error"
              \/ Ended(u) /\ outcome'[u] \in {"error", "raised"}
    BY <1>2, UseEnds DEF HasPool
  <1>6. ASSUME NEW v \in Runs \ {u} PROVE ReadsOf(v)' /\ AnswerOf(v)' /\ CausesOf(v)'
    <2>1. ReadsOf(v) /\ AnswerOf(v) /\ CausesOf(v)
      BY DEF IInv, Reads, AnswersComplete, Causes
    <2>2. ReadsOf(v)'
      BY <1>1, <1>3, <2>1 DEF ReadsOf, Current, Listing, Reading
    <2>3. AnswerOf(v)'
      BY <1>1, <1>3, <2>1 DEF AnswerOf
    <2>4. CausesOf(v)'
      BY <1>1, <1>3, <2>1 DEF CausesOf
    <2> QED
      BY <2>2, <2>3, <2>4
  <1>7. CausesOf(u)'
    <2>1. CausesOf(u)
      BY DEF IInv, Causes
    <2> QED
      BY <1>2, <1>3, <1>4, <2>1 DEF CausesOf, HasPool
  <1>8. ReadsOf(u)' /\ AnswerOf(u)' /\ (outcome'[u] \in {"error", "raised"} => cause'[u] # "none")
    <2>1. ReadsOf(u) /\ op[u] \in Ops /\ entries[u] \in [Tables -> {"none", "full", "bare", "error"}]
      BY DEF IInv, Reads, TypeOK
    <2>2. todo'[u] # {} => Current(u)' \in todo'[u]
      BY DEF Current
    <2>3. CASE TableSampled(u)
      <3>1. /\ Current(u) \in todo[u] /\ todo[u] \subseteq Tables
            /\ throughout[u] \subseteq there /\ there \subseteq ever[u]
        BY <1>2, <2>1, <2>3 DEF TableSampled, ReadsOf, HasPool, Current, Reading, Described, IInv, TypeOK
      <3>2. \/ at[u] = "releasing" /\ entries'[u][Current(u)] = "full" /\ Current(u) \in ever[u]
            \/ /\ entries'[u][Current(u)] = "error"
               /\ Current(u) \notin throughout[u] \/ cause'[u] # "none"
        BY <1>2, <1>5, <2>1, <2>3 DEF ReadsOf, TableSampled, Ended, Sampling, Listing, Blamed, HasPool
      <3>3. \A t \in Tables :
              /\ entries'[u][t] = "full" => t \in ever[u]
              /\ entries'[u][t] = "bare" => t \notin throughout[u]
              /\ entries'[u][t] = "error" => t \notin throughout[u] \/ cause'[u] # "none"
              /\ t \in (IF asked[u] = {} THEN throughout[u] ELSE asked[u]) /\ t \notin todo'[u] =>
                   entries'[u][t] # "none"
        BY <1>4, <2>1, <2>3, <3>1, <3>2, <1>2 DEF ReadsOf, TableSampled
      <3>4. ReadsOf(u)'
        BY <1>2, <1>3, <2>2, <2>3, <3>1, <3>3 DEF ReadsOf, TableSampled, Listing, Reading, Described, HasPool
      <3>5. AnswerOf(u)'
        BY <1>3, <2>3, <3>3 DEF AnswerOf, TableSampled
      <3> QED
        BY <2>3, <3>4, <3>5 DEF TableSampled
    <2>4. CASE Sampling(u) /\ at[u] = "releasing"
      BY <1>2, <1>3, <2>1, <2>2 , <2>4 DEF ReadsOf, AnswerOf, Sampling, Listing, Reading, Described, HasPool, Blank, Ops
    <2>5. CASE Ended(u) /\ outcome'[u] = "answer" /\ op[u] # "sample" /\ at[u] = "releasing"
      <3>1. /\ op'[u] = op[u] /\ asked'[u] = asked[u] /\ throughout'[u] = throughout[u]
            /\ ever'[u] = ever[u] /\ entries'[u] = entries[u] /\ stage'[u] = stage[u]
            /\ todo'[u] = todo[u] /\ at'[u] = "leave" /\ at[u] = "releasing"
            /\ outcome[u] = "none" /\ outcome'[u] = "answer"
        BY <1>2, <1>3, <2>5 DEF Ended
      <3>2. ReadsOf(u)'
        BY <2>1, <2>5, <3>1 DEF ReadsOf, Listing, Reading, HasPool
      <3>3. op[u] = "schema" => \A t \in Tables :
              /\ entries[u][t] = "full" => t \in ever[u]
              /\ t \in throughout[u] /\ (asked[u] = {} \/ t \in asked[u]) => entries[u][t] = "full"
              /\ entries[u][t] = "error" => t \notin throughout[u] \/ cause[u] # "none"
        BY <2>1, <3>1 DEF ReadsOf
      <3>4. op[u] # "schema" => entries[u] = Blank
        BY <2>1, <2>5 DEF ReadsOf, Described
      <3>5. AnswerOf(u)'
        BY <1>4, <2>5, <3>1, <3>3, <3>4 DEF AnswerOf, Blank
      <3> QED
        BY <3>1, <3>2, <3>5
    <2>6. CASE Ended(u) /\ outcome'[u] \in {"error", "raised"} /\ Blamed(u)
      BY <1>2, <1>3, <2>1, <2>6 DEF ReadsOf, AnswerOf, Ended, Listing, Reading, Described, HasPool, Blank, Ops, Blamed
    <2> QED
      BY <1>5, <2>3, <2>4, <2>5, <2>6
  <1>9. \A v \in Runs : /\ outcome'[v] \in {"error", "raised"} => cause'[v] # "none"
                        /\ cause'[v] = "stale" => broken'
    BY <1>1, <1>3, <1>4, <1>8 DEF IInv, FailureHasACause
  <1> QED
    BY <1>6, <1>7, <1>8, <1>9 DEF Reads, AnswersComplete, Causes

LEMMA UseStepKeepsInvariant ==
    ASSUME IInv, TypeOK', NEW u \in Runs, UseStep(u), BlameStep(u),
           \/ UseDone(u) /\ at[u] = "releasing"
           \/ UseFails(u) /\ Blamed(u),
           \/ at[u] = "ready" /\ UNCHANGED <<idle, conn>>
           \/ at[u] # "ready" /\ Return(u)
    PROVE  IInv'
  <1>1. Places' /\ PoolsAreCleanedUp' /\ PoolsInUse'
    BY RefusalKeepsPools, ReturnKeepsPools DEF UseStep
  <1>2. /\ Reads' /\ AnswersComplete' /\ Causes'
        /\ \A v \in Runs : /\ outcome'[v] \in {"error", "raised"} => cause'[v] # "none"
                           /\ cause'[v] = "stale" => broken'
    BY UseStepKeepsReads
  <1>3. FailureHasACause'
    BY <1>1, <1>2, StrandedByCleanup DEF FailureHasACause
  <1> QED
    BY <1>1, <1>2, <1>3 DEF IInv

LEMMA AcquireKeepsInvariant ==
    ASSUME IInv, NEW u \in Runs, Acquire(u)
    PROVE  IInv'
  <1>1. at[u] = "ready" /\ outcome[u] = "none" /\ TypeOK /\ conn[u] = "none" /\ lock # u
    BY DEF IInv, Acquire, Places
  <1>2. PICK p \in Pools : p = pool[u]
    BY <1>1 DEF TypeOK, IInv, Places, HasPool
  <1>3. UNCHANGED <<request, registry, lock, phase, awaited, broken, op, left, database>>
    BY DEF Acquire
  <1>4. CASE /\ UseFails(u) /\ UNCHANGED <<idle, conn>>
             /\ \/ phase[p] # "open" /\ UNCHANGED cause
                \/ Blame(u, "fault")
    <2>1. EndOf(u) /\ EndTypes
      BY <1>1, <1>4, UseEnds DEF HasPool
    <2>2. /\ BlameStep(u) /\ cause'[u] # "none"
          /\ cause' \in [Runs -> {"none", "fault", "cleanup", "stale"}]
      <3>1. phase[p] # "open" => cause[u] # "none"
        BY <1>1, <1>2 DEF IInv, Causes, CausesOf, HasPool
      <3>2. CASE phase[p] # "open" /\ UNCHANGED cause
        BY <1>1, <3>1, <3>2 DEF TypeOK, BlameStep
      <3>3. CASE Blame(u, "fault")
        BY <1>1, <3>3 DEF TypeOK, BlameStep, Blame
      <3> QED
        BY <1>4, <3>2, <3>3
    <2>3. TypeOK'
      BY <1>1, <1>3, <1>4, <2>1, <2>2 DEF TypeOK, EndTypes, request, database
    <2>4. UseStep(u)
      BY <1>1, <1>3, <2>1 DEF UseStep
    <2> QED
      BY <1>1, <1>4, <2>2, <2>3, <2>4, UseStepKeepsInvariant DEF Blamed
  <1>5. CASE /\ phase[p] = "open"
             /\ Move(u, "using")
             /\ \/ /\ idle[p] > 0 
                   /\ idle' = [idle EXCEPT ![p] = @ - 1]
                   /\ conn' = [conn EXCEPT ![u] = "pooled"]
                \/ idle[p] = 0 /\ UNCHANGED <<idle, conn>>
             /\ UNCHANGED <<pool, data, cause>>
    <2>1. TypeOK'
      <3>1. idle' \in [Pools -> 0 .. PoolSize]
        BY <1>1, <1>5, ReadersAssumption DEF TypeOK
      <3> QED
        BY <1>1, <1>3, <1>5, <3>1 DEF TypeOK, request, database, data, Move, HasPool
    <2>2. /\ at'[u] = "using" /\ \A v \in Runs \ {u} : at'[v] = at[v] /\ conn'[v] = conn[v]
          /\ Postgres' = Postgres
      BY <1>1, <1>3, <1>5 DEF TypeOK, Move, request, Postgres
    <2>3. /\ idle[p] > 0 => idle'[p] = idle[p] - 1 /\ conn'[u] = "pooled"
          /\ idle[p] = 0 => idle'[p] = idle[p] /\ conn'[u] = "none"
          /\ \A q \in Pools \ {p} : idle'[q] = idle[q]
          /\ idle[p] \in Nat /\ idle'[p] \in Nat
      BY <1>1, <1>5, <2>1 DEF TypeOK
    <2>4. Places'
      BY <1>1, <1>2, <1>3, <1>5, <2>2, <2>3 DEF IInv, Places, HasPool, data
    <2>5. \A q \in Pools : phase[q] # "closed" => idle'[q] + Cardinality(Users(q)') = PoolSize
      <3>1. \A q \in Pools \ {p} : Users(q)' = Users(q)
        BY <1>2, <1>5, <2>2 DEF Users
      <3>2. Cardinality(Users(p)) \in Nat /\ PoolSize \in Nat
            /\ idle[p] + Cardinality(Users(p)) = PoolSize
        BY <1>5, FiniteUsers, FS_CardinalityType, ReadersAssumption DEF IInv, PoolsInUse
      <3>3. idle'[p] + Cardinality(Users(p)') = PoolSize
        <4>1. CASE idle[p] > 0
          <5>1. Users(p)' = Users(p) \union {u} /\ u \notin Users(p)
            BY <1>1, <1>2, <1>5, <2>2, <2>3, <4>1 DEF Users
          <5>2. Cardinality(Users(p)') = Cardinality(Users(p)) + 1
            BY <5>1, FiniteUsers, FS_AddElement
          <5> QED
            BY <2>3, <3>2, <4>1, <5>2
        <4>2. CASE idle[p] = 0
          <5>1. Users(p)' = Users(p)
            BY <1>1, <1>5, <2>2, <2>3, <4>2 DEF Users
          <5> QED
            BY <2>3, <3>2, <4>2, <5>1
        <4> QED
          BY <2>3, <4>1, <4>2
      <3> QED
        BY <2>3, <3>1, <3>3 DEF IInv, PoolsInUse
    <2>6. \A v \in Runs :
            /\ conn'[v] = "pooled" => phase[pool[v]] \in {"open", "closing"}
            /\ conn'[v] \in {"own", "cut"} => phase[pool[v]] \in {"cut", "closed"}
            /\ at'[v] = "using" /\ conn'[v] = "none" /\ phase[pool[v]] # "closed" => idle'[pool[v]] = 0
      <3>1. ASSUME NEW v \in Runs \ {u}, at[v] = "using", conn[v] = "none", phase[pool[v]] # "closed"
            PROVE  idle'[pool[v]] = 0
        <4>1. pool[v] \in Pools /\ idle[pool[v]] = 0
          BY <3>1 DEF IInv, TypeOK, Places, HasPool, PoolsInUse
        <4> QED
          BY <2>3, <4>1
      <3>2. \A v \in Runs \ {u} :
              /\ conn'[v] = "pooled" => phase[pool[v]] \in {"open", "closing"}
              /\ conn'[v] \in {"own", "cut"} => phase[pool[v]] \in {"cut", "closed"}
        BY <2>2 DEF IInv, PoolsInUse
      <3> QED
        BY <1>2, <1>5, <2>2, <2>3, <3>1, <3>2
    <2>7. \A q \in Pools :
            /\ phase[q] = "closing" => lock # NoRun /\ at'[lock] = "closing"
            /\ phase[q] = "cut" => lock # NoRun /\ at'[lock] = "shutting"
      BY <1>1, <2>2 DEF IInv, PoolsInUse, TypeOK
    <2>8. PoolsInUse'
      BY <1>3, <1>5, <2>2, <2>5, <2>6, <2>7 DEF IInv, PoolsInUse
    <2>9. Causes'
      <3>1. CausesOf(u)'
        BY <1>1, <1>2, <1>3, <1>5, <2>2 DEF IInv, Causes, CausesOf, HasPool
      <3>2. ASSUME NEW v \in Runs \ {u} PROVE CausesOf(v)'
        BY <1>3, <1>5, <2>2 DEF IInv, Causes, CausesOf, data
      <3> QED
        BY <3>1, <3>2 DEF Causes
    <2>10. Reads'
      <3>1. ASSUME NEW v \in Runs PROVE ReadsOf(v)'
        <4>1. ReadsOf(v)
          BY DEF IInv, Reads
        <4> QED
          BY <1>1, <1>3, <1>5, <2>2, <4>1
             DEF ReadsOf, Current, Listing, Reading, HasPool, request, database, data
      <3> QED
        BY <3>1 DEF Reads
    <2>11. AnswersComplete' /\ PoolsAreCleanedUp'
      BY <1>1, <1>3, <1>5, <2>2 DEF IInv, AnswersComplete, AnswerOf, PoolsAreCleanedUp, request, database, data
    <2>12. FailureHasACause'
      BY <1>3, <1>5, <2>1, <2>4, <2>8, <2>9, StrandedByCleanup DEF IInv, FailureHasACause, data
    <2> QED
      BY <2>1, <2>4, <2>8, <2>9, <2>10, <2>11, <2>12 DEF IInv
  <1> QED
    <2>1. idle[p] \in Nat
      BY DEF IInv, TypeOK
    <2> QED
      BY <1>2, <1>4, <1>5, <2>1 DEF Acquire

LEMMA ReturnTypes ==
    ASSUME IInv, NEW u \in Runs, at[u] \in {"releasing", "failing"}, Return(u)
    PROVE  /\ idle' \in [Pools -> 0 .. PoolSize] /\ awaited' \subseteq Runs
           /\ conn' \in [Runs -> {"none", "pooled", "own", "cut"}]
           /\ UNCHANGED <<request, registry, lock, phase, broken, op, left, database>>
  <1>1. TypeOK
    BY DEF IInv
  <1>2. PICK p \in Pools : p = pool[u]
    BY DEF IInv, TypeOK, Places, HasPool
  <1>3. conn' \in [Runs -> {"none", "pooled", "own", "cut"}]
    <2>1. conn' = [conn EXCEPT ![u] = "none"]
            \/ \E w \in Runs, c \in {"own", "pooled"} : conn' = [conn EXCEPT ![u] = "none", ![w] = c]
      BY DEF Return, Waiting
    <2>2. [conn EXCEPT ![u] = "none"] \in [Runs -> {"none", "pooled", "own", "cut"}]
      BY <1>1 DEF TypeOK
    <2> QED
      BY <2>1, <2>2
  <1>4. conn[u] \in {"pooled", "own", "cut"}
    BY DEF IInv, TypeOK, Places
  <1>5. phase[p] # "closed" /\ conn[u] # "cut" => idle[p] + 1 \in 0 .. PoolSize
    <2> SUFFICES ASSUME phase[p] # "closed", conn[u] # "cut"
                 PROVE  idle[p] + 1 \in 0 .. PoolSize
      OBVIOUS
    <2>1. u \in Users(p)
      BY <1>2, <1>4 DEF Users
    <2>2. Cardinality(Users(p)) \in Nat /\ Cardinality(Users(p)) # 0
      BY <2>1, FiniteUsers, FS_CardinalityType, FS_EmptySet
    <2>3. idle[p] + Cardinality(Users(p)) = PoolSize /\ idle[p] \in Nat /\ PoolSize \in Nat
      BY <1>1, ReadersAssumption DEF IInv, PoolsInUse, TypeOK
    <2> QED
      BY <2>2, <2>3
  <1>6. idle' \in [Pools -> 0 .. PoolSize]
    <2>1. idle' = idle \/ (phase[p] # "closed" /\ conn[u] # "cut" /\ idle' = [idle EXCEPT ![p] = @ + 1])
      BY <1>2 DEF Return
    <2> QED
      BY <1>1, <1>5, <2>1 DEF TypeOK
  <1> QED
    BY <1>1, <1>3, <1>6 DEF TypeOK, Return

LEMMA ReleaseKeepsInvariant ==
    ASSUME IInv, NEW u \in Runs, Release(u) \/ ReleaseFailing(u)
    PROVE  IInv'
  <1>1. at[u] \in {"releasing", "failing"} /\ Return(u) /\ TypeOK
    BY DEF IInv, Release, ReleaseFailing
  <1>2. PICK p \in Pools : p = pool[u]
    BY <1>1 DEF IInv, TypeOK, Places, HasPool
  <1>3. (conn[u] = "cut" \/ phase[p] = "closed") => cause[u] # "none"
    BY <1>1, <1>2 DEF IInv, Causes, CausesOf, HasPool, PoolsInUse
  <1>4. at[u] = "failing" => 
           cause[u] # "none" \/ (op[u] = "sample" /\ stage[u] = "rows" /\ Current(u) \notin throughout[u])
    BY DEF IInv, Causes, CausesOf, Reads, ReadsOf, HasPool
  <1>5. /\ BlameStep(u)
        /\ cause' \in [Runs -> {"none", "fault", "cleanup", "stale"}]
        /\ \/ UseDone(u) /\ at[u] = "releasing"
           \/ UseFails(u) /\ Blamed(u)
    <2>1. CASE /\ UNCHANGED cause
               /\ \/ UseDone(u) /\ at[u] = "releasing"
                  \/ UseFails(u) /\ (conn[u] = "cut" \/ phase[p] = "closed" \/ at[u] = "failing")
      BY <1>1, <1>3, <1>4, <2>1 DEF TypeOK, BlameStep, Blamed
    <2>2. CASE UseFails(u) /\ Blame(u, "fault")
      BY <1>1, <2>2 DEF TypeOK, BlameStep, Blamed, Blame
    <2> QED
      BY <1>2, <2>1, <2>2 DEF Release, ReleaseFailing
  <1>6. EndOf(u) /\ EndTypes
    BY <1>1, <1>5, UseEnds DEF HasPool
  <1>7. UseStep(u)
    BY <1>1, <1>6, ReturnTypes DEF UseStep
  <1>8. TypeOK'
    BY <1>1, <1>5, <1>6, ReturnTypes DEF TypeOK, EndTypes, request, database
  <1> QED
    BY <1>1, <1>5, <1>7, <1>8, UseStepKeepsInvariant

(***************************************************************************)
(* The steps that open and close pools leave alone what readers have read. *)
(***************************************************************************)

PoolStep(u) ==
    /\ \A v \in Runs \ {u} : at'[v] = at[v] /\ outcome'[v] = outcome[v]
    /\ \/ at[u] \in {"called", "creating"} /\ at'[u] \in {"creating", "ready"}
       \/ at[u] \in {"leave", "closing", "shutting"} /\ at'[u] \in {"closing", "shutting"}
       \/ at[u] \in {"called", "creating", "leave", "closing", "shutting"} /\ at'[u] = "returned"
    /\ outcome'[u] \in {outcome[u], "raised"}
    /\ \A v \in Runs : cause[v] # "none" => cause'[v] # "none"
    /\ UNCHANGED <<request, op, stage, todo, entries, database>>

LEMMA PoolStepKeepsReads ==
    ASSUME IInv, NEW u \in Runs, PoolStep(u)
    PROVE  Reads' /\ AnswersComplete'
  <1>1. /\ op' = op /\ asked' = asked /\ there' = there /\ throughout' = throughout /\ ever' = ever
        /\ stage' = stage /\ todo' = todo /\ entries' = entries
    BY DEF PoolStep, request, database
  <1>2. ASSUME NEW v \in Runs PROVE ReadsOf(v)' /\ AnswerOf(v)'
    <2>1. ReadsOf(v) /\ AnswerOf(v)
      BY DEF IInv, Reads, AnswersComplete
    <2>2. /\ at'[v] \in HasPool \union {"called", "creating"} => at[v] \in HasPool \union {"called", "creating"}
          /\ at'[v] \in {"releasing", "failing"} => at[v] = at'[v]
          /\ at'[v] # "ended" => at[v] # "ended"
          /\ outcome'[v] \in {outcome[v], "raised"}
          /\ cause[v] # "none" => cause'[v] # "none"
      BY DEF PoolStep, HasPool
    <2>3. ReadsOf(v)'
      BY <1>1, <2>1, <2>2 DEF ReadsOf, Current, Listing, Reading
    <2>4. AnswerOf(v)'
      BY <1>1, <2>1, <2>2 DEF AnswerOf
    <2> QED
      BY <2>3, <2>4
  <1> QED
    BY <1>2 DEF Reads, AnswersComplete

LEMMA BlameType ==
    ASSUME TypeOK, NEW u \in Runs, NEW why \in {"fault", "stale"}, Blame(u, why)
    PROVE  cause' \in [Runs -> {"none", "fault", "cleanup", "stale"}]
  BY DEF TypeOK, Blame

LEMMA get_pool_Keeps ==
    ASSUME IInv, NEW u \in Runs, get_pool(u)
    PROVE  IInv'
  <1>1. /\ TypeOK /\ at[u] = "called" /\ conn[u] = "none" /\ lock = NoRun /\ pool[u] = NoPool
        /\ Postgres /\ cause[u] = "none" /\ outcome[u] = "none" /\ NoRun \notin Runs
    BY ReadersAssumption DEF IInv, get_pool, Places, HasPool, Causes, CausesOf
  <1>2. UNCHANGED <<request, registry, phase, idle, awaited, broken, op, left, conn, data, database>>
    BY DEF get_pool
  <1>3. \/ /\ registry = NoPool /\ lock' = u /\ Move(u, "creating") /\ UNCHANGED <<pool, cause>>
        \/ /\ registry \in Pools /\ pool' = [pool EXCEPT ![u] = registry] /\ Move(u, "ready")
           /\ IF phase[registry] = "open" THEN UNCHANGED cause ELSE Blame(u, "stale")
           /\ UNCHANGED lock
    BY <1>1 DEF get_pool, TypeOK
  <1>4. TypeOK'
    <2>1. cause' \in [Runs -> {"none", "fault", "cleanup", "stale"}]
      BY <1>1, <1>3, BlameType DEF TypeOK
    <2>2. pool' \in [Runs -> Pools \union {NoPool}] /\ lock' \in Runs \union {NoRun}
      BY <1>1, <1>3, SMTT(40) DEF TypeOK
    <2>3. Move(u, "creating") \/ Move(u, "ready")
      BY <1>3
    <2> QED
      BY <1>1, <1>2, <2>1, <2>2, <2>3, ZenonT(60) DEF TypeOK, request, database, data, Move, HasPool
  <1>5. \A v \in Runs \ {u} : at'[v] = at[v] /\ pool'[v] = pool[v] /\ cause'[v] = cause[v]
    BY <1>1, <1>3 DEF TypeOK, Move, Blame
  <1>6. \/ /\ registry = NoPool /\ lock' = u /\ at'[u] = "creating" /\ pool'[u] = NoPool /\ cause'[u] = "none"
        \/ /\ registry \in Pools /\ lock' = NoRun /\ at'[u] = "ready" /\ pool'[u] = registry
           /\ cause'[u] = IF phase[registry] = "open" THEN "none" ELSE "stale"
    BY <1>1, <1>3 DEF TypeOK, Move, Blame
  <1>7. Postgres' = Postgres
    BY <1>2 DEF request, Postgres
  <1>8. \A p : Users(p)' = Users(p)
    BY <1>1, <1>2, <1>5 DEF Users
  <1>9. registry \in Pools => phase[registry] \in {"open", "closed"}
    BY <1>1 DEF IInv, PoolsInUse, TypeOK
  <1>10. Places'
    BY <1>1, <1>2, <1>5, <1>6, <1>7, ReadersAssumption DEF IInv, Places, HasPool, data
  <1>11. PoolsInUse'
    <2>1. \A v \in Runs : conn'[v] # "none" \/ at'[v] = "using" => v # u
      BY <1>1, <1>2, <1>6
    <2> QED
      BY <1>1, <1>2, <1>5, <1>7, <1>8, <2>1 DEF IInv, PoolsInUse
  <1>12. Causes'
    <2>1. CausesOf(u)'
      BY <1>2, <1>6, <1>9 DEF CausesOf, HasPool, IInv, TypeOK
    <2>2. ASSUME NEW v \in Runs \ {u} PROVE CausesOf(v)'
      BY <1>2, <1>5 DEF CausesOf, IInv, Causes, data
    <2> QED
      BY <2>1, <2>2 DEF Causes
  <1>13. PoolStep(u)
    BY <1>1, <1>2, <1>5, <1>6 DEF PoolStep, data
  <1>14. PoolsAreCleanedUp'
    BY <1>1, <1>2, <1>5, <1>6, <1>7 DEF IInv, PoolsAreCleanedUp
  <1>15. FailureHasACause'
    <2>1. registry \in Pools /\ phase[registry] # "open" => broken
      BY <1>9, ReadersAssumption DEF IInv, PoolsInUse
    <2> QED
      BY <1>1, <1>2, <1>4, <1>5, <1>6, <1>10, <1>11, <1>12, <2>1, StrandedByCleanup
         DEF IInv, FailureHasACause, data
  <1> QED
    BY <1>4, <1>10, <1>11, <1>12, <1>13, <1>14, <1>15, PoolStepKeepsReads DEF IInv

LEMMA PoolOpenedKeeps ==
    ASSUME IInv, NEW u \in Runs, NEW p \in Pools, Unused(p), NewPool(u, p),
           \/ Postgres /\ at[u] = "creating" /\ lock' = NoRun /\ registry' = p
           \/ ~Postgres /\ at[u] = "called" /\ UNCHANGED <<registry, lock>>
    PROVE  IInv'
  <1>1. /\ TypeOK /\ at[u] \in {"called", "creating"} /\ conn[u] = "none" /\ pool[u] = NoPool
        /\ cause[u] = "none" /\ outcome[u] = "none" /\ NoRun \notin Runs /\ NoPool \notin Pools
        /\ Postgres => at[u] = "creating" /\ registry = NoPool /\ lock = u
    BY ReadersAssumption DEF IInv, Places, HasPool, Causes, CausesOf
  <1>2. UNCHANGED <<request, awaited, broken, op, left, conn, data, database, cause>>
    BY DEF NewPool
  <1>3. TypeOK'
    <2>1. /\ phase' \in [Pools -> {"open", "closing", "cut", "closed"}]
          /\ idle' \in [Pools -> 0 .. PoolSize]
          /\ pool' \in [Runs -> Pools \union {NoPool}]
      BY <1>1, ReadersAssumption DEF TypeOK, NewPool
    <2>2. registry' \in Pools \union {NoPool} /\ lock' \in Runs \union {NoRun}
      BY <1>1 DEF TypeOK
    <2> QED
      BY <1>1, <1>2, <2>1, <2>2 DEF TypeOK, request, database, data, NewPool, Move, HasPool
  <1>4. /\ at'[u] = "ready" /\ pool'[u] = p /\ phase'[p] = "open" /\ idle'[p] = PoolSize
        /\ \A v \in Runs \ {u} : at'[v] = at[v] /\ pool'[v] = pool[v]
        /\ \A q \in Pools \ {p} : phase'[q] = phase[q] /\ idle'[q] = idle[q]
    BY <1>1 DEF TypeOK, NewPool, Move
  <1>5. Postgres' = Postgres
    BY <1>2 DEF request, Postgres
  <1>6. phase[p] = "closed" /\ p # registry /\ \A v \in Runs : pool[v] # p
    BY DEF Unused
  <1>7. Postgres => \A q \in Pools : phase[q] = "closed"
    BY <1>1 DEF IInv, PoolsAreCleanedUp
  <1>8. Places'
    <2>1. ~Postgres => registry = NoPool /\ \A v \in Runs : lock # v
      BY DEF IInv, PoolsInUse, Places
    <2>2. \A v \in Runs \ {u} : lock # v \/ ~Postgres
      BY <1>1
    <2> QED
      BY <1>1, <1>2, <1>4, <1>5, <2>1, <2>2 DEF IInv, Places, HasPool, data
  <1>9. PoolsInUse'
    <2>1. \A q \in Pools \ {p} : Users(q)' = Users(q)
      BY <1>1, <1>2, <1>4 DEF Users
    <2>2. Users(p)' = {}
      BY <1>1, <1>2, <1>4, <1>6 DEF Users
    <2>3. idle'[p] + Cardinality(Users(p)') = PoolSize
      BY <1>4, <2>2, FS_EmptySet, ReadersAssumption
    <2>4. \A q \in Pools : 
            /\ phase'[q] = "closing" => lock' # NoRun /\ at'[lock'] = "closing"
            /\ phase'[q] = "cut" => lock' # NoRun /\ at'[lock'] = "shutting"
            /\ phase'[q] # "closed" => idle'[q] + Cardinality(Users(q)') = PoolSize
      <3>1. ~Postgres => lock = NoRun
        BY <1>1 DEF IInv, Places, TypeOK
      <3>2. \A q \in Pools : phase[q] # "closing" /\ phase[q] # "cut"
        BY <1>7, <3>1 DEF IInv, PoolsInUse
      <3> QED
        BY <1>4, <2>1, <2>3, <3>2 DEF IInv, PoolsInUse
    <2>5. \A v \in Runs : 
            /\ conn'[v] = "pooled" => phase'[pool'[v]] \in {"open", "closing"}
            /\ conn'[v] \in {"own", "cut"} => phase'[pool'[v]] \in {"cut", "closed"}
            /\ at'[v] = "using" /\ conn'[v] = "none" /\ phase'[pool'[v]] # "closed" => idle'[pool'[v]] = 0
      <3>1. ASSUME NEW v \in Runs \ {u}, at[v] = "using" \/ conn[v] # "none"
            PROVE  pool[v] \in Pools \ {p}
        BY <1>6, <3>1 DEF IInv, Places, HasPool, TypeOK
      <3> QED
        BY <1>1, <1>2, <1>4, <3>1 DEF IInv, PoolsInUse
    <2>6. registry' # NoPool => Postgres' /\ (phase'[registry'] = "closed" => broken')
      BY <1>4, <1>5 DEF IInv, PoolsInUse
    <2>7. ~Postgres' => \A v, w \in Runs :
            pool'[v] # NoPool => phase'[pool'[v]] = "open" /\ (pool'[v] = pool'[w] => v = w)
      <3>1. \A v \in Runs \ {u} : pool[v] # NoPool => pool[v] \in Pools \ {p}
        BY <1>6 DEF IInv, TypeOK
      <3> QED
        BY <1>1, <1>4, <1>5, <1>6, <3>1 DEF IInv, PoolsInUse
    <2> QED
      BY <2>4, <2>5, <2>6, <2>7 DEF PoolsInUse
  <1>10. Causes'
    <2>1. CausesOf(u)'
      BY <1>1, <1>2, <1>4 DEF CausesOf, HasPool
    <2>2. ASSUME NEW v \in Runs \ {u} PROVE CausesOf(v)'
      <3>1. at[v] \in HasPool => pool[v] \in Pools \ {p}
        BY <1>6 DEF IInv, Places, HasPool, TypeOK
      <3> QED
        BY <1>2, <1>4, <3>1 DEF CausesOf, IInv, Causes, data
    <2> QED
      BY <2>1, <2>2 DEF Causes
  <1>11. PoolStep(u)
    BY <1>1, <1>2, <1>4 DEF PoolStep, data
  <1>12. PoolsAreCleanedUp'
    <2>1. ~Postgres => \A q \in Pools : phase[q] # "closed" => \E v \in Runs \ {u} : pool[v] = q
      BY <1>1 DEF IInv, PoolsAreCleanedUp
    <2> QED
      BY <1>4, <1>5, <1>7, <2>1 DEF PoolsAreCleanedUp
  <1>13. FailureHasACause'
    BY <1>1, <1>2, <1>3, <1>8, <1>9, <1>10, StrandedByCleanup DEF IInv, FailureHasACause, data
  <1> QED
    BY <1>3, <1>8, <1>9, <1>10, <1>11, <1>12, <1>13, PoolStepKeepsReads DEF IInv

LEMMA NotEnteredKeeps ==
    ASSUME IInv, NEW u \in Runs, NotEntered(u),
           UNCHANGED <<request, registry, phase, idle, awaited, broken, database>>,
           \/ Postgres /\ at[u] = "creating" /\ lock' = NoRun
           \/ ~Postgres /\ at[u] = "called" /\ UNCHANGED lock
    PROVE  IInv'
  <1>1. /\ TypeOK /\ at[u] \in {"called", "creating"} /\ conn[u] = "none" /\ pool[u] = NoPool
        /\ cause[u] = "none" /\ outcome[u] = "none" /\ NoRun \notin Runs /\ NoPool \notin Pools
        /\ Postgres => at[u] = "creating" /\ registry = NoPool /\ lock = u
    BY ReadersAssumption DEF IInv, Places, HasPool, Causes, CausesOf
  <1>2. UNCHANGED <<op, left, pool, conn, stage, todo, entries>>
    BY DEF NotEntered
  <1>3. TypeOK'
    <2>1. cause' \in [Runs -> {"none", "fault", "cleanup", "stale"}]
      BY <1>1, BlameType DEF NotEntered
    <2>2. lock' \in Runs \union {NoRun} /\ outcome' \in [Runs -> {"none", "answer", "error", "raised"}]
      BY <1>1 DEF TypeOK, NotEntered
    <2> QED
      BY <1>1, <1>2, <2>1, <2>2 DEF TypeOK, request, database, NotEntered, Move
  <1>4. /\ at'[u] = "returned" /\ outcome'[u] = "raised" /\ cause'[u] = "fault"
        /\ \A v \in Runs \ {u} : at'[v] = at[v] /\ outcome'[v] = outcome[v] /\ cause'[v] = cause[v]
    BY <1>1 DEF TypeOK, NotEntered, Move, Blame
  <1>5. Postgres' = Postgres
    BY DEF request, Postgres
  <1>6. \A p : Users(p)' = Users(p)
    BY <1>2 DEF Users
  <1>7. Postgres => \A q \in Pools : phase[q] = "closed"
    BY <1>1 DEF IInv, PoolsAreCleanedUp
  <1>8. ~Postgres => lock = NoRun
    BY <1>1 DEF IInv, Places, TypeOK
  <1>9. Places'
    BY <1>1, <1>2, <1>4, <1>5, <1>8 DEF IInv, Places, HasPool
  <1>10. PoolsInUse'
    <2>1. \A q \in Pools : phase[q] # "closing" /\ phase[q] # "cut"
      BY <1>7, <1>8 DEF IInv, PoolsInUse
    <2>2. \A v \in Runs : at'[v] = "using" => at[v] = "using"
      BY <1>4
    <2> QED
      BY <1>2, <1>5, <1>6, <2>1, <2>2 DEF IInv, PoolsInUse
  <1>11. Causes'
    <2>1. CausesOf(u)'
      BY <1>4 DEF CausesOf, HasPool
    <2>2. ASSUME NEW v \in Runs \ {u} PROVE CausesOf(v)'
      BY <1>2, <1>4 DEF CausesOf, IInv, Causes
    <2> QED
      BY <2>1, <2>2 DEF Causes
  <1>12. PoolStep(u)
    BY <1>1, <1>2, <1>4 DEF PoolStep
  <1>13. PoolsAreCleanedUp'
    BY <1>1, <1>2, <1>4, <1>5, <1>7 DEF IInv, PoolsAreCleanedUp
  <1>14. FailureHasACause'
    BY <1>1, <1>2, <1>3, <1>4, <1>9, <1>10, <1>11, StrandedByCleanup DEF IInv, FailureHasACause
  <1> QED
    BY <1>3, <1>9, <1>10, <1>11, <1>12, <1>13, <1>14, PoolStepKeepsReads DEF IInv

LEMMA create_pool_Keeps ==
    ASSUME IInv, NEW u \in Runs, create_pool(u) \/ initialize(u)
    PROVE  IInv'
  <1>1. CASE create_pool(u)
    <2>1. Postgres
      BY <1>1 DEF create_pool, IInv, Places
    <2>2. ASSUME NEW p \in Pools, Fresh(p), registry' = p, NewPool(u, p) PROVE IInv'
      BY <1>1, <2>1, <2>2, PoolOpenedKeeps DEF create_pool, Fresh
    <2> QED
      BY <1>1, <2>1, <2>2, NotEnteredKeeps DEF create_pool
  <1>2. CASE initialize(u)
    <2>1. ASSUME NEW p \in Pools, Fresh(p), UNCHANGED <<registry, lock>>, NewPool(u, p) PROVE IInv'
      BY <1>2, <2>1, PoolOpenedKeeps DEF initialize, Fresh
    <2> QED
      BY <1>2, <2>1, NotEnteredKeeps DEF initialize, pools
  <1> QED
    BY <1>1, <1>2

(***************************************************************************)
(* Closing: of the registry's pool by a PostgreSQL call, of a MySQL        *)
(* reader's own.                                                           *)
(***************************************************************************)

LEMMA close_all_Keeps ==
    ASSUME IInv, NEW u \in Runs, close_all(u)
    PROVE  IInv'
  <1>1. /\ TypeOK /\ at[u] = "leave" /\ lock = NoRun /\ Postgres /\ pool[u] = NoPool
        /\ outcome[u] # "none" /\ conn[u] = "none" /\ NoRun \notin Runs /\ NoPool \notin Pools
    BY ReadersAssumption DEF IInv, close_all, Places, HasPool
  <1>2. UNCHANGED <<request, idle, broken, op, left, pool, conn, data, database>>
    BY DEF close_all
  <1>3. Postgres' = Postgres
    BY <1>2 DEF request, Postgres
  <1>4. \A p : Users(p)' = Users(p)
    BY <1>2 DEF Users
  <1>5. \A p \in Pools : phase[p] # "closed" => p = registry /\ phase[p] = "open"
    BY <1>1 DEF IInv, PoolsAreCleanedUp, PoolsInUse, TypeOK
  <1>6. CASE /\ registry \in Pools /\ phase[registry] = "open"
             /\ lock' = u /\ Move(u, "closing")
             /\ phase' = [phase EXCEPT ![registry] = "closing"]
             /\ awaited' = Users(registry)
             /\ cause' = [v \in Runs |-> IF pool[v] = registry THEN "cleanup" ELSE cause[v]]
             /\ UNCHANGED registry
    <2>1. TypeOK'
      <3>1. cause' \in [Runs -> {"none", "fault", "cleanup", "stale"}]
        BY <1>1, <1>6 DEF TypeOK
      <3> QED
        BY <1>1, <1>2, <1>6, <3>1 DEF TypeOK, request, database, data, Move, Users
    <2>2. /\ at'[u] = "closing" /\ phase'[registry] = "closing"
          /\ \A v \in Runs \ {u} : at'[v] = at[v]
          /\ \A q \in Pools \ {registry} : phase'[q] = "closed" /\ phase[q] = "closed"
      BY <1>1, <1>5, <1>6 DEF TypeOK, Move
    <2>3. Places'
      BY <1>1, <1>2, <1>3, <1>6, <2>2 DEF IInv, Places, HasPool, data
    <2>4. PoolsInUse'
      <3>1. \A v \in Runs : at'[v] = "using" => at[v] = "using"
        BY <2>2
      <3>2. \A v \in Runs : conn[v] # "none" \/ at[v] = "using" => pool[v] \in Pools
        BY DEF IInv, Places, HasPool, TypeOK
      <3> QED
        BY <1>1, <1>2, <1>3, <1>4, <1>6, <2>2, <3>1, <3>2 DEF IInv, PoolsInUse
    <2>5. Causes'
      <3>1. ASSUME NEW v \in Runs PROVE CausesOf(v)'
        <4>1. at'[v] # "closing" => at'[v] = at[v]
          BY <2>2
        <4>2. at[v] \in HasPool => pool[v] \in Pools
          BY DEF IInv, Places, TypeOK
        <4>3. at[v] \in {"called", "creating"} => pool[v] = NoPool
          BY DEF IInv, Places, HasPool
        <4> QED
          BY <1>1, <1>2, <1>6, <2>2, <4>1, <4>2, <4>3 DEF CausesOf, HasPool, IInv, Causes, data
      <3> QED
        BY <3>1 DEF Causes
    <2>6. PoolStep(u)
      BY <1>1, <1>2, <1>6, <2>2 DEF PoolStep, data
    <2>7. PoolsAreCleanedUp'
      BY <1>1, <1>2, <1>3, <1>6, <2>2 DEF PoolsAreCleanedUp
    <2>8. FailureHasACause'
      BY <1>1, <1>2, <1>6, <2>1, <2>3, <2>4, <2>5, StrandedByCleanup DEF IInv, FailureHasACause, data
    <2> QED
      BY <2>1, <2>3, <2>4, <2>5, <2>6, <2>7, <2>8, PoolStepKeepsReads DEF IInv
  <1>7. CASE /\ registry = NoPool \/ phase[registry] # "open"
             /\ registry' = NoPool /\ Move(u, "returned")
             /\ UNCHANGED <<lock, phase, awaited, cause>>
    <2>1. TypeOK'
      BY <1>1, <1>2, <1>7 DEF TypeOK, request, database, data, Move
    <2>2. /\ at'[u] = "returned"
          /\ \A v \in Runs \ {u} : at'[v] = at[v]
          /\ \A q \in Pools : phase[q] = "closed"
      BY <1>1, <1>5, <1>7 DEF TypeOK, Move
    <2>3. Places'
      BY <1>1, <1>2, <1>3, <1>7, <2>2 DEF IInv, Places, HasPool, data
    <2>4. PoolsInUse'
      <3>1. \A v \in Runs : at'[v] = "using" => at[v] = "using"
        BY <2>2
      <3> QED
        BY <1>1, <1>2, <1>3, <1>4, <1>7, <2>2, <3>1 DEF IInv, PoolsInUse
    <2>5. Causes'
      <3>1. ASSUME NEW v \in Runs PROVE CausesOf(v)'
        BY <1>2, <1>7, <2>2 DEF CausesOf, HasPool, IInv, Causes, data
      <3> QED
        BY <3>1 DEF Causes
    <2>6. PoolStep(u)
      BY <1>1, <1>2, <1>7, <2>2 DEF PoolStep, data
    <2>7. PoolsAreCleanedUp'
      BY <1>7, <2>2 DEF PoolsAreCleanedUp
    <2>8. FailureHasACause'
      BY <1>1, <1>2, <1>7, <2>1, <2>3, <2>4, <2>5, StrandedByCleanup DEF IInv, FailureHasACause, data
    <2> QED
      BY <2>1, <2>3, <2>4, <2>5, <2>6, <2>7, <2>8, PoolStepKeepsReads DEF IInv
  <1> QED
    BY <1>1, <1>6, <1>7 DEF close_all, TypeOK

\* Whoever had a connection of the pool has it cut, and the waiters served have
\* one of their own.
LEMMA CutOffConnections ==
    ASSUME IInv, NEW p \in Pools, CutOff(p)
    PROVE  /\ conn' \in [Runs -> {"none", "pooled", "own", "cut"}]
           /\ idle' \in [Pools -> 0 .. PoolSize]
           /\ \A q \in Pools \ {p} : idle'[q] = idle[q]
           /\ \A v \in Runs : pool[v] # p => conn'[v] = conn[v]
           /\ \A v \in Runs : pool[v] = p =>
                /\ conn'[v] \in {"own", "cut", "none"}
                /\ conn'[v] # "none" => at[v] \in {"using", "releasing", "failing"}
                /\ at[v] \in {"releasing", "failing"} => conn'[v] # "none"
                /\ at[v] = "using" /\ conn'[v] = "none" => idle'[p] = 0
           /\ idle'[p] + Cardinality({v \in Runs : pool[v] = p /\ conn'[v] \in {"pooled", "own"}}) = PoolSize
  <1>1. TypeOK
    BY DEF IInv
  <1>2. PICK served \in SUBSET Waiting(p) :
          /\ served = Waiting(p) \/ Cardinality(served) = PoolSize
          /\ Cardinality(served) <= PoolSize
          /\ conn' = [v \in Runs |-> IF v \in served THEN "own"
                                    ELSE IF v \in Users(p) THEN "cut" ELSE conn[v]]
          /\ idle' = [idle EXCEPT ![p] = PoolSize - Cardinality(served)]
    BY DEF CutOff
  <1>3. IsFiniteSet(served) /\ Cardinality(served) \in Nat /\ PoolSize \in Nat
    BY FS_Subset, FS_CardinalityType, ReadersAssumption DEF Waiting
  <1>4. /\ idle' \in [Pools -> 0 .. PoolSize] /\ idle'[p] = PoolSize - Cardinality(served)
        /\ \A q \in Pools \ {p} : idle'[q] = idle[q]
    <2>1. PoolSize - Cardinality(served) \in 0 .. PoolSize
      BY <1>2, <1>3
    <2> QED
      BY <1>1, <1>2, <2>1 DEF TypeOK
  <1>5. \A v \in Runs : conn'[v] = IF v \in served THEN "own"
                                   ELSE IF v \in Users(p) THEN "cut" ELSE conn[v]
    BY <1>2
  <1>6. conn' \in [Runs -> {"none", "pooled", "own", "cut"}]
    BY <1>1, <1>2 DEF TypeOK
  <1>7. \A v \in Runs : /\ v \in served => pool[v] = p /\ at[v] = "using" /\ conn[v] = "none"
                        /\ pool[v] = p /\ at[v] = "using" /\ conn[v] = "none" => v \in Waiting(p)
                        /\ v \in Users(p) <=> pool[v] = p /\ conn[v] \in {"pooled", "own"}
                        /\ conn[v] \in {"none", "pooled", "own", "cut"}
                        /\ conn[v] # "none" => at[v] \in {"using", "releasing", "failing"}
                        /\ at[v] \in {"releasing", "failing"} => conn[v] # "none"
    BY <1>1 DEF Waiting, Users, TypeOK, IInv, Places
  <1>8. {v \in Runs : pool[v] = p /\ conn'[v] \in {"pooled", "own"}} = served
    <2>1. \A v \in Runs : (pool[v] = p /\ conn'[v] \in {"pooled", "own"}) <=> v \in served
      BY <1>5, <1>7
    <2>2. served \subseteq Runs
      BY DEF Waiting
    <2> QED
      BY <2>1, <2>2
  <1>9. \A v \in Runs : pool[v] = p /\ at[v] = "using" /\ conn'[v] = "none" => idle'[p] = 0
    <2>1. \A v \in Runs : pool[v] = p /\ at[v] = "using" /\ conn'[v] = "none" =>
            v \in Waiting(p) /\ v \notin served
      BY <1>5, <1>7
    <2>2. Cardinality(served) = PoolSize => idle'[p] = 0
      BY <1>3, <1>4
    <2> QED
      BY <1>2, <2>1, <2>2
  <1>10. idle'[p] + Cardinality(served) = PoolSize
    BY <1>3, <1>4
  <1> QED
    BY <1>4, <1>5, <1>6, <1>7, <1>8, <1>9, <1>10

\* The registry's pool goes on to its next phase, without its connections, or
\* with those that were cut already.
ClosingStep(u) ==
    /\ \/ at[u] = "closing" /\ at'[u] = "shutting"
       \/ at[u] = "shutting" /\ at'[u] = "returned"
    /\ outcome'[u] \in {outcome[u], "raised"}
    /\ \A v \in Runs \ {u} : at'[v] = at[v] /\ outcome'[v] = outcome[v] /\ cause'[v] = cause[v]
    /\ cause[u] # "none" => cause'[u] = cause[u]
    /\ cause'[u] = "stale" => cause[u] = "stale"
    /\ outcome'[u] = "raised" => cause'[u] # "none"
    /\ phase' = [phase EXCEPT ![registry] = IF at'[u] = "shutting" THEN "cut" ELSE "closed"]
    /\ UNCHANGED <<request, op, left, pool, stage, todo, entries, database>>
    /\ IF at'[u] = "shutting" THEN registry' = registry /\ lock' = lock
       ELSE lock' = NoRun /\ (registry' = NoPool \/ (registry' = registry /\ broken'))
    /\ broken => broken'
    /\ CutOff(registry) \/ (at[u] = "shutting" /\ UNCHANGED <<idle, conn>>)

LEMMA ClosingStepKeeps ==
    ASSUME IInv, NEW u \in Runs, ClosingStep(u), TypeOK'
    PROVE  IInv'
  <1>1. /\ TypeOK /\ at[u] \in {"closing", "shutting"} /\ lock = u /\ Postgres /\ pool[u] = NoPool
        /\ outcome[u] # "none" /\ conn[u] = "none" /\ NoRun \notin Runs /\ NoPool \notin Pools
        /\ registry \in Pools
        /\ at[u] = "closing" => phase[registry] = "closing" /\ at'[u] = "shutting"
        /\ at[u] = "shutting" => phase[registry] = "cut" /\ at'[u] = "returned"
    BY ReadersAssumption DEF IInv, ClosingStep, Places, HasPool, TypeOK
  <1>2. PICK p \in Pools : p = registry
    BY <1>1
  <1>3. /\ UNCHANGED <<request, op, left, pool, stage, todo, entries, database>>
        /\ Postgres' = Postgres
    BY DEF ClosingStep, request, Postgres
  <1>4. \A v \in Runs \ {u} : at'[v] = at[v] /\ outcome'[v] = outcome[v] /\ cause'[v] = cause[v]
    BY DEF ClosingStep
  <1>5. /\ phase'[p] = IF at'[u] = "shutting" THEN "cut" ELSE "closed"
        /\ \A q \in Pools \ {p} : phase'[q] = "closed" /\ phase[q] = "closed"
    BY <1>1, <1>2 DEF ClosingStep, TypeOK, IInv, PoolsAreCleanedUp
  <1>6. /\ at'[u] = "shutting" => registry' = p /\ lock' = u
        /\ at'[u] = "returned" => lock' = NoRun /\ (registry' = NoPool \/ (registry' = p /\ broken'))
        /\ at'[u] \in {"shutting", "returned"}
        /\ broken => broken'
    BY <1>1, <1>2 DEF ClosingStep
  <1>7. \A v \in Runs :
          /\ conn'[v] # "none" => at[v] \in {"using", "releasing", "failing"}
          /\ at[v] \in {"releasing", "failing"} => conn'[v] # "none"
          /\ pool[v] # p => conn'[v] = conn[v]
          /\ pool[v] = p => conn'[v] \in {"own", "cut", "none"}
          /\ phase'[p] # "closed" /\ pool[v] = p /\ at[v] = "using" /\ conn'[v] = "none" => idle'[p] = 0
    <2>1. CASE CutOff(p)
      <3>1. \A v \in Runs :
              /\ conn[v] # "none" => at[v] \in {"using", "releasing", "failing"}
              /\ at[v] \in {"releasing", "failing"} => conn[v] # "none"
        BY DEF IInv, Places
      <3>2. /\ \A v \in Runs : pool[v] # p => conn'[v] = conn[v]
            /\ \A v \in Runs : pool[v] = p =>
                 /\ conn'[v] \in {"own", "cut", "none"}
                 /\ conn'[v] # "none" => at[v] \in {"using", "releasing", "failing"}
                 /\ at[v] \in {"releasing", "failing"} => conn'[v] # "none"
                 /\ at[v] = "using" /\ conn'[v] = "none" => idle'[p] = 0
        BY <2>1, CutOffConnections
      <3> QED
        BY <3>1, <3>2
    <2>2. CASE at[u] = "shutting" /\ UNCHANGED <<idle, conn>>
      BY <1>1, <1>2, <1>5, <2>2 DEF IInv, Places, PoolsInUse, TypeOK
    <2> QED
      BY <1>2, <2>1, <2>2 DEF ClosingStep
  <1>8. phase'[p] # "closed" => idle'[p] + Cardinality(Users(p)') = PoolSize
    <2>1. CASE CutOff(p)
      <3>1. Users(p)' = {v \in Runs : pool[v] = p /\ conn'[v] \in {"pooled", "own"}}
        BY <1>3 DEF Users
      <3> QED
        BY <2>1, <3>1, CutOffConnections
    <2>2. CASE at[u] = "shutting"
      BY <1>1, <1>5, <2>2
    <2> QED
      BY <1>2, <2>1, <2>2 DEF ClosingStep
  <1>9. Places'
    <2>1. ASSUME NEW v \in Runs \ {u} PROVE at[v] \notin {"creating", "closing", "shutting"}
      BY <1>1 DEF IInv, Places
    <2>2. outcome'[u] # "none"
      BY <1>1 DEF ClosingStep
    <2> QED
      BY <1>1, <1>3, <1>4, <1>5, <1>6, <1>7, <2>1, <2>2 DEF IInv, Places, HasPool
  <1>10. PoolsInUse'
    <2>1. \A v \in Runs : at'[v] = "using" => at[v] = "using"
      BY <1>4, <1>6
    <2>2. \A v \in Runs : conn'[v] # "none" \/ at[v] = "using" => pool[v] \in Pools
      BY <1>7 DEF IInv, Places, HasPool, TypeOK
    <2>3. \A v \in Runs : pool[v] \in Pools \ {p} =>
            (conn[v] # "pooled" /\ phase'[pool[v]] = "closed")
      BY <1>5 DEF IInv, PoolsInUse
    <2>4. \A v \in Runs :
            /\ conn'[v] = "pooled" => phase'[pool'[v]] \in {"open", "closing"}
            /\ conn'[v] \in {"own", "cut"} => phase'[pool'[v]] \in {"cut", "closed"}
            /\ at'[v] = "using" /\ conn'[v] = "none" /\ phase'[pool'[v]] # "closed" => idle'[pool'[v]] = 0
      BY <1>3, <1>5, <1>7, <2>1, <2>2, <2>3
    <2> QED
      BY <1>1, <1>3, <1>5, <1>6, <1>8, <2>4 DEF PoolsInUse
  <1>11. Causes'
    <2>1. CausesOf(u)'
      BY <1>6 DEF CausesOf, HasPool
    <2>2. ASSUME NEW v \in Runs \ {u} PROVE CausesOf(v)'
      <3>1. at[v] \in HasPool => pool[v] \in Pools
        BY DEF IInv, Places, TypeOK
      <3> QED
        BY <1>1, <1>2, <1>3, <1>4, <1>5, <3>1 DEF CausesOf, HasPool, IInv, Causes
    <2> QED
      BY <2>1, <2>2 DEF Causes
  <1>12. PoolStep(u)
    BY <1>1, <1>3, <1>4, <1>6 DEF PoolStep, ClosingStep
  <1>13. PoolsAreCleanedUp'
    BY <1>1, <1>3, <1>5, <1>6 DEF PoolsAreCleanedUp
  <1>14. FailureHasACause'
    <2>1. \A v \in Runs : outcome'[v] \in {"error", "raised"} => cause'[v] # "none"
      BY <1>4 DEF ClosingStep, IInv, FailureHasACause
    <2>2. \A v \in Runs : cause'[v] = "stale" => broken'
      BY <1>4, <1>6 DEF ClosingStep, IInv, FailureHasACause
    <2> QED
      BY <1>9, <1>10, <1>11, <2>1, <2>2, StrandedByCleanup DEF FailureHasACause
  <1> QED
    BY <1>9, <1>10, <1>11, <1>12, <1>13, <1>14, PoolStepKeepsReads DEF IInv

LEMMA CloseConnections_Keeps ==
    ASSUME IInv, NEW u \in Runs, CloseConnections(u)
    PROVE  IInv'
  <1>1. TypeOK /\ at[u] = "closing" /\ registry \in Pools /\ outcome[u] # "none"
    BY DEF IInv, CloseConnections, Places, TypeOK
  <1>2. CutOff(registry) /\ Move(u, "shutting") /\ phase' = [phase EXCEPT ![registry] = "cut"]
        /\ UNCHANGED <<request, registry, lock, awaited, broken, op, left, pool, data, database, cause>>
    BY DEF CloseConnections
  <1>3. /\ conn' \in [Runs -> {"none", "pooled", "own", "cut"}]
        /\ idle' \in [Pools -> 0 .. PoolSize]
    BY <1>1, <1>2, CutOffConnections
  <1>4. TypeOK'
    BY <1>1, <1>2, <1>3 DEF TypeOK, request, database, data, Move
  <1>5. ClosingStep(u)
    <2>1. at'[u] = "shutting" /\ \A v \in Runs \ {u} : at'[v] = at[v]
      BY <1>1, <1>2 DEF Move, TypeOK
    <2>2. outcome[u] = "raised" => cause[u] # "none"
      BY DEF IInv, FailureHasACause
    <2> QED
      BY <1>1, <1>2, <2>1, <2>2 DEF ClosingStep, data
  <1> QED
    BY <1>4, <1>5, ClosingStepKeeps

LEMMA Shut_Keeps ==
    ASSUME IInv, NEW u \in Runs, Shut(u)
    PROVE  IInv'
  <1>1. TypeOK /\ at[u] = "shutting" /\ registry \in Pools /\ outcome[u] # "none"
    BY DEF IInv, Shut, Places, TypeOK
  <1>2. /\ phase' = [phase EXCEPT ![registry] = "closed"] /\ lock' = NoRun /\ Move(u, "returned")
        /\ UNCHANGED <<request, awaited, op, left, pool, stage, todo, entries, database>>
    BY DEF Shut
  <1>3. \/ /\ registry' = NoPool /\ UNCHANGED <<idle, conn, outcome, cause, broken>>
        \/ /\ registry' = registry /\ CutOff(registry) /\ broken' = TRUE
           /\ outcome' = [outcome EXCEPT ![u] = "raised"] /\ Blame(u, "fault")
    BY DEF Shut
  <1>4. at'[u] = "returned" /\ \A v \in Runs \ {u} : at'[v] = at[v]
    BY <1>1, <1>2 DEF Move, TypeOK
  <1>5. TypeOK'
    <2>1. /\ conn' \in [Runs -> {"none", "pooled", "own", "cut"}]
          /\ idle' \in [Pools -> 0 .. PoolSize]
      BY <1>1, <1>3, CutOffConnections DEF TypeOK
    <2>2. cause' \in [Runs -> {"none", "fault", "cleanup", "stale"}]
      BY <1>1, <1>3, BlameType DEF TypeOK
    <2>3. /\ outcome' \in [Runs -> {"none", "answer", "error", "raised"}]
          /\ registry' \in Pools \union {NoPool} /\ broken' \in BOOLEAN
      BY <1>1, <1>3 DEF TypeOK
    <2> QED
      BY <1>1, <1>2, <2>1, <2>2, <2>3 DEF TypeOK, request, database, Move
  <1>6. ClosingStep(u)
    <2>1. CASE registry' = NoPool /\ UNCHANGED <<idle, conn, outcome, cause, broken>>
      <3>1. outcome[u] = "raised" => cause[u] # "none"
        BY DEF IInv, FailureHasACause
      <3> QED
        BY <1>1, <1>2, <1>4, <2>1, <3>1 DEF ClosingStep
    <2>2. CASE /\ registry' = registry /\ CutOff(registry) /\ broken' = TRUE
               /\ outcome' = [outcome EXCEPT ![u] = "raised"] /\ Blame(u, "fault")
      <3>1. /\ outcome'[u] = "raised" /\ \A v \in Runs \ {u} : outcome'[v] = outcome[v] /\ cause'[v] = cause[v]
            /\ cause'[u] = IF cause[u] = "none" THEN "fault" ELSE cause[u]
        BY <1>1, <2>2 DEF TypeOK, Blame
      <3> QED
        BY <1>1, <1>2, <1>4, <2>2, <3>1 DEF ClosingStep
    <2> QED
      BY <1>3, <2>1, <2>2
  <1> QED
    BY <1>5, <1>6, ClosingStepKeeps

LEMMA close_Keeps ==
    ASSUME IInv, NEW u \in Runs, close(u)
    PROVE  IInv'
  <1>1. /\ TypeOK /\ at[u] = "leave" /\ ~Postgres /\ outcome[u] # "none" /\ conn[u] = "none"
        /\ pool[u] # NoPool /\ NoRun \notin Runs /\ NoPool \notin Pools
    BY ReadersAssumption DEF IInv, close, Places, HasPool
  <1>2. PICK p \in Pools : p = pool[u]
    BY <1>1 DEF TypeOK
  <1>3. /\ UNCHANGED <<request, registry, lock, awaited, broken, op, left, conn, data, database, cause>>
        /\ Postgres' = Postgres
    BY DEF close, request, Postgres
  <1>4. /\ at'[u] = "returned" /\ pool'[u] = NoPool /\ phase'[p] = "closed"
        /\ \A v \in Runs \ {u} : at'[v] = at[v] /\ pool'[v] = pool[v] /\ pool[v] # p
        /\ \A q \in Pools \ {p} : phase'[q] = phase[q] /\ idle'[q] = idle[q]
    BY <1>1, <1>2 DEF TypeOK, close, Move, IInv, PoolsInUse
  <1>5. TypeOK'
    <2>1. /\ phase' \in [Pools -> {"open", "closing", "cut", "closed"}]
          /\ idle' \in [Pools -> 0 .. PoolSize]
          /\ pool' \in [Runs -> Pools \union {NoPool}]
      BY <1>1, ReadersAssumption DEF TypeOK, close
    <2> QED
      BY <1>1, <1>3, <2>1 DEF TypeOK, request, database, data, close, Move
  <1>6. Places'
    BY <1>1, <1>3, <1>4 DEF IInv, Places, HasPool, data
  <1>7. PoolsInUse'
    <2>1. \A q \in Pools \ {p} : Users(q)' = Users(q)
      BY <1>1, <1>3, <1>4 DEF Users
    <2>2. \A v \in Runs : at'[v] = "using" \/ conn'[v] # "none" => v # u /\ pool[v] \in Pools \ {p}
      BY <1>1, <1>3, <1>4 DEF IInv, Places, HasPool, TypeOK
    <2>3. \A v \in Runs \ {u} : pool[v] # NoPool => pool[v] \in Pools \ {p}
      BY <1>1, <1>4 DEF TypeOK
    <2>4. \A v \in Runs :
            /\ conn'[v] = "pooled" => phase'[pool'[v]] \in {"open", "closing"}
            /\ conn'[v] \in {"own", "cut"} => phase'[pool'[v]] \in {"cut", "closed"}
            /\ at'[v] = "using" /\ conn'[v] = "none" /\ phase'[pool'[v]] # "closed" => idle'[pool'[v]] = 0
      BY <1>3, <1>4, <2>2 DEF IInv, PoolsInUse
    <2>5. \A v, w \in Runs :
            pool'[v] # NoPool => phase'[pool'[v]] = "open" /\ (pool'[v] = pool'[w] => v = w)
      BY <1>1, <1>4, <2>3 DEF IInv, PoolsInUse
    <2>6. lock = NoRun
      BY <1>1 DEF IInv, Places, TypeOK
    <2>7. \A q \in Pools :
            /\ phase'[q] # "closing" /\ phase'[q] # "cut"
            /\ phase'[q] # "closed" => idle'[q] + Cardinality(Users(q)') = PoolSize
      BY <1>4, <2>1, <2>6 DEF IInv, PoolsInUse
    <2>8. registry' = NoPool
      BY <1>1, <1>3 DEF IInv, PoolsInUse
    <2> QED
      BY <1>3, <1>1, <2>4, <2>5, <2>7, <2>8 DEF PoolsInUse
  <1>8. Causes'
    <2>1. CausesOf(u)'
      BY <1>4 DEF CausesOf, HasPool
    <2>2. ASSUME NEW v \in Runs \ {u} PROVE CausesOf(v)'
      <3>1. at[v] \in HasPool => pool[v] \in Pools \ {p}
        BY <1>4 DEF IInv, Places, TypeOK
      <3> QED
        BY <1>3, <1>4, <3>1 DEF CausesOf, IInv, Causes, data
    <2> QED
      BY <2>1, <2>2 DEF Causes
  <1>9. PoolStep(u)
    BY <1>1, <1>3, <1>4 DEF PoolStep, data
  <1>10. PoolsAreCleanedUp'
    BY <1>1, <1>2, <1>3, <1>4 DEF IInv, PoolsAreCleanedUp
  <1>11. FailureHasACause'
    BY <1>3, <1>5, <1>6, <1>7, <1>8, StrandedByCleanup DEF IInv, FailureHasACause, data
  <1> QED
    BY <1>5, <1>6, <1>7, <1>8, <1>9, <1>10, <1>11, PoolStepKeepsReads DEF IInv

(***************************************************************************)
(* From one call to the next, and to the end of the task.                  *)
(***************************************************************************)

TaskStep(u) ==
    /\ at[u] = "returned" /\ at'[u] \in {"called", "ended"}
    /\ outcome'[u] = "none" /\ cause'[u] = "none"
    /\ \A v \in Runs \ {u} :
         /\ at'[v] = at[v] /\ outcome'[v] = outcome[v] /\ cause'[v] = cause[v] /\ op'[v] = op[v]
         /\ stage'[v] = stage[v] /\ todo'[v] = todo[v] /\ entries'[v] = entries[v]
         /\ throughout'[v] = throughout[v] /\ ever'[v] = ever[v]
    /\ UNCHANGED <<request, pools, pool, conn, there>>

LEMMA TaskStepKeeps ==
    ASSUME IInv, TypeOK', NEW u \in Runs, TaskStep(u), ReadsOf(u)'
    PROVE  IInv'
  <1>1. UNCHANGED <<pools, pool, conn, there>> /\ asked' = asked /\ Postgres' = Postgres
    BY DEF TaskStep, request, Postgres
  <1>2. \A p : Users(p)' = Users(p)
    BY <1>1 DEF Users
  <1>3. conn[u] = "none" /\ pool[u] = NoPool /\ lock # u
    BY DEF TaskStep, IInv, Places, HasPool
  <1>4. Places'
    BY <1>1, <1>3 DEF TaskStep, IInv, Places, HasPool, pools
  <1>5. PoolsInUse'
    <2>1. \A v \in Runs : at[v] # "returned" => at'[v] = at[v]
      BY DEF TaskStep
    <2>2. \A v \in Runs : at'[v] = "using" => at[v] = "using"
      BY DEF TaskStep
    <2>3. \A p \in Pools :
            /\ phase[p] = "closing" => lock # NoRun /\ at'[lock] = "closing"
            /\ phase[p] = "cut" => lock # NoRun /\ at'[lock] = "shutting"
      BY <2>1 DEF IInv, PoolsInUse, TypeOK
    <2> QED
      BY <1>1, <1>2, <2>2, <2>3 DEF IInv, PoolsInUse, pools
  <1>6. Causes'
    <2>1. CausesOf(u)'
      BY DEF TaskStep, CausesOf, HasPool
    <2>2. ASSUME NEW v \in Runs \ {u} PROVE CausesOf(v)'
      BY <1>1 DEF TaskStep, CausesOf, IInv, Causes, pools
    <2> QED
      BY <2>1, <2>2 DEF Causes
  <1>7. Reads' /\ AnswersComplete'
    <2>1. ASSUME NEW v \in Runs \ {u} PROVE ReadsOf(v)' /\ AnswerOf(v)'
      <3>1. ReadsOf(v) /\ AnswerOf(v)
        BY DEF IInv, Reads, AnswersComplete
      <3>2. ReadsOf(v)'
        <4>1. /\ at'[v] = at[v] /\ outcome'[v] = outcome[v] /\ cause'[v] = cause[v]
              /\ op'[v] = op[v] /\ stage'[v] = stage[v] /\ todo'[v] = todo[v]
              /\ entries'[v] = entries[v] /\ asked'[v] = asked[v] /\ there' = there
              /\ throughout'[v] = throughout[v] /\ ever'[v] = ever[v]
          BY <1>1 DEF TaskStep
        <4>2. Current(v)' = Current(v) /\ (Reading(v)' <=> Reading(v)) /\ (Listing(v)' <=> Listing(v))
          BY <4>1 DEF Current, Reading, Listing
        <4> QED
          BY <3>1, <4>1, <4>2 DEF ReadsOf
      <3>3. AnswerOf(v)'
        BY <1>1, <3>1 DEF TaskStep, AnswerOf
      <3> QED
        BY <3>2, <3>3
    <2>2. AnswerOf(u)'
      BY DEF TaskStep, AnswerOf
    <2> QED
      BY <2>1, <2>2 DEF Reads, AnswersComplete
  <1>8. PoolsAreCleanedUp'
    BY <1>1 DEF TaskStep, IInv, PoolsAreCleanedUp, pools
  <1>9. FailureHasACause'
    <2>1. \A v \in Runs : /\ outcome'[v] \in {"error", "raised"} => cause'[v] # "none"
                          /\ cause'[v] = "stale" => broken'
      BY <1>1 DEF TaskStep, IInv, FailureHasACause, pools
    <2> QED
      BY <1>4, <1>5, <1>6, <2>1, StrandedByCleanup DEF FailureHasACause
  <1> QED
    BY <1>4, <1>5, <1>6, <1>7, <1>8, <1>9 DEF IInv

LEMMA CallKeeps ==
    ASSUME IInv, NEW u \in Runs, NEW o \in Ops, Call(u, o), at[u] = "returned",
           o = "sample" => task[u] = "tables",
           left' \in [Runs -> 0 .. MaxDimensions],
           UNCHANGED <<request, pools, pool, conn, there>>
    PROVE  IInv'
  <1>1. TypeOK
    BY DEF IInv
  <1>2. asked[u] \subseteq Tables /\ there \subseteq Tables
    BY <1>1, ReadersAssumption DEF TypeOK
  <1>3. /\ throughout' \in [Runs -> SUBSET Tables] /\ ever' \in [Runs -> SUBSET Tables]
        /\ throughout'[u] = (IF o \in Described THEN there ELSE {}) /\ ever'[u] = throughout'[u]
        /\ \A v \in Runs \ {u} : throughout'[v] = throughout[v] /\ ever'[v] = ever[v]
    <2>1. /\ throughout' \in [Runs -> SUBSET Tables]
          /\ throughout'[u] = (IF o \in Described THEN there ELSE {})
          /\ \A v \in Runs \ {u} : throughout'[v] = throughout[v]
      BY <1>1, <1>2 DEF TypeOK, Call
    <2>2. ever' = [ever EXCEPT ![u] = throughout'[u]]
      BY DEF Call
    <2> QED
      BY <1>1, <2>1, <2>2 DEF TypeOK
  <1>4. /\ todo' \in [Runs -> SUBSET Tables] /\ stage' \in [Runs -> {"tables", "columns", "rows"}]
        /\ todo'[u] = (IF o = "sample" THEN asked[u] ELSE {}) /\ stage'[u] = FirstStage(u, o)
        /\ \A v \in Runs \ {u} : todo'[v] = todo[v] /\ stage'[v] = stage[v]
    BY <1>1, <1>2 DEF TypeOK, Call, FirstStage
  <1>5. /\ entries' \in [Runs -> [Tables -> {"none", "full", "bare", "error"}]]
        /\ entries'[u] = Blank /\ \A v \in Runs \ {u} : entries'[v] = entries[v]
    <2>1. Blank \in [Tables -> {"none", "full", "bare", "error"}]
      BY DEF Blank
    <2> QED
      BY <1>1, <2>1 DEF TypeOK, Call
  <1>6. /\ at'[u] = "called" /\ outcome'[u] = "none" /\ cause'[u] = "none" /\ op'[u] = o
        /\ \A v \in Runs \ {u} :
             at'[v] = at[v] /\ outcome'[v] = outcome[v] /\ cause'[v] = cause[v] /\ op'[v] = op[v]
    BY <1>1 DEF TypeOK, Call, Move
  <1>7. TypeOK'
    <2>1. /\ outcome' \in [Runs -> {"none", "answer", "error", "raised"}]
          /\ cause' \in [Runs -> {"none", "fault", "cleanup", "stale"}]
          /\ op' \in [Runs -> Ops]
      BY <1>1 DEF TypeOK, Call
    <2>2. at' \in [Runs -> HasPool \union {"called", "creating", "leave", "closing", "shutting",
                                           "returned", "ended"}]
      BY <1>1 DEF TypeOK, Call, Move
    <2> QED
      BY <1>1, <1>3, <1>4, <1>5, <2>1, <2>2 DEF TypeOK, request, pools
  <1>8. ReadsOf(u)'
    <2>1. asked' = asked /\ there' = there
      BY DEF request
    <2>2. \A t \in Tables : entries'[u][t] = "none"
      BY <1>5 DEF Blank
    <2> QED
      BY <1>3, <1>4, <1>5, <1>6, <2>1, <2>2
         DEF ReadsOf, FirstStage, Described, Listing, Reading, Ops
  <1>9. TaskStep(u)
    BY <1>3, <1>4, <1>5, <1>6 DEF TaskStep
  <1> QED
    BY <1>7, <1>8, <1>9, TaskStepKeeps

LEMMA EndTaskKeeps ==
    ASSUME IInv, NEW u \in Runs, EndTask(u)
    PROVE  IInv'
  <1>1. TypeOK /\ at[u] = "returned" /\ ReadsOf(u)
    BY DEF IInv, EndTask, Reads
  <1>2. /\ at'[u] = "ended" /\ outcome'[u] = "none" /\ cause'[u] = "none" /\ entries'[u] = Blank
        /\ \A v \in Runs \ {u} :
             /\ at'[v] = at[v] /\ outcome'[v] = outcome[v] /\ cause'[v] = cause[v]
             /\ entries'[v] = entries[v] /\ throughout'[v] = throughout[v] /\ ever'[v] = ever[v]
        /\ UNCHANGED <<request, pools, op, left, pool, conn, stage, todo, there>>
    BY <1>1 DEF TypeOK, EndTask, Move
  <1>3. TypeOK'
    <2>1. /\ outcome' \in [Runs -> {"none", "answer", "error", "raised"}]
          /\ cause' \in [Runs -> {"none", "fault", "cleanup", "stale"}]
          /\ throughout' \in [Runs -> SUBSET Tables] /\ ever' \in [Runs -> SUBSET Tables]
      BY <1>1 DEF TypeOK, EndTask
    <2>2. at' \in [Runs -> HasPool \union {"called", "creating", "leave", "closing", "shutting",
                                           "returned", "ended"}]
      BY <1>1 DEF TypeOK, EndTask, Move
    <2>3. entries' \in [Runs -> [Tables -> {"none", "full", "bare", "error"}]]
      <3>1. Blank \in [Tables -> {"none", "full", "bare", "error"}]
        BY DEF Blank
      <3> QED
        BY <1>1, <3>1 DEF TypeOK, EndTask
    <2> QED
      BY <1>1, <1>2, <2>1, <2>2, <2>3 DEF TypeOK, request, pools
  <1>4. ReadsOf(u)'
    BY <1>1, <1>2 DEF ReadsOf, Listing, Reading, HasPool, request
  <1>5. TaskStep(u)
    BY <1>1, <1>2 DEF TaskStep
  <1> QED
    BY <1>3, <1>4, <1>5, TaskStepKeeps

LEMMA TaskKeepsInvariant ==
    ASSUME IInv, NEW u \in Runs, DescribeNext(u) \/ process_dimensions(u) \/ EndTask(u)
    PROVE  IInv'
  <1>1. CASE DescribeNext(u)
    <2>1. After(op[u]) \in Ops /\ left' \in [Runs -> 0 .. MaxDimensions] /\ task[u] = "tables"
      BY <1>1 DEF DescribeNext, After, Ops, IInv, TypeOK
    <2> QED
      BY <1>1, <2>1, CallKeeps DEF DescribeNext
  <1>2. CASE process_dimensions(u)
    <2>1. "query" \in Ops /\ left' \in [Runs -> 0 .. MaxDimensions]
      BY <1>2, ReadersAssumption DEF process_dimensions, Ops, IInv, TypeOK
    <2> QED
      BY <1>2, <2>1, CallKeeps DEF process_dimensions
  <1> QED
    BY <1>1, <1>2, EndTaskKeeps

(***************************************************************************)
(* Others change the tables.                                               *)
(***************************************************************************)

LEMMA AlterKeepsInvariant ==
    ASSUME IInv, Alter
    PROVE  IInv'
  <1>1. TypeOK /\ there' \subseteq Tables
    BY ReadersAssumption DEF IInv, Alter, TypeOK
  <1>2. UNCHANGED <<request, pools, control, data, cause>> /\ Postgres' = Postgres
    BY DEF Alter, request, Postgres
  <1>3. \A u \in Runs :
          /\ throughout'[u] = IF Reading(u) THEN throughout[u] \intersect there' ELSE throughout[u]
          /\ ever'[u] = IF Reading(u) THEN ever[u] \union there' ELSE ever[u]
    BY DEF Alter
  <1>4. TypeOK'
    <2>1. throughout' \in [Runs -> SUBSET Tables]
      BY <1>1 DEF TypeOK, Alter
    <2>2. ever' \in [Runs -> SUBSET Tables]
      BY <1>1 DEF TypeOK, Alter
    <2> QED
      BY <1>1, <1>2, <2>1, <2>2 DEF TypeOK, request, pools, control, data
  <1>5. \A p : Users(p)' = Users(p)
    BY <1>2 DEF Users, control
  <1>6. /\ at' = at /\ op' = op /\ pool' = pool /\ conn' = conn /\ stage' = stage /\ todo' = todo
        /\ entries' = entries /\ outcome' = outcome /\ cause' = cause /\ asked' = asked
        /\ registry' = registry /\ lock' = lock /\ phase' = phase /\ idle' = idle /\ broken' = broken
    BY <1>2 DEF request, pools, control, data
  <1>7. Places' /\ PoolsInUse' /\ PoolsAreCleanedUp'
    BY <1>2, <1>5, <1>6 DEF IInv, Places, PoolsInUse, PoolsAreCleanedUp
  <1>8. Causes'
    BY <1>6 DEF IInv, Causes, CausesOf
  <1>9. FailureHasACause'
    BY <1>4, <1>6, <1>7, <1>8, StrandedByCleanup DEF IInv, FailureHasACause
  <1>10. ASSUME NEW u \in Runs PROVE ReadsOf(u)' /\ AnswerOf(u)'
    <2>1. ReadsOf(u) /\ AnswerOf(u)
      BY DEF IInv, Reads, AnswersComplete
    <2>2. outcome[u] = "answer" => ~Reading(u)
      BY DEF Reading
    <2>3. AnswerOf(u)'
      BY <1>3, <1>6, <2>1, <2>2 DEF AnswerOf
    <2>4. ReadsOf(u)'
      <3>1. Current(u)' = Current(u) /\ (Reading(u)' <=> Reading(u)) /\ (Listing(u)' <=> Listing(u))
        BY <1>6 DEF Current, Reading, Listing
      <3>2. throughout'[u] \subseteq throughout[u] /\ ever[u] \subseteq ever'[u]
        BY <1>3
      <3> QED
        BY <1>3, <1>6, <2>1, <3>1, <3>2 DEF ReadsOf
    <2> QED
      BY <2>3, <2>4
  <1> QED
    BY <1>4, <1>7, <1>8, <1>9, <1>10 DEF IInv, Reads, AnswersComplete

(***************************************************************************)
(* The invariant and what it implies.                                      *)
(***************************************************************************)

LEMMA InitInvariant == Init => IInv
  <1> SUFFICES ASSUME Init PROVE IInv
    OBVIOUS
  <1>1. \A u \in Runs : FirstOp(u) \in {"schema", "query"}
    BY DEF FirstOp
  <1>2. TypeOK
    <2>1. /\ op \in [Runs -> Ops] /\ stage \in [Runs -> {"tables", "columns", "rows"}]
          /\ throughout \in [Runs -> SUBSET Tables] /\ ever \in [Runs -> SUBSET Tables]
      BY <1>1 DEF Init, FirstStage, Ops
    <2>2. /\ at \in [Runs -> HasPool \union {"called", "creating", "leave", "closing", "shutting",
                                            "returned", "ended"}]
          /\ entries \in [Runs -> [Tables -> {"none", "full", "bare", "error"}]]
      BY DEF Init, Blank
    <2>3. idle \in [Pools -> 0 .. PoolSize]
      BY ReadersAssumption DEF Init
    <2> QED
      BY <2>1, <2>2, <2>3 DEF Init, TypeOK
  <1>3. /\ \A u \in Runs : at[u] = "called" /\ pool[u] = NoPool /\ conn[u] = "none"
             /\ cause[u] = "none" /\ outcome[u] = "none" /\ entries[u] = Blank /\ todo[u] = {}
        /\ lock = NoRun /\ registry = NoPool /\ \A p \in Pools : phase[p] = "closed"
        /\ NoRun \notin Runs
    BY ReadersAssumption DEF Init
  <1>4. Places
    BY <1>3 DEF Places, HasPool
  <1>5. PoolsInUse /\ PoolsAreCleanedUp /\ Causes
    BY <1>3 DEF PoolsInUse, PoolsAreCleanedUp, Causes, CausesOf, HasPool
  <1>6. FailureHasACause /\ AnswersComplete
    BY <1>3 DEF FailureHasACause, Stranded, AnswersComplete, AnswerOf
  <1>7. Reads
    <2>1. \A u \in Runs : /\ op[u] = FirstOp(u) /\ stage[u] = FirstStage(u, FirstOp(u))
                          /\ throughout[u] = IF op[u] \in Described THEN there ELSE {}
                          /\ ever[u] = throughout[u]
      BY DEF Init
    <2>2. \A u \in Runs : \A t \in Tables : entries[u][t] = "none"
      BY <1>3 DEF Blank
    <2> QED
      BY <1>1, <1>3, <2>1, <2>2 DEF Reads, ReadsOf, FirstStage, Described, Listing, Reading, HasPool
  <1> QED
    BY <1>2, <1>4, <1>5, <1>6, <1>7 DEF IInv

LEMMA NextInvariant == IInv /\ [Next]_vars => IInv'
  <1> SUFFICES ASSUME IInv, [Next]_vars PROVE IInv'
    OBVIOUS
  <1>1. ASSUME NEW u \in Runs, Step(u) PROVE IInv'
    <2>1. CASE get_pool(u)
      BY <2>1, get_pool_Keeps
    <2>2. CASE create_pool(u) \/ initialize(u)
      BY <2>2, create_pool_Keeps
    <2>3. CASE Acquire(u)
      BY <2>3, AcquireKeepsInvariant
    <2>4. CASE PostgresTables(u) \/ PostgresColumns(u) \/ MySQLTables(u) \/ MySQLColumns(u) \/ MySQLNames(u)
      BY <2>4, PostgresTables_Keeps, PostgresColumns_Keeps, MySQLTables_Keeps, MySQLColumns_Keeps,
         MySQLNames_Keeps
    <2>5. CASE PostgresQuery(u) \/ MySQLQuery(u) \/ PostgresRelationship(u) \/ MySQLRelationship(u)
      BY <2>5, Statement_Keeps DEF PostgresQuery, MySQLQuery, PostgresRelationship, MySQLRelationship
    <2>6. CASE SampleTable(u) \/ FetchFails(u)
      BY <2>6, SampleTable_Keeps, FetchFails_Keeps
    <2>7. CASE Release(u) \/ ReleaseFailing(u)
      BY <2>7, ReleaseKeepsInvariant
    <2>8. CASE close_all(u) \/ CloseConnections(u) \/ Shut(u) \/ close(u)
      BY <2>8, close_all_Keeps, CloseConnections_Keeps, Shut_Keeps, close_Keeps
    <2>9. CASE DescribeNext(u) \/ process_dimensions(u) \/ EndTask(u)
      BY <2>9, TaskKeepsInvariant
    <2> QED
      BY <1>1, <2>1, <2>2, <2>3, <2>4, <2>5, <2>6, <2>7, <2>8, <2>9 DEF Step
  <1>2. ASSUME UNCHANGED vars PROVE IInv'
    <2>1. /\ UNCHANGED <<dbtype, task, asked, registry, lock, phase, idle, awaited, broken>>
          /\ UNCHANGED <<at, op, left, pool, conn, stage, todo, entries, outcome>>
          /\ UNCHANGED <<there, throughout, ever, cause>>
      BY <1>2 DEF vars, request, pools, control, data, database
    <2>2. /\ \A p : Users(p)' = Users(p)
          /\ Postgres' = Postgres /\ \A u : Stranded(u)' = Stranded(u)
      BY <2>1 DEF Users, Postgres, Stranded
    <2>3. TypeOK'
      BY <2>1 DEF IInv, TypeOK
    <2>4. Places' /\ PoolsInUse' /\ PoolsAreCleanedUp'
      BY <2>1, <2>2 DEF IInv, Places, PoolsInUse, PoolsAreCleanedUp
    <2>5. Causes' /\ FailureHasACause'
      BY <2>1, <2>2 DEF IInv, Causes, CausesOf, FailureHasACause
    <2>6. Reads' /\ AnswersComplete'
      BY <2>1 DEF IInv, Reads, ReadsOf, Current, Listing, Reading, AnswersComplete, AnswerOf
    <2> QED
      BY <2>3, <2>4, <2>5, <2>6 DEF IInv
  <1> QED
    BY <1>1, <1>2, AlterKeepsInvariant DEF Next, Done

(* The inductive invariant holds of every reader process.                  *)
THEOREM ReadersInvariant == Spec => []IInv
  BY InitInvariant, NextInvariant, PTL DEF Spec

(* Type correctness. *)
THEOREM ReadersTypes == Spec => []TypeOK
  <1>1. IInv => TypeOK
    BY DEF IInv
  <1> QED
    BY <1>1, ReadersInvariant, PTL

(* A call that fails has a cause outside its run: the database, or another *)
(* call that closed the pool they shared; and so does a reader left in the *)
(* queue of a pool.                                                        *)
THEOREM FailuresHaveCauses == Spec => []FailureHasACause
  <1>1. IInv => FailureHasACause
    BY DEF IInv
  <1> QED
    BY <1>1, ReadersInvariant, PTL

(* No call, however it ends, leaves a pool that nobody will close.         *)
THEOREM NoPoolIsLeftOpen == Spec => []PoolsAreCleanedUp
  <1>1. IInv => PoolsAreCleanedUp
    BY DEF IInv
  <1> QED
    BY <1>1, ReadersInvariant, PTL

(* What a call returns of the tables asked for is whole.                   *)
THEOREM DescriptionsAreWhole == Spec => []AnswersComplete
  <1>1. IInv => AnswersComplete
    BY DEF IInv
  <1> QED
    BY <1>1, ReadersInvariant, PTL

=============================================================================
