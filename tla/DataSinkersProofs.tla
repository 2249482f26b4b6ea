-------------------------- MODULE DataSinkersProofs --------------------------
(***************************************************************************)
(* Proofs about DataServices and DataSinkers, for any workers, tasks,      *)
(* descriptors, name limit and faults.                                     *)
(*                                                                         *)
(* First what a step of a request does to the stores, then the places an   *)
(* execution goes through, then the parts of the inductive invariant, and  *)
(* last the simulation of TaskBackend.                                     *)
(***************************************************************************)
EXTENDS KnowledgeSearch, FiniteSetTheorems, SequenceTheorems, TLAPS

(***************************************************************************)
(* Counting                                                                *)
(***************************************************************************)

LEMMA Fewer ==
    ASSUME NEW S, IsFiniteSet(S), NEW T, T \subseteq S
    PROVE  IsFiniteSet(T) /\ Cardinality(T) \in Nat /\ Cardinality(S) \in Nat
           /\ Cardinality(T) <= Cardinality(S)
  BY FS_Subset, FS_CardinalityType

LEMMA OneLess ==
    ASSUME NEW S, IsFiniteSet(S), NEW x \in S, NEW T, T \subseteq S \ {x}
    PROVE  Cardinality(T) + 1 <= Cardinality(S)
  <1>1. IsFiniteSet(S \ {x}) /\ Cardinality(S \ {x}) = Cardinality(S) - 1
    BY FS_RemoveElement
  <1>2. Cardinality(T) \in Nat /\ Cardinality(T) <= Cardinality(S \ {x}) /\ Cardinality(S) \in Nat
    BY <1>1, Fewer, FS_CardinalityType
  <1> QED
    BY <1>1, <1>2

LEMMA OneMore ==
    ASSUME NEW S, IsFiniteSet(S), NEW x, NEW T, T \subseteq S \union {x}
    PROVE  Cardinality(T) <= Cardinality(S) + 1
  <1>1. IsFiniteSet(S \union {x}) /\ Cardinality(S \union {x}) <= Cardinality(S) + 1
    <2>1. Cardinality(S) \in Nat
      BY FS_CardinalityType
    <2> QED
      BY <2>1, FS_AddElement
  <1>2. Cardinality(T) \in Nat /\ Cardinality(T) <= Cardinality(S \union {x}) /\ Cardinality(S) \in Nat
        /\ Cardinality(S \union {x}) \in Nat
    BY <1>1, Fewer, FS_CardinalityType
  <1> QED
    BY <1>1, <1>2

(***************************************************************************)
(* What the tasks consist of                                               *)
(***************************************************************************)

LEMMA Joined ==
    ASSUME NEW S, NEW s \in Seq(S), NEW t \in Seq(S)
    PROVE  /\ s \o t \in Seq(S) /\ Len(s \o t) = Len(s) + Len(t)
           /\ \A i \in 1 .. Len(s) : (s \o t)[i] = s[i]
           /\ \A i \in 1 .. Len(t) : (s \o t)[Len(s) + i] = t[i]
  <1>1. Len(s) \in Nat /\ Len(t) \in Nat
    OBVIOUS
  <1> QED
    BY <1>1, ConcatProperties

LEMMA DeleteParts ==
    ASSUME NEW body, body.op = "Delete"
    PROVE  /\ Len(process_data(body)) = 2
           /\ process_data(body)[1] = Request(delete_fingerprints_by_dd_info)
           /\ process_data(body)[2] = Request(delete_all_documents_and_memorys_by_collection_name)
  <1> DEFINE s == send_delete_fingerprint
             t == send_delete_collection_to_knowledge_pyramid
             S == {Request(delete_fingerprints_by_dd_info),
                   Request(delete_all_documents_and_memorys_by_collection_name)}
  <1>1. /\ s \in Seq(S) /\ t \in Seq(S) /\ Len(s) = 1 /\ Len(t) = 1
        /\ s[1] = Request(delete_fingerprints_by_dd_info)
        /\ t[1] = Request(delete_all_documents_and_memorys_by_collection_name)
    BY DEF send_delete_fingerprint, send_delete_collection_to_knowledge_pyramid
  <1>2. process_data(body) = s \o t
    BY DEF process_data
  <1> HIDE DEF s, t, S
  <1>3. /\ Len(s \o t) = Len(s) + Len(t)
        /\ \A i \in 1 .. Len(s) : (s \o t)[i] = s[i]
        /\ \A i \in 1 .. Len(t) : (s \o t)[Len(s) + i] = t[i]
    BY <1>1, Joined
  <1> QED
    BY <1>1, <1>2, <1>3

LEMMA AddParts ==
    ASSUME NEW body \in Body, body.op # "Delete"
    PROVE  LET parts == process_data(body)
               n == LastPart(body.of)
           IN  /\ Len(parts) = n
               /\ parts[1] \in Part /\ parts[1].call = <<>>
               /\ OfTables(body.of) => /\ parts[2] = Request(create_fingerprint)
                                       /\ parts[3] \in Part /\ parts[3].call = <<>>
               /\ parts[n - 1] = Request(create_collection_with_knowledge_pyramid)
               /\ parts[n] = Request(add_documents_with_knowledge_pyramid)
  <1> DEFINE t == send_add_documents_to_knowledge_pyramid
             work == {"raised", "missing"}
             Readings == {Reading(onError) : onError \in SUBSET work}
             S == Readings \union
                  {Request(create_fingerprint), Request(create_collection_with_knowledge_pyramid),
                   Request(add_documents_with_knowledge_pyramid)}
  <1>1. body.of.source \in {"mysql", "postgres", "minio", "fileserver"}
    BY SinkersAssumption DEF Body
  <1>2. /\ t \in Seq(S) /\ Len(t) = 2
        /\ t[1] = Request(create_collection_with_knowledge_pyramid)
        /\ t[2] = Request(add_documents_with_knowledge_pyramid)
    BY DEF send_add_documents_to_knowledge_pyramid
  <1>3. \A r \in Readings : r \in Part /\ r.call = <<>>
    <2> SUFFICES ASSUME NEW onError \in SUBSET work
                 PROVE  Reading(onError) \in Part /\ Reading(onError).call = <<>>
      OBVIOUS
    <2> QED
      BY DEF Reading, Part
  <1>4. CASE OfTables(body.of)
    <2>0. PICK s : /\ process_data(body) = s \o t /\ Len(s) = 3 /\ s \in Seq(S)
                 /\ s[1] \in Readings /\ s[3] \in Readings
                 /\ s[2] = Request(create_fingerprint)
      <3>1. CASE body.of.source = "mysql"
        <4>1. process_data(body) = extract_mysql \o t
          BY <3>1 DEF process_data
        <4>2. /\ Len(extract_mysql) = 3 /\ extract_mysql[1] \in Readings
              /\ extract_mysql[3] \in Readings /\ extract_mysql[2] = Request(create_fingerprint)
          BY DEF extract_mysql, mysql_connect, mysql_schema, mysql_schema_relationship,
             generate_table_relationship, analyze, process_sql_schemas_in_batches, Caught,
             generate_fingerprint, agent_info, mysql_document, generate_tables_summary
        <4>3. extract_mysql \in Seq(S)
          <5> SUFFICES \A i \in 1 .. 3 : extract_mysql[i] \in S
            BY <4>2 DEF extract_mysql
          <5> QED
            BY <4>2
        <4> QED
          BY <4>1, <4>2, <4>3
      <3>2. CASE body.of.source = "postgres"
        <4>1. process_data(body) = extract_postgres \o t
          BY <3>2 DEF process_data
        <4>2. /\ Len(extract_postgres) = 3 /\ extract_postgres[1] \in Readings
              /\ extract_postgres[3] \in Readings /\ extract_postgres[2] = Request(create_fingerprint)
          BY DEF extract_postgres, postgres_connect, postgres_schema, postgres_schema_relationship,
             generate_table_relationship, analyze, process_sql_schemas_in_batches, Caught,
             generate_fingerprint, agent_info, postgres_document, generate_tables_summary
        <4>3. extract_postgres \in Seq(S)
          <5> SUFFICES \A i \in 1 .. 3 : extract_postgres[i] \in S
            BY <4>2 DEF extract_postgres
          <5> QED
            BY <4>2
        <4> QED
          BY <4>1, <4>2, <4>3
      <3> QED
        BY <1>4, <3>1, <3>2 DEF OfTables
    <2> HIDE DEF t, S, Readings, work
    <2>4. s \in Seq(S) /\ t \in Seq(S)
      BY <1>2, <2>0
    <2>1. /\ Len(s \o t) = Len(s) + Len(t)
          /\ \A i \in 1 .. Len(s) : (s \o t)[i] = s[i]
          /\ \A i \in 1 .. Len(t) : (s \o t)[Len(s) + i] = t[i]
      BY <2>4, Joined
    <2>2. (s \o t)[4] = t[1] /\ (s \o t)[5] = t[2] /\ (s \o t)[1] = s[1] /\ (s \o t)[2] = s[2]
          /\ (s \o t)[3] = s[3]
      BY <1>2, <2>0, <2>1
    <2>3. LastPart(body.of) = 5
      BY <1>4 DEF LastPart
    <2> QED
      BY <1>2, <1>3, <1>4, <2>0, <2>1, <2>2, <2>3
  <1>5. CASE ~ OfTables(body.of)
    <2>0. PICK s : /\ process_data(body) = s \o t /\ Len(s) = 1 /\ s \in Seq(S)
                 /\ s[1] \in Readings
      <3>1. CASE body.of.source = "minio"
        <4>1. process_data(body) = extract_minio \o t
          BY <3>1 DEF process_data
        <4>2. /\ Len(extract_minio) = 1 /\ extract_minio[1] \in Readings
              /\ extract_minio \in Seq(S)
          BY DEF extract_minio, minio_query, process_file, Caught
        <4> QED
          BY <4>1, <4>2
      <3>2. CASE body.of.source = "fileserver"
        <4>1. process_data(body) = extract_fileserver \o t
          BY <3>2 DEF process_data
        <4>2. /\ Len(extract_fileserver) = 1 /\ extract_fileserver[1] \in Readings
              /\ extract_fileserver \in Seq(S)
          BY DEF extract_fileserver, fileserver_query, process_file, Caught
        <4> QED
          BY <4>1, <4>2
      <3> QED
        BY <1>1, <1>5, <3>1, <3>2 DEF OfTables
    <2> HIDE DEF t, S, Readings, work
    <2>4. s \in Seq(S) /\ t \in Seq(S)
      BY <1>2, <2>0
    <2>1. /\ Len(s \o t) = Len(s) + Len(t)
          /\ \A i \in 1 .. Len(s) : (s \o t)[i] = s[i]
          /\ \A i \in 1 .. Len(t) : (s \o t)[Len(s) + i] = t[i]
      BY <2>4, Joined
    <2>2. (s \o t)[2] = t[1] /\ (s \o t)[3] = t[2] /\ (s \o t)[1] = s[1]
      BY <1>2, <2>0, <2>1
    <2>3. LastPart(body.of) = 3
      BY <1>5 DEF LastPart
    <2> QED
      BY <1>2, <1>3, <1>5, <2>0, <2>1, <2>2, <2>3
  <1> QED
    BY <1>4, <1>5

(***************************************************************************)
(* What a step of a request does to the stores                             *)
(***************************************************************************)

Steps == Adds \union Removes \union Looks

StoresTypeOK ==
    /\ tables \subseteq {table_name(d) : d \in Descriptor}
    /\ rows \in [Descriptor -> Nat] /\ memories \in [Descriptor -> Nat]
    /\ prints \in [Descriptor -> Nat]

LEMMA CountsMore ==
    ASSUME NEW held \in [Descriptor -> Nat], NEW d \in Descriptor, NEW n \in Nat
    PROVE  /\ More(held, d, n) \in [Descriptor -> Nat]
           /\ More(held, d, n)[d] = held[d] + n
           /\ \A e \in Descriptor : e # d => More(held, d, n)[e] = held[e]
  BY DEF More

LEMMA CountsWithout ==
    ASSUME NEW held \in [Descriptor -> Nat], NEW gone \in SUBSET Descriptor
    PROVE  /\ Without(held, gone) \in [Descriptor -> Nat]
           /\ \A e \in Descriptor : Without(held, gone)[e] = IF e \in gone THEN 0 ELSE held[e]
  BY DEF Without

\* What is in a store afterwards: one more of the request's descriptor, or
\* what there was, or nothing.
Written(before, after, adds, d, n) ==
    /\ after \in [Descriptor -> Nat]
    /\ \A e \in Descriptor :
         IF adds /\ e = d THEN after[e] = before[e] + n ELSE after[e] \in {before[e], 0}

\* A name that is short enough is the table's name.
LEMMA ShortName ==
    ASSUME NEW d \in Descriptor, Len(generate_collection_name(d)) <= NameLimit
    PROVE  table_name(d) = generate_collection_name(d)
  <1> DEFINE c == generate_collection_name(d)
  <1>1. c \in Seq(NamePart)
    BY NameAssumption, ConcatProperties DEF generate_collection_name
  <1> HIDE DEF c
  <1>2. Len(c) \in Nat /\ SubSeq(c, 1, Len(c)) = c
    BY <1>1, SubSeqFull, SMTT(40)
  <1>3. (IF Len(c) < NameLimit THEN Len(c) ELSE NameLimit) = Len(c)
    <2>1. Len(c) <= NameLimit
      BY DEF c
    <2>2. NameLimit \in Nat
      BY NameAssumption
    <2>3. \A a, b \in Nat : a <= b => (IF a < b THEN a ELSE b) = a
      OBVIOUS
    <2> QED
      BY <1>2, <2>1, <2>2, <2>3
  <1>4. table_name(d) = SubSeq(c, 1, IF Len(c) < NameLimit THEN Len(c) ELSE NameLimit)
    BY DEF table_name, c
  <1> QED
    BY <1>2, <1>3, <1>4 DEF c

LEMMA MoreWritten ==
    ASSUME NEW held \in [Descriptor -> Nat], NEW d \in Descriptor, NEW n \in {0, 1},
           NEW adds, adds
    PROVE  Written(held, More(held, d, n), adds, d, n)
  <1>1. n \in Nat
    OBVIOUS
  <1> QED
    BY <1>1, CountsMore, SMTT(40) DEF Written

LEMMA RowsEffect ==
    ASSUME StoresTypeOK, RowsHaveTable, NEW step \in Steps, NEW d \in Descriptor, NEW n \in {0, 1},
           NEW readable \in BOOLEAN, Effect(step, d, n, readable)
    PROVE  /\ tables' \subseteq {table_name(e) : e \in Descriptor} /\ RowsHaveTable'
           /\ Written(rows, rows', step = "aadd_texts", d, n)
           /\ step = "adelete" /\ readable /\ Len(generate_collection_name(d)) <= NameLimit =>
                rows'[d] = 0
  <1> USE DEF StoresTypeOK
  <1>1. CASE step = "aadd_texts"
    <2>1. tables' = tables /\ rows' = More(rows, d, n) /\ table_name(d) \in tables
      BY <1>1 DEF Effect, aadd_texts
    <2>2. Written(rows, rows', step = "aadd_texts", d, n)
      BY <1>1, <2>1, MoreWritten
    <2>3. RowsHaveTable'
      <3> SUFFICES ASSUME NEW e \in Descriptor, rows'[e] > 0 PROVE table_name(e) \in tables
        BY <2>1 DEF RowsHaveTable
      <3> QED
        BY <1>1, <2>1, <2>2 DEF RowsHaveTable, Written
    <2> QED
      BY <1>1, <2>1, <2>2, <2>3
  <1>2. CASE step = "adelete"
    <2>1. CASE acollection_exists(d, readable)
      <3>1. tables' = tables \ {table_name(d)} /\ rows' = Without(rows, SameTable(d))
        BY <1>2, <2>1 DEF Effect, adelete
      <3>2. SameTable(d) \in SUBSET Descriptor /\ d \in SameTable(d)
        BY DEF SameTable
      <3>3. \A e \in Descriptor : rows'[e] = IF e \in SameTable(d) THEN 0 ELSE rows[e]
        BY <3>1, <3>2, CountsWithout
      <3>4. RowsHaveTable'
        BY <3>1, <3>3 DEF RowsHaveTable, SameTable
      <3> QED
        BY <1>2, <3>1, <3>2, <3>3, <3>4, CountsWithout DEF Written
    <2>2. CASE ~ acollection_exists(d, readable)
      <3>1. UNCHANGED storeVars
        BY <1>2, <2>2 DEF Effect
      <3>2. ASSUME readable, Len(generate_collection_name(d)) <= NameLimit PROVE rows[d] = 0
        <4>2. table_name(d) = generate_collection_name(d)
          BY <3>2, ShortName
        <4>3. generate_collection_name(d) \notin tables
          BY <2>2, <3>2 DEF acollection_exists
        <4> QED
          BY <4>2, <4>3 DEF RowsHaveTable
      <3> QED
        BY <1>2, <3>1, <3>2 DEF storeVars, RowsHaveTable, Written
    <2> QED
      BY <2>1, <2>2
  <1>3. CASE step = "acreate_collection"
    <2>1. /\ tables' \in {tables, tables \union {table_name(d)}} /\ rows' = rows
      BY <1>3 DEF Effect, acreate_collection, _acreate_collection
    <2> QED
      BY <1>3, <2>1 DEF RowsHaveTable, Written
  <1>4. CASE step \notin {"aadd_texts", "adelete", "acreate_collection"}
    <2>1. UNCHANGED <<tables, rows>>
      BY <1>4 DEF Effect, Steps, Adds, Removes, Looks, add_memory, delete_all_memories, create,
         delete_by_dd_info, storeVars
    <2> QED
      BY <1>4, <2>1 DEF RowsHaveTable, Written
  <1> QED
    BY <1>1, <1>2, <1>3, <1>4

LEMMA MemoriesEffect ==
    ASSUME StoresTypeOK, NEW step \in Steps, NEW d \in Descriptor, NEW n \in {0, 1},
           NEW readable \in BOOLEAN, Effect(step, d, n, readable)
    PROVE  /\ Written(memories, memories', step = "add_memory", d, n)
           /\ step = "delete_all_memories" => memories'[d] = 0
  <1> USE DEF StoresTypeOK
  <1>1. CASE step = "add_memory"
    <2>1. memories' = More(memories, d, n)
      BY <1>1 DEF Effect, add_memory
    <2> QED
      BY <1>1, <2>1, MoreWritten
  <1>2. CASE step = "delete_all_memories"
    <2>1. memories' = Without(memories, SameOwner(d))
      BY <1>2 DEF Effect, delete_all_memories
    <2>2. SameOwner(d) \in SUBSET Descriptor /\ d \in SameOwner(d)
      BY DEF SameOwner
    <2> QED
      BY <1>2, <2>1, <2>2, CountsWithout DEF Written
  <1>3. CASE step \notin {"add_memory", "delete_all_memories"}
    <2>1. UNCHANGED memories
      BY <1>3 DEF Effect, Steps, Adds, Removes, Looks, acreate_collection, aadd_texts, create,
         delete_by_dd_info, storeVars
    <2> QED
      BY <1>3, <2>1 DEF Written
  <1> QED
    BY <1>1, <1>2, <1>3

LEMMA PrintsEffect ==
    ASSUME StoresTypeOK, NEW step \in Steps, NEW d \in Descriptor, NEW n \in {0, 1},
           NEW readable \in BOOLEAN, Effect(step, d, n, readable)
    PROVE  /\ Written(prints, prints', step = "create", d, 1)
           /\ step = "delete_by_dd_info" => prints'[d] = 0
           /\ step = "exists_by_dd_info" => prints' = prints
  <1> USE DEF StoresTypeOK
  <1>1. CASE step = "create"
    <2>1. prints' = More(prints, d, 1)
      BY <1>1 DEF Effect, create
    <2> QED
      BY <1>1, <2>1, MoreWritten
  <1>2. CASE step = "delete_by_dd_info"
    <2>1. prints' = Without(prints, {d}) /\ {d} \in SUBSET Descriptor
      BY <1>2 DEF Effect, delete_by_dd_info
    <2> QED
      BY <1>2, <2>1, CountsWithout DEF Written
  <1>3. CASE step \notin {"create", "delete_by_dd_info"}
    <2>1. UNCHANGED prints
      BY <1>3 DEF Effect, Steps, Adds, Removes, Looks, acreate_collection, aadd_texts, add_memory,
         delete_all_memories, storeVars
    <2> QED
      BY <1>3, <2>1 DEF Written
  <1> QED
    BY <1>1, <1>2, <1>3

(***************************************************************************)
(* The places an execution goes through                                    *)
(***************************************************************************)

\* The request of a task's n-th part, if it is one.
FirstCall(body, n) ==
    IF body.op = "Delete"
    THEN CASE n = 1 -> <<"exists_by_dd_info", "delete_by_dd_info">>
           [] n = 2 -> <<"adelete", "delete_all_memories">>
           [] OTHER -> <<>>
    ELSE CASE n = LastPart(body.of) -> <<"aadd_texts", "add_memory">>
           [] n = LastPart(body.of) - 1 -> <<"acreate_collection">>
           [] OfTables(body.of) /\ n = 2 -> <<"create">>
           [] OTHER -> <<>>

PartsCount(body) == IF body.op = "Delete" THEN 2 ELSE LastPart(body.of)

LEMMA Requests ==
    ASSUME NEW steps
    PROVE  Request(steps).call = steps /\ Request(steps).work = {}
  BY DEF Request

LEMMA PartIs ==
    ASSUME NEW body \in Body, NEW n \in 1 .. PartsCount(body)
    PROVE  /\ Len(process_data(body)) = PartsCount(body)
           /\ process_data(body)[n] \in Part
           /\ process_data(body)[n].call = FirstCall(body, n)
           /\ process_data(body)[n].call # <<>> => process_data(body)[n].work = {}
  <1> DEFINE parts == process_data(body)
  <1>1. CASE body.op = "Delete"
    <2>1. /\ Len(parts) = 2
          /\ parts[1] = Request(<<"exists_by_dd_info", "delete_by_dd_info">>)
          /\ parts[2] = Request(<<"adelete", "delete_all_memories">>)
      BY <1>1, DeleteParts DEF delete_fingerprints_by_dd_info,
         delete_all_documents_and_memorys_by_collection_name
    <2>2. /\ Request(<<"exists_by_dd_info", "delete_by_dd_info">>) \in Part
          /\ Request(<<"adelete", "delete_all_memories">>) \in Part
      BY DEF Request, Part, Removes, Looks
    <2> HIDE DEF parts
    <2>3. n \in {1, 2} /\ PartsCount(body) = 2
      BY <1>1 DEF PartsCount
    <2>4. /\ FirstCall(body, 1) = <<"exists_by_dd_info", "delete_by_dd_info">>
          /\ FirstCall(body, 2) = <<"adelete", "delete_all_memories">>
      BY <1>1 DEF FirstCall
    <2>5. /\ Len(parts) = PartsCount(body) /\ parts[n] \in Part
          /\ parts[n].call = FirstCall(body, n) /\ parts[n].work = {}
      BY <2>1, <2>2, <2>3, <2>4, Requests
    <2> QED
      BY <2>5 DEF parts
  <1>2. CASE body.op # "Delete"
    <2>1. /\ Len(parts) = LastPart(body.of) /\ parts[1] \in Part /\ parts[1].call = <<>>
          /\ OfTables(body.of) => /\ parts[2] = Request(<<"create">>)
                                  /\ parts[3] \in Part /\ parts[3].call = <<>>
          /\ parts[LastPart(body.of) - 1] = Request(<<"acreate_collection">>)
          /\ parts[LastPart(body.of)] = Request(<<"aadd_texts", "add_memory">>)
      BY <1>2, AddParts DEF create_fingerprint, create_collection_with_knowledge_pyramid,
         add_documents_with_knowledge_pyramid
    <2>2. /\ Request(<<"create">>) \in Part /\ Request(<<"acreate_collection">>) \in Part
          /\ Request(<<"aadd_texts", "add_memory">>) \in Part
      BY DEF Request, Part, Adds, Looks
    <2> HIDE DEF parts
    <2>3. CASE OfTables(body.of)
      <3>1. n \in {1, 2, 3, 4, 5} /\ PartsCount(body) = 5 /\ LastPart(body.of) = 5
        BY <1>2, <2>3 DEF PartsCount, LastPart
      <3>2. /\ FirstCall(body, 1) = <<>> /\ FirstCall(body, 2) = <<"create">>
            /\ FirstCall(body, 3) = <<>> /\ FirstCall(body, 4) = <<"acreate_collection">>
            /\ FirstCall(body, 5) = <<"aadd_texts", "add_memory">>
        BY <1>2, <2>3, <3>1 DEF FirstCall
      <3>3. /\ Len(parts) = PartsCount(body) /\ parts[n] \in Part
            /\ parts[n].call = FirstCall(body, n)
            /\ n \in {1, 3} \/ parts[n].work = {}
        BY <2>1, <2>2, <2>3, <3>1, <3>2, Requests
      <3> QED
        BY <3>2, <3>3 DEF parts
    <2>4. CASE ~ OfTables(body.of)
      <3>1. n \in {1, 2, 3} /\ PartsCount(body) = 3 /\ LastPart(body.of) = 3
        BY <1>2, <2>4 DEF PartsCount, LastPart
      <3>2. /\ FirstCall(body, 1) = <<>> /\ FirstCall(body, 2) = <<"acreate_collection">>
            /\ FirstCall(body, 3) = <<"aadd_texts", "add_memory">>
        BY <1>2, <2>4, <3>1 DEF FirstCall
      <3>3. /\ Len(parts) = PartsCount(body) /\ parts[n] \in Part
            /\ parts[n].call = FirstCall(body, n)
            /\ n = 1 \/ parts[n].work = {}
        BY <2>1, <2>2, <3>1, <3>2, Requests
      <3> QED
        BY <3>2, <3>3 DEF parts
    <2> QED
      BY <2>3, <2>4
  <1> QED
    BY <1>1, <1>2

\* What turning to a part makes of an execution.
LEMMA Turned ==
    ASSUME NEW e \in Execution, request[e.task] \in Body,
           NEW n \in 1 .. PartsCount(request[e.task]) + 1
    PROVE  /\ Turn(e, n) \in Execution
           /\ Turn(e, n).at = n /\ Turn(e, n).task = e.task
           /\ Turn(e, n).lost = e.lost /\ Turn(e, n).met = e.met /\ Turn(e, n).blind = e.blind
           /\ Turn(e, n).part.call = FirstCall(request[e.task], n)
           /\ Turn(e, n).part.call # <<>> \/ n = PartsCount(request[e.task]) + 1 =>
                Turn(e, n).part.work = {}
  <1> DEFINE body == request[e.task]
             parts == process_data(body)
             part == IF n <= Len(parts) THEN parts[n] ELSE Reading({})
  <1>1. Turn(e, n) = [e EXCEPT !.at = n, !.part = part]
    BY DEF Turn
  <1>2. PartsCount(body) \in Nat /\ n \in Nat /\ n <= PartsCount(body) + 1
    <2>1. PartsCount(body) \in Nat
      BY DEF PartsCount, LastPart
    <2> QED
      BY <2>1
  <1>3. /\ part \in Part /\ part.call = FirstCall(body, n)
        /\ part.call # <<>> \/ n = PartsCount(body) + 1 => part.work = {}
    <2>1. Len(parts) = PartsCount(body)
      <3>1. 1 \in 1 .. PartsCount(body)
        BY DEF PartsCount, LastPart
      <3> QED
        BY <3>1, PartIs
    <2>2. CASE n <= PartsCount(body)
      <3>1. n \in 1 .. PartsCount(body) /\ part = parts[n]
        BY <1>2, <2>1, <2>2
      <3> HIDE DEF part, parts
      <3> QED
        BY <1>2, <2>2, <3>1, PartIs DEF parts
    <2>3. CASE n = PartsCount(body) + 1
      <3>1. part = Reading({})
        BY <1>2, <2>1, <2>3
      <3>2. Reading({}) \in Part /\ Reading({}).call = <<>> /\ Reading({}).work = {}
        BY DEF Reading, Part
      <3>3. FirstCall(body, n) = <<>>
        BY <2>3 DEF FirstCall, PartsCount, LastPart
      <3> QED
        BY <3>1, <3>2, <3>3
    <2> QED
      BY <1>2, <2>2, <2>3
  <1> HIDE DEF part, parts
  <1> QED
    BY <1>1, <1>2, <1>3 DEF Execution

\* Every request, its first step, and what is left after it.
LEMMA Rests ==
    ASSUME NEW d \in Descriptor, NEW readable
    PROVE  /\ \A call \in Calls : call # <<>> /\ Head(call) \in Steps
           /\ \A call \in Calls : Rest(call, d, readable) \in Calls \union {<<>>}
           /\ Head(<<"exists_by_dd_info", "delete_by_dd_info">>) = "exists_by_dd_info"
           /\ Rest(<<"exists_by_dd_info", "delete_by_dd_info">>, d, readable) =
                IF exists_by_dd_info(d, readable) THEN <<"delete_by_dd_info">> ELSE <<>>
           /\ Head(<<"adelete", "delete_all_memories">>) = "adelete"
           /\ Rest(<<"adelete", "delete_all_memories">>, d, readable) = <<"delete_all_memories">>
           /\ Head(<<"aadd_texts", "add_memory">>) = "aadd_texts"
           /\ Rest(<<"aadd_texts", "add_memory">>, d, readable) = <<"add_memory">>
           /\ \A step \in Steps \ {"exists_by_dd_info"} :
                Head(<<step>>) = step /\ Rest(<<step>>, d, readable) = <<>>
  <1>1. \A a, b : Head(<<a, b>>) = a /\ Tail(<<a, b>>) = <<b>> /\ <<a, b>> # <<>>
    OBVIOUS
  <1>2. \A a : Head(<<a>>) = a /\ Tail(<<a>>) = <<>> /\ <<a>> # <<>>
    OBVIOUS
  <1>3. \A call : call \in Calls <=>
          \/ call = <<"exists_by_dd_info", "delete_by_dd_info">> \/ call = <<"delete_by_dd_info">>
          \/ call = <<"adelete", "delete_all_memories">> \/ call = <<"delete_all_memories">>
          \/ call = <<"create">> \/ call = <<"acreate_collection">>
          \/ call = <<"aadd_texts", "add_memory">> \/ call = <<"add_memory">>
    BY DEF Calls, delete_fingerprints_by_dd_info, delete_all_documents_and_memorys_by_collection_name,
       create_fingerprint, create_collection_with_knowledge_pyramid,
       add_documents_with_knowledge_pyramid
  <1>4. /\ Rest(<<"exists_by_dd_info", "delete_by_dd_info">>, d, readable) =
             IF exists_by_dd_info(d, readable) THEN <<"delete_by_dd_info">> ELSE <<>>
        /\ Rest(<<"adelete", "delete_all_memories">>, d, readable) = <<"delete_all_memories">>
        /\ Rest(<<"aadd_texts", "add_memory">>, d, readable) = <<"add_memory">>
    BY <1>1 DEF Rest
  <1>5. \A step : step # "exists_by_dd_info" => Rest(<<step>>, d, readable) = <<>>
    BY <1>2 DEF Rest
  <1>6. \A call \in Calls : call # <<>> /\ Head(call) \in Steps
    BY <1>1, <1>2, <1>3 DEF Steps, Adds, Removes, Looks
  <1>7. \A call \in Calls : Rest(call, d, readable) \in Calls \union {<<>>}
    BY <1>3, <1>4, <1>5
  <1> QED
    BY <1>1, <1>2, <1>4, <1>5, <1>6, <1>7

\* A worker that waits for data-services is within a request of its task.
LEMMA WaitingFor ==
    ASSUME ExecutionsInv, NEW w \in Worker, Waiting(w)
    PROVE  /\ w \in Busy /\ run[w].task \in TaskId /\ BodyOf(w) \in Body
           /\ run[w].part.call \in Calls /\ Step(w) \in Steps
           /\ run[w].part.work = {}
           /\ run[w].at \in 1 .. PartsCount(BodyOf(w))
  <1>1. /\ w \in Busy /\ run[w].part.call # <<>> /\ BodyOf(w) \in Body /\ BodyOf(w).of \in Descriptor
        /\ run[w] \in Execution /\ run[w].part.work = {}
        /\ run[w].task \in TaskId
    BY DEF Waiting, ExecutionsInv, Busy, Execution, Body
  <1>2. run[w].part.call \in Calls /\ run[w].at \in 1 .. PartsCount(BodyOf(w))
    <2>1. CASE BodyOf(w).op = "Delete"
      <3>1. DeleteStage(run[w])
        BY <1>1, <2>1 DEF ExecutionsInv
      <3>2. PartsCount(BodyOf(w)) = 2
        BY <2>1 DEF PartsCount
      <3> QED
        BY <1>1, <3>1, <3>2 DEF DeleteStage, Calls, delete_fingerprints_by_dd_info,
           delete_all_documents_and_memorys_by_collection_name
    <2>2. CASE BodyOf(w).op # "Delete"
      <3>1. AddStage(run[w], BodyOf(w).of)
        BY <1>1, <2>2 DEF ExecutionsInv
      <3>2. /\ PartsCount(BodyOf(w)) = LastPart(BodyOf(w).of)
            /\ LastPart(BodyOf(w).of) = IF OfTables(BodyOf(w).of) THEN 5 ELSE 3
        BY <2>2 DEF PartsCount, LastPart
      <3>3. LastPart(BodyOf(w).of) \in {3, 5}
        BY <3>2
      <3>4. \/ OfTables(BodyOf(w).of) /\ run[w].at = 2 /\ run[w].part.call = <<"create">>
            \/ /\ run[w].at = LastPart(BodyOf(w).of) - 1
               /\ run[w].part.call = <<"acreate_collection">>
            \/ /\ run[w].at = LastPart(BodyOf(w).of)
               /\ run[w].part.call \in {<<"aadd_texts", "add_memory">>, <<"add_memory">>}
        BY <1>1, <3>1 DEF AddStage
      <3>5. run[w].at \in 1 .. PartsCount(BodyOf(w))
        BY <3>2, <3>3, <3>4
      <3> QED
        BY <3>4, <3>5 DEF Calls, create_fingerprint,
           create_collection_with_knowledge_pyramid, add_documents_with_knowledge_pyramid
    <2> QED
      BY <2>1, <2>2
  <1>3. Step(w) \in Steps
    BY <1>1, <1>2, Rests DEF Step
  <1> QED
    BY <1>1, <1>2, <1>3

\* What has been met stays a set of stores.
LEMMA MetTypes ==
    ASSUME run \in [Worker -> Execution], NEW v \in Worker, NEW w, NEW step, NEW d
    PROVE  Met(v, w, step, d) \in SUBSET Store
  <1>1. run[v].met \in SUBSET Store /\ StoreOf(step) \in Store
    BY DEF Execution, StoreOf, Store
  <1> QED
    BY <1>1 DEF Met

\* What a served step makes of the executions.
LEMMA ServeMoves ==
    ASSUME ExecutionsInv, NEW w \in Worker, NEW readable \in BOOLEAN, Serve(w, readable)
    PROVE  LET e == run[w]
               body == BodyOf(w)
               rest == Rest(e.part.call, body.of, readable)
           IN  /\ run' \in [Worker -> Execution]
               /\ \A v \in Worker : /\ run'[v].task = run[v].task /\ run'[v].lost = run[v].lost
                                    /\ run'[v].met = Met(v, w, Step(w), body.of)
               /\ \A v \in Worker \ {w} : /\ run'[v].at = run[v].at /\ run'[v].part = run[v].part
                                          /\ run'[v].blind = run[v].blind
               /\ run'[w].blind = IF readable THEN e.blind ELSE e.blind \union {StoreOf(Step(w))}
               /\ rest = <<>> => /\ run'[w].at = e.at + 1
                                 /\ run'[w].part.call = FirstCall(body, e.at + 1)
               /\ rest # <<>> => run'[w].at = e.at /\ run'[w].part.call = rest
               /\ run'[w].part.call # <<>> \/ run'[w].at = PartsCount(body) + 1 =>
                    run'[w].part.work = {}
  <1> DEFINE e == run[w]
             body == BodyOf(w)
             rest == Rest(e.part.call, body.of, readable)
             after == [e EXCEPT !.part.call = rest,
                          !.blind = IF readable THEN @ ELSE @ \union {StoreOf(Step(w))}]
             done == IF rest = <<>> THEN Turn(after, e.at + 1) ELSE after
  <1>1. run' = [v \in Worker |->
                  [IF v = w THEN done ELSE run[v] EXCEPT !.met = Met(v, w, Step(w), body.of)]]
    BY SMTT(40) DEF Serve
  <1>2. /\ w \in Busy /\ e.task \in TaskId /\ body \in Body /\ body.of \in Descriptor
        /\ e.part.call \in Calls /\ Step(w) \in Steps
        /\ e.part.work = {} /\ e.at \in 1 .. PartsCount(body) /\ e \in Execution
        /\ request[e.task] = body
    BY WaitingFor DEF Serve, ExecutionsInv, BodyOf, Body
  <1>3. rest \in Calls \union {<<>>}
    BY <1>2, Rests
  <1>4. StoreOf(Step(w)) \in Store
    BY DEF StoreOf, Store
  <1>5. rest \in Seq(Adds \union Removes \union Looks)
    <2>1. /\ {"exists_by_dd_info", "delete_by_dd_info", "adelete", "delete_all_memories"} \subseteq Steps
          /\ {"create", "acreate_collection", "aadd_texts", "add_memory"} \subseteq Steps
      BY DEF Steps, Adds, Removes, Looks
    <2>2. \A a \in Steps : <<a>> \in Seq(Steps)
      OBVIOUS
    <2>3. \A a, b \in Steps : <<a, b>> \in Seq(Steps)
      OBVIOUS
    <2>4. \A call \in Calls \union {<<>>} : call \in Seq(Steps)
      <3>1. /\ <<"exists_by_dd_info", "delete_by_dd_info">> \in Seq(Steps)
            /\ <<"adelete", "delete_all_memories">> \in Seq(Steps)
            /\ <<"aadd_texts", "add_memory">> \in Seq(Steps)
        BY <2>1, <2>3
      <3>2. /\ <<"delete_by_dd_info">> \in Seq(Steps) /\ <<"delete_all_memories">> \in Seq(Steps)
            /\ <<"create">> \in Seq(Steps) /\ <<"acreate_collection">> \in Seq(Steps)
            /\ <<"add_memory">> \in Seq(Steps)
        BY <2>1, <2>2
      <3>3. <<>> \in Seq(Steps)
        OBVIOUS
      <3> QED
        BY <3>1, <3>2, <3>3 DEF Calls, delete_fingerprints_by_dd_info,
           delete_all_documents_and_memorys_by_collection_name,
           create_fingerprint, create_collection_with_knowledge_pyramid,
           add_documents_with_knowledge_pyramid
    <2> QED
      BY <1>3, <2>4 DEF Steps
  <1> HIDE DEF rest, body
  <1>6. /\ after \in Execution /\ after.task = e.task /\ after.lost = e.lost /\ after.met = e.met
        /\ after.at = e.at /\ after.part.call = rest /\ after.part.work = e.part.work
        /\ after.blind = IF readable THEN e.blind ELSE e.blind \union {StoreOf(Step(w))}
    BY <1>2, <1>4, <1>5 DEF Execution, Part
  <1>7. PartsCount(body) \in Nat /\ e.at + 1 \in 1 .. PartsCount(body) + 1
    <2>1. PartsCount(body) \in Nat
      BY DEF PartsCount, LastPart
    <2> QED
      BY <1>2, <2>1
  <1> HIDE DEF after
  <1>8. /\ done \in Execution /\ done.task = e.task /\ done.lost = e.lost /\ done.met = e.met
        /\ done.blind = after.blind
        /\ rest = <<>> => /\ done.at = e.at + 1
                          /\ done.part.call = FirstCall(body, e.at + 1)
        /\ rest # <<>> => done.at = e.at /\ done.part.call = rest
        /\ done.part.call # <<>> \/ done.at = PartsCount(body) + 1 => done.part.work = {}
    <2>1. CASE rest = <<>>
      BY <1>2, <1>6, <1>7, <2>1, Turned
    <2>2. CASE rest # <<>>
      BY <1>2, <1>6, <2>2
    <2> QED
      BY <2>1, <2>2
  <1> HIDE DEF done
  <1>9. \A v \in Worker : Met(v, w, Step(w), body.of) \in SUBSET Store
    BY MetTypes DEF ExecutionsInv
  <1>10. \A v \in Worker : (IF v = w THEN done ELSE run[v]) \in Execution
    BY <1>8 DEF ExecutionsInv
  <1>11. \A x \in Execution, m \in SUBSET Store :
           /\ [x EXCEPT !.met = m] \in Execution /\ [x EXCEPT !.met = m].met = m
           /\ [x EXCEPT !.met = m].task = x.task /\ [x EXCEPT !.met = m].lost = x.lost
           /\ [x EXCEPT !.met = m].at = x.at /\ [x EXCEPT !.met = m].part = x.part
           /\ [x EXCEPT !.met = m].blind = x.blind
    BY DEF Execution
  <1>12. run' \in [Worker -> Execution]
    BY <1>1, <1>9, <1>10, <1>11
  <1>13. \A v \in Worker \ {w} :
           /\ run'[v].task = run[v].task /\ run'[v].lost = run[v].lost
           /\ run'[v].met = Met(v, w, Step(w), body.of)
           /\ run'[v].at = run[v].at /\ run'[v].part = run[v].part /\ run'[v].blind = run[v].blind
    <2> TAKE v \in Worker \ {w}
    <2>1. run'[v] = [run[v] EXCEPT !.met = Met(v, w, Step(w), body.of)]
      BY <1>1
    <2>2. run[v] \in Execution /\ Met(v, w, Step(w), body.of) \in SUBSET Store
      BY <1>9 DEF ExecutionsInv
    <2> QED
      BY <2>1, <2>2, <1>11
  <1>14. /\ run'[w].task = done.task /\ run'[w].lost = done.lost
         /\ run'[w].met = Met(w, w, Step(w), body.of)
         /\ run'[w].at = done.at /\ run'[w].part = done.part /\ run'[w].blind = done.blind
    <2>1. run'[w] = [done EXCEPT !.met = Met(w, w, Step(w), body.of)]
      BY <1>1
    <2> QED
      BY <2>1, <1>8, <1>9, <1>11
  <1>15. run'[w].blind = IF readable THEN e.blind ELSE e.blind \union {StoreOf(Step(w))}
    BY <1>6, <1>8, <1>14
  <1> QED
    BY <1>8, <1>12, <1>13, <1>14, <1>15 DEF rest, body

(***************************************************************************)
(* Steps that leave the stores alone                                       *)
(***************************************************************************)

LEMMA HeldSame ==
    ASSUME UNCHANGED storeVars
    PROVE  \A s \in Store : Held(s)' = Held(s)
  BY DEF Held, storeVars

LEMMA HeldTypes ==
    ASSUME StoresTypeOK
    PROVE  \A s \in Store : Held(s) \in [Descriptor -> Nat]
  BY DEF StoresTypeOK, Held

LEMMA TypesStores == TypeOK => StoresTypeOK
  BY DEF TypeOK, StoresTypeOK

LEMMA Typed ==
    ASSUME StoresTypeOK', ExecutionsInv', OrphansInv',
           runs' \in [Descriptor -> Nat], request' \in [TaskId -> Body \union {NoReq}],
           queue' \subseteq TaskId, result' \in [TaskId -> {"PENDING", "STARTED", "SUCCESS", "FAILURE"}],
           reported' \in [TaskId -> SUBSET {"SUCCESS", "FAILURE"}],
           faults' \in 0 .. MaxFaults, cleared' \subseteq Store \X Descriptor
    PROVE  TypeOK'
  <1>1. \A w \in Worker :
          /\ run'[w].task \in TaskId \union {NoTask} /\ run'[w].lost \in BOOLEAN
          /\ run'[w].met \subseteq Store /\ run'[w].blind \subseteq Store
    BY DEF ExecutionsInv, Execution
  <1>2. \A o \in orphans' : o.of \in Descriptor /\ o.call # <<>> /\ o.docs \in {0, 1}
    <2> TAKE o \in orphans'
    <2>1. o.of \in Descriptor /\ o.call \in Calls /\ o.docs \in {0, 1}
      BY DEF OrphansInv
    <2> QED
      BY <2>1, Rests
  <1> QED
    BY <1>1, <1>2 DEF TypeOK, StoresTypeOK

LEMMA SuccessStored ==
    SuccessfulAddIsThere <=>
      \A t \in TaskId : result[t] = "SUCCESS" /\ request[t].op = "AddOrUpdate" =>
        \A s \in Store : Stored(s, request[t].of)
  BY DEF SuccessfulAddIsThere, Stored

LEMMA StoredLasts ==
    ASSUME UNCHANGED <<storeVars, cleared>>, faults \in Nat, faults' \in Nat, faults <= faults',
           NEW s \in Store, NEW d, Stored(s, d)
    PROVE  Stored(s, d)'
  BY HeldSame DEF Stored

\* A request that still has to write to a store belongs to an execution that has.
LEMMA CallDue ==
    ASSUME ExecutionsInv, NEW w \in Worker, Waiting(w), NEW s \in Store,
           NEW i \in DOMAIN run[w].part.call, run[w].part.call[i] = AddTo(s)
    PROVE  Adding(w) /\ Due(run[w], BodyOf(w).of, s)
  <1> DEFINE call == run[w].part.call
  <1>1. w \in Busy /\ BodyOf(w) \in Body /\ call # <<>> /\ call \in Calls
    BY WaitingFor DEF Waiting
  <1>2. AddTo(s) \in {"aadd_texts", "add_memory", "create"}
    BY DEF AddTo
  <1>3. \A a, b, j : j \in DOMAIN <<a, b>> => <<a, b>>[j] = a \/ <<a, b>>[j] = b
    OBVIOUS
  <1>4. \A a, j : j \in DOMAIN <<a>> => <<a>>[j] = a
    OBVIOUS
  <1>5. CASE BodyOf(w).op = "Delete"
    <2>1. DeleteStage(run[w])
      BY <1>1, <1>5 DEF ExecutionsInv
    <2> QED
      BY <1>1, <1>2, <1>3, <1>4, <2>1 DEF DeleteStage
  <1>6. CASE BodyOf(w).op # "Delete"
    <2>1. AddStage(run[w], BodyOf(w).of) /\ Adding(w)
      BY <1>1, <1>6 DEF ExecutionsInv, Adding, Body
    <2>2. LastPart(BodyOf(w).of) = IF OfTables(BodyOf(w).of) THEN 5 ELSE 3
      BY DEF LastPart
    <2>3. \/ OfTables(BodyOf(w).of) /\ run[w].at = 2 /\ call = <<"create">>
          \/ call = <<"acreate_collection">>
          \/ /\ run[w].at = LastPart(BodyOf(w).of)
             /\ call \in {<<"aadd_texts", "add_memory">>, <<"add_memory">>}
      BY <1>1, <2>1 DEF AddStage
    <2>4. CASE OfTables(BodyOf(w).of) /\ run[w].at = 2 /\ call = <<"create">>
      <3>1. AddTo(s) = "create"
        BY <1>4, <2>4
      <3> QED
        BY <2>1, <2>4, <3>1 DEF AddTo, Due, Store
    <2>5. CASE call = <<"acreate_collection">>
      BY <1>2, <1>4, <2>5
    <2>6. CASE /\ run[w].at = LastPart(BodyOf(w).of)
               /\ call \in {<<"aadd_texts", "add_memory">>, <<"add_memory">>}
      <3>1. CASE AddTo(s) = "aadd_texts"
        <4>1. call = <<"aadd_texts", "add_memory">>
          BY <1>4, <2>6, <3>1
        <4> QED
          BY <2>1, <3>1, <4>1 DEF AddTo, Due, Store
      <3>2. CASE AddTo(s) = "add_memory"
        BY <2>1, <2>2, <2>6, <3>2 DEF AddTo, Due, Store
      <3>3. AddTo(s) # "create"
        BY <1>3, <1>4, <2>6
      <3> QED
        BY <1>2, <3>1, <3>2, <3>3
    <2> QED
      BY <2>3, <2>4, <2>5, <2>6
  <1> QED
    BY <1>5, <1>6

LEMMA CopiesTypes ==
    ASSUME TypeOK, OrphansInv, CopiesInv, NEW s \in Store, NEW d \in Descriptor
    PROVE  /\ IsFiniteSet(DueWorkers(s, d)) /\ IsFiniteSet(DueOrphans(s, d))
           /\ Cardinality(DueWorkers(s, d)) \in Nat /\ Cardinality(DueOrphans(s, d)) \in Nat
           /\ Held(s)[d] + Cardinality(DueWorkers(s, d)) + Cardinality(DueOrphans(s, d)) <= runs[d]
           /\ Held(s)[d] \in Nat /\ runs[d] \in Nat
  <1>1. /\ DueWorkers(s, d) \subseteq Worker /\ DueOrphans(s, d) \subseteq orphans
        /\ IsFiniteSet(Worker) /\ IsFiniteSet(orphans)
    BY SinkersAssumption DEF OrphansInv, DueWorkers, DueOrphans
  <1>2. Held(s)[d] + Cardinality(DueWorkers(s, d)) + Cardinality(DueOrphans(s, d)) <= runs[d]
    BY DEF CopiesInv
  <1>3. Held(s)[d] \in Nat /\ runs[d] \in Nat
    BY TypesStores, HeldTypes DEF TypeOK
  <1> QED
    BY <1>1, <1>2, <1>3, Fewer

\* An execution ends, and may leave its request behind.
LEMMA Ends ==
    ASSUME IInv, NEW w \in Busy, run' = [run EXCEPT ![w] = Idle],
           UNCHANGED <<storeVars, request, runs, cleared>>,
           faults' \in 0 .. MaxFaults, faults <= faults',
           \A t \in TaskId : result[t] # "PENDING" => result'[t] # "PENDING",
           orphans' \subseteq orphans \union Abandoned(w)
    PROVE  /\ ExecutionsInv' /\ OrphansInv' /\ StoresTypeOK' /\ RowsHaveTable'
           /\ AddsInv' /\ DeletesInv' /\ CopiesInv'
  <1>1. /\ w \in Worker /\ run[w].task # NoTask /\ faults \in Nat /\ faults' \in Nat
        /\ ExecutionsInv /\ StoresTypeOK /\ OrphansInv
    BY TypesStores, SinkersAssumption DEF Busy, IInv, TypeOK
  <1>2. Idle \in Execution /\ Idle.task = NoTask
    BY DEF Idle, Execution, Part, Reading
  <1>3. /\ run' \in [Worker -> Execution]
        /\ \A v \in Worker : v # w => run'[v] = run[v]
        /\ run'[w] = Idle
    BY <1>1, <1>2 DEF ExecutionsInv
  <1>4. /\ Busy' \subseteq Busy \ {w}
        /\ \A v \in Busy' : v \in Worker /\ run'[v] = run[v] /\ BodyOf(v)' = BodyOf(v)
    BY <1>1, <1>2, <1>3 DEF Busy, BodyOf
  <1>5. ExecutionsInv'
    <2> SUFFICES ASSUME NEW v \in Busy'
                 PROVE  /\ BodyOf(v)' \in Body /\ result'[run'[v].task] # "PENDING"
                        /\ IF BodyOf(v)'.op = "Delete" THEN DeleteStage(run'[v])
                           ELSE AddStage(run'[v], BodyOf(v)'.of)
                        /\ run'[v].part.call # <<>> \/ Behind(run'[v], BodyOf(v)') =>
                             run'[v].part.work = {}
                        /\ run'[v].lost => faults' > 0
      BY <1>3 DEF ExecutionsInv, DeleteStage, AddStage, Behind
    <2>1. v \in Busy /\ run'[v] = run[v] /\ BodyOf(v)' = BodyOf(v) /\ run[v].task \in TaskId
      BY <1>1, <1>4 DEF Busy, ExecutionsInv, Execution
    <2> QED
      BY <1>1, <2>1 DEF ExecutionsInv
  <1>6. OrphansInv'
    <2>1. \A o \in Abandoned(w) : o \in [call : Calls, of : Descriptor, docs : {0, 1}]
      BY <1>1, WaitingFor DEF Abandoned, DocsOf, Body
    <2>2. IsFiniteSet(Abandoned(w))
      BY FS_EmptySet, FS_Singleton DEF Abandoned
    <2>3. IsFiniteSet(orphans \union Abandoned(w))
      BY <1>1, <2>2, FS_Union DEF OrphansInv
    <2> QED
      BY <1>1, <2>1, <2>3, Fewer DEF OrphansInv
  <1>7. RowsHaveTable' /\ StoresTypeOK'
    BY <1>1 DEF IInv, RowsHaveTable, StoresTypeOK, storeVars, table_name, generate_collection_name
  <1>8. AddsInv'
    <2> SUFFICES ASSUME NEW v \in Worker, NEW s \in Store, NEW d, Adding(v)', d = BodyOf(v)'.of,
                        ~ Due(run'[v], d, s)
                 PROVE  Stored(s, d)'
      BY DEF AddsInv, Stored, Due
    <2>1. v \in Busy' /\ Adding(v) /\ run'[v] = run[v] /\ BodyOf(v)' = BodyOf(v)
      BY <1>4 DEF Adding
    <2>2. Stored(s, d)
      BY <2>1 DEF IInv, AddsInv
    <2> QED
      BY <1>1, <2>1, <2>2, StoredLasts
  <1>9. DeletesInv'
    <2> SUFFICES ASSUME NEW v \in Worker, NEW s \in Store, NEW d, v \in Busy', d = BodyOf(v)'.of,
                        BodyOf(v)'.op = "Delete", BeenTo(run'[v], s)
                 PROVE  \/ Held(s)'[d] = 0
                        \/ s \in run'[v].met \union run'[v].blind
                        \/ s = "rows" /\ Len(generate_collection_name(d)) > NameLimit
      BY DEF DeletesInv, BeenTo, generate_collection_name
    <2>1. v \in Busy /\ run'[v] = run[v] /\ BodyOf(v)' = BodyOf(v)
      BY <1>4
    <2> QED
      BY <2>1, HeldSame DEF IInv, DeletesInv
  <1>10. CopiesInv'
    <2> SUFFICES ASSUME NEW s \in Store, NEW d \in Descriptor
                 PROVE  Held(s)'[d] + Cardinality(DueWorkers(s, d)') + Cardinality(DueOrphans(s, d)')
                          <= runs'[d]
      BY DEF CopiesInv
    <2> DEFINE W == DueWorkers(s, d)
               O == DueOrphans(s, d)
    <2>1. /\ IsFiniteSet(W) /\ IsFiniteSet(O) /\ Cardinality(W) \in Nat /\ Cardinality(O) \in Nat
          /\ Held(s)[d] + Cardinality(W) + Cardinality(O) <= runs[d]
          /\ Held(s)[d] \in Nat /\ runs[d] \in Nat
      BY CopiesTypes DEF IInv
    <2>2. W' \subseteq W \ {w}
      BY <1>4 DEF DueWorkers, Adding, Due
    <2>3. O' \subseteq O \union Abandoned(w)
      BY DEF DueOrphans
    <2>4. IsFiniteSet(W') /\ Cardinality(W') \in Nat /\ Cardinality(W') <= Cardinality(W)
      BY <2>1, <2>2, Fewer
    <2>5. CASE O' \subseteq O
      <3>1. Cardinality(O') \in Nat /\ Cardinality(O') <= Cardinality(O)
        BY <2>1, <2>5, Fewer
      <3> HIDE DEF W, O
      <3> QED
        BY <2>1, <2>4, <3>1, HeldSame DEF W, O
    <2>6. CASE ~ (O' \subseteq O)
      <3>1. PICK o \in Abandoned(w) : o \in O'
        BY <2>3, <2>6
      <3>2. Waiting(w) /\ o.call = run[w].part.call /\ o.of = BodyOf(w).of
            /\ Abandoned(w) = {o}
        BY <3>1 DEF Abandoned
      <3>3. o.of = d /\ \E i \in DOMAIN o.call : o.call[i] = AddTo(s)
        BY <3>1 DEF DueOrphans, AddTo
      <3>4. w \in W
        BY <1>1, <3>2, <3>3, CallDue DEF DueWorkers
      <3>5. Cardinality(W') + 1 <= Cardinality(W)
        BY <2>1, <2>2, <3>4, OneLess
      <3>6. IsFiniteSet(O \union {o}) /\ Cardinality(O') <= Cardinality(O) + 1
        BY <2>1, <2>3, <3>2, OneMore, FS_AddElement
      <3>7. Cardinality(O') \in Nat
        BY <2>3, <3>2, <3>6, Fewer
      <3> HIDE DEF W, O
      <3> QED
        BY <2>1, <2>4, <3>5, <3>6, <3>7, HeldSame DEF W, O
    <2> QED
      BY <2>5, <2>6
  <1> QED
    BY <1>5, <1>6, <1>7, <1>8, <1>9, <1>10

LEMMA Faulted ==
    ASSUME TypeOK, Fault \/ UNCHANGED faults
    PROVE  faults' \in 0 .. MaxFaults /\ faults <= faults' /\ faults \in Nat /\ faults' \in Nat
  BY SinkersAssumption DEF TypeOK, Fault

\* What Report does to the result backend.
LEMMA Reports ==
    ASSUME IInv, NEW w \in Busy, NEW state \in {"SUCCESS", "FAILURE"}, Report(w, state)
    PROVE  /\ run' = [run EXCEPT ![w] = Idle]
           /\ result' \in [TaskId -> {"PENDING", "STARTED", "SUCCESS", "FAILURE"}]
           /\ reported' \in [TaskId -> SUBSET {"SUCCESS", "FAILURE"}]
           /\ \A t \in TaskId : result[t] # "PENDING" => result'[t] # "PENDING"
           /\ \A t \in TaskId : \/ result'[t] = result[t] /\ reported'[t] = reported[t]
                                \/ /\ t = run[w].task /\ result'[t] = state
                                   /\ reported'[t] = reported[t] \union {state}
  <1>1. run[w].task \in TaskId
    BY DEF IInv, TypeOK, Busy
  <1>2. /\ result \in [TaskId -> {"PENDING", "STARTED", "SUCCESS", "FAILURE"}]
        /\ reported \in [TaskId -> SUBSET {"SUCCESS", "FAILURE"}]
    BY DEF IInv, TypeOK
  <1>3. CASE result[run[w].task] = "SUCCESS"
    BY <1>1, <1>2, <1>3 DEF Report, StoreResult
  <1>4. CASE result[run[w].task] # "SUCCESS"
    BY <1>1, <1>2, <1>4 DEF Report, StoreResult
  <1> QED
    BY <1>3, <1>4

\* The end of an execution that is reported.
LEMMA ReportInv ==
    ASSUME IInv, NEW w \in Busy, NEW state \in {"SUCCESS", "FAILURE"}, Report(w, state),
           UNCHANGED <<storeVars, request, queue, runs, cleared>>, Fault \/ UNCHANGED faults,
           orphans' \subseteq orphans \union Abandoned(w),
           state = "SUCCESS" /\ BodyOf(w).op = "AddOrUpdate" =>
             \A s \in Store : Stored(s, BodyOf(w).of)
    PROVE  IInv'
  <1>1. /\ run' = [run EXCEPT ![w] = Idle]
        /\ result' \in [TaskId -> {"PENDING", "STARTED", "SUCCESS", "FAILURE"}]
        /\ reported' \in [TaskId -> SUBSET {"SUCCESS", "FAILURE"}]
        /\ \A t \in TaskId : result[t] # "PENDING" => result'[t] # "PENDING"
        /\ \A t \in TaskId : \/ result'[t] = result[t] /\ reported'[t] = reported[t]
                             \/ /\ t = run[w].task /\ result'[t] = state
                                /\ reported'[t] = reported[t] \union {state}
    BY Reports
  <1>2. faults' \in 0 .. MaxFaults /\ faults <= faults' /\ faults \in Nat /\ faults' \in Nat
    BY Faulted DEF IInv
  <1>3. /\ ExecutionsInv' /\ OrphansInv' /\ StoresTypeOK' /\ RowsHaveTable'
        /\ AddsInv' /\ DeletesInv' /\ CopiesInv'
    BY <1>1, <1>2, Ends
  <1>4. TypeOK'
    BY <1>1, <1>2, <1>3, Typed DEF IInv, TypeOK
  <1>5. TasksInv'
    <2>1. w \in Worker /\ BodyOf(w) \in Body
      BY DEF IInv, ExecutionsInv, Busy
    <2> QED
      BY <1>1, <2>1 DEF IInv, TasksInv, BodyOf
  <1>6. SuccessfulAddIsThere'
    <2> SUFFICES ASSUME NEW t \in TaskId, result'[t] = "SUCCESS", request'[t].op = "AddOrUpdate",
                        NEW s \in Store, NEW d, d = request'[t].of
                 PROVE  Stored(s, d)'
      BY SuccessStored DEF SuccessfulAddIsThere, Stored
    <2>1. Stored(s, d)
      <3>1. CASE result[t] = "SUCCESS"
        BY <3>1, SuccessStored DEF IInv
      <3>2. CASE result[t] # "SUCCESS"
        BY <1>1, <3>2 DEF BodyOf
      <3> QED
        BY <3>1, <3>2
    <2> QED
      BY <1>2, <2>1, StoredLasts
  <1> QED
    BY <1>3, <1>4, <1>5, <1>6 DEF IInv

LEMMA FailsInv ==
    ASSUME IInv, NEW w \in Worker, CallRefused(w) \/ PartFails(w) \/ CallAbandoned(w)
    PROVE  IInv'
  <1>1. w \in Busy /\ Report(w, "FAILURE") /\ (Fault \/ UNCHANGED faults)
        /\ UNCHANGED <<storeVars, request, queue, runs, cleared>>
    BY DEF CallRefused, PartFails, CallAbandoned, Waiting
  <1>2. orphans' \subseteq orphans \union Abandoned(w)
    BY DEF CallRefused, PartFails, CallAbandoned
  <1> QED
    BY <1>1, <1>2, ReportInv

\* An execution that is through has been everywhere.
LEMMA Through ==
    ASSUME IInv, NEW w \in Busy, run[w].at > Len(Parts(w))
    PROVE  /\ w \in Worker /\ BodyOf(w) \in Body
           /\ Behind(run[w], BodyOf(w))
           /\ BodyOf(w).op = "AddOrUpdate" => \A s \in Store : Stored(s, BodyOf(w).of)
           /\ BodyOf(w).op = "Delete" => \A s \in Store : BeenTo(run[w], s)
  <1>1. w \in Worker /\ BodyOf(w) \in Body /\ run[w].at \in Nat
    BY DEF IInv, ExecutionsInv, Busy, Execution
  <1>2. PartsCount(BodyOf(w)) \in {2, 3, 5}
    BY DEF PartsCount, LastPart
  <1>3. run[w].at > PartsCount(BodyOf(w))
    <2>1. 1 \in 1 .. PartsCount(BodyOf(w))
      BY <1>2
    <2> QED
      BY <1>1, <2>1, PartIs DEF Parts
  <1>4. CASE BodyOf(w).op = "Delete"
    <2>1. DeleteStage(run[w]) /\ run[w].at > 2
      BY <1>1, <1>3, <1>4 DEF IInv, ExecutionsInv, PartsCount
    <2>2. run[w].at = 3
      BY <2>1 DEF DeleteStage
    <2> QED
      BY <1>1, <1>4, <2>2 DEF Behind, BeenTo, Store
  <1>5. CASE BodyOf(w).op # "Delete"
    <2>1. AddStage(run[w], BodyOf(w).of) /\ run[w].at > LastPart(BodyOf(w).of) /\ Adding(w)
      BY <1>1, <1>3, <1>5 DEF IInv, ExecutionsInv, PartsCount, Adding, Body
    <2>2. run[w].at = LastPart(BodyOf(w).of) + 1 /\ run[w].part.call = <<>>
      <3>1. LastPart(BodyOf(w).of) = IF OfTables(BodyOf(w).of) THEN 5 ELSE 3
        BY DEF LastPart
      <3> QED
        BY <2>1, <3>1 DEF AddStage
    <2>3. \A s \in Store : ~ Due(run[w], BodyOf(w).of, s)
      <3>1. LastPart(BodyOf(w).of) \in {3, 5}
        BY DEF LastPart
      <3> QED
        BY <2>2, <3>1 DEF Due
    <2> QED
      BY <1>1, <1>5, <2>1, <2>2, <2>3 DEF Behind, IInv, AddsInv
  <1> QED
    BY <1>4, <1>5

LEMMA FinishInv ==
    ASSUME IInv, NEW w \in Worker, Finish(w)
    PROVE  IInv'
  <1>1. w \in Busy /\ run[w].at > Len(Parts(w)) /\ Report(w, "SUCCESS")
        /\ UNCHANGED <<storeVars, request, queue, orphans, faults, runs, cleared>>
    BY DEF Finish
  <1> QED
    BY <1>1, Through, ReportInv

\* Where nothing is reported, nothing new has to be there.
LEMMA SuccessLasts ==
    ASSUME IInv, UNCHANGED <<storeVars, cleared>>, faults' \in Nat, faults <= faults',
           \A t \in TaskId : result'[t] = "SUCCESS" => result[t] = "SUCCESS" /\ request'[t] = request[t]
    PROVE  SuccessfulAddIsThere'
  <1> SUFFICES ASSUME NEW t \in TaskId, result'[t] = "SUCCESS", request'[t].op = "AddOrUpdate",
                      NEW s \in Store, NEW d, d = request'[t].of
               PROVE  Stored(s, d)'
    BY DEF SuccessfulAddIsThere, Stored
  <1>1. Stored(s, d) /\ faults \in Nat
    BY SuccessStored, SinkersAssumption DEF IInv, TypeOK
  <1> QED
    BY <1>1, StoredLasts

LEMMA CrashInv ==
    ASSUME IInv, NEW w \in Worker, Crash(w)
    PROVE  IInv'
  <1>1. /\ w \in Busy /\ run' = [run EXCEPT ![w] = Idle] /\ Fault
        /\ orphans' = orphans \union Abandoned(w) /\ queue' = queue \union {run[w].task}
        /\ UNCHANGED <<storeVars, request, result, reported, runs, cleared>>
    BY DEF Crash
  <1>2. faults' \in 0 .. MaxFaults /\ faults <= faults' /\ faults \in Nat /\ faults' \in Nat
    BY <1>1, Faulted DEF IInv
  <1>3. /\ ExecutionsInv' /\ OrphansInv' /\ StoresTypeOK' /\ RowsHaveTable'
        /\ AddsInv' /\ DeletesInv' /\ CopiesInv'
    BY <1>1, <1>2, Ends
  <1>4. run[w].task \in TaskId /\ request[run[w].task] \in Body
    BY <1>1 DEF IInv, TypeOK, Busy, ExecutionsInv, BodyOf
  <1>5. TypeOK'
    BY <1>1, <1>2, <1>3, <1>4, Typed DEF IInv, TypeOK
  <1>6. TasksInv'
    BY <1>1, <1>4 DEF IInv, TasksInv
  <1>7. SuccessfulAddIsThere'
    BY <1>1, <1>2, SuccessLasts
  <1> QED
    BY <1>3, <1>5, <1>6, <1>7 DEF IInv

\* One execution moves, or begins, without touching the stores.
LEMMA Moves ==
    ASSUME IInv, NEW w \in Worker, NEW e \in Execution, run' = [run EXCEPT ![w] = e],
           UNCHANGED <<storeVars, request, orphans, cleared>>,
           faults' \in 0 .. MaxFaults, faults <= faults',
           \A t \in TaskId : result[t] # "PENDING" => result'[t] # "PENDING",
           NEW body \in Body, e.task \in TaskId, request[e.task] = body,
           result'[e.task] # "PENDING",
           IF body.op = "Delete" THEN DeleteStage(e) ELSE AddStage(e, body.of),
           e.part.call # <<>> \/ Behind(e, body) => e.part.work = {},
           e.lost => faults' > 0,
           body.op = "AddOrUpdate" =>
             \A s \in Store : Due(e, body.of, s) \/ Stored(s, body.of),
           body.op = "Delete" => \A s \in Store : ~ BeenTo(e, s),
           runs' \in [Descriptor -> Nat],
           \A s \in Store, d \in Descriptor :
             \/ runs'[d] = runs[d] /\ (body.op = "AddOrUpdate" /\ body.of = d /\ Due(e, d, s) =>
                                         w \in DueWorkers(s, d))
             \/ runs'[d] = runs[d] + 1
    PROVE  /\ ExecutionsInv' /\ OrphansInv' /\ StoresTypeOK' /\ RowsHaveTable'
           /\ AddsInv' /\ DeletesInv' /\ CopiesInv'
  <1>1. /\ faults \in Nat /\ faults' \in Nat
        /\ ExecutionsInv /\ StoresTypeOK /\ OrphansInv
    BY TypesStores, SinkersAssumption DEF IInv, TypeOK
  <1>2. /\ run' \in [Worker -> Execution]
        /\ \A v \in Worker : v # w => run'[v] = run[v]
        /\ run'[w] = e
    BY <1>1 DEF ExecutionsInv
  <1>3. /\ \A v \in Busy' : v \in Worker
        /\ \A v \in Busy' : v # w => v \in Busy /\ run'[v] = run[v] /\ BodyOf(v)' = BodyOf(v)
        /\ BodyOf(w)' = body
    BY <1>1, <1>2 DEF Busy, BodyOf
  <1>4. ExecutionsInv'
    <2> SUFFICES ASSUME NEW v \in Busy'
                 PROVE  /\ BodyOf(v)' \in Body /\ result'[run'[v].task] # "PENDING"
                        /\ IF BodyOf(v)'.op = "Delete" THEN DeleteStage(run'[v])
                           ELSE AddStage(run'[v], BodyOf(v)'.of)
                        /\ run'[v].part.call # <<>> \/ Behind(run'[v], BodyOf(v)') =>
                             run'[v].part.work = {}
                        /\ run'[v].lost => faults' > 0
      BY <1>2 DEF ExecutionsInv, DeleteStage, AddStage, Behind
    <2>1. CASE v = w
      BY <1>2, <1>3, <2>1
    <2>2. CASE v # w
      <3>1. v \in Busy /\ run'[v] = run[v] /\ BodyOf(v)' = BodyOf(v) /\ run[v].task \in TaskId
        BY <1>1, <1>3, <2>2 DEF Busy, ExecutionsInv, Execution
      <3> QED
        BY <1>1, <3>1 DEF ExecutionsInv
    <2> QED
      BY <2>1, <2>2
  <1>5. OrphansInv'
    BY <1>1 DEF OrphansInv
  <1>6. RowsHaveTable' /\ StoresTypeOK'
    BY <1>1 DEF IInv, RowsHaveTable, StoresTypeOK, storeVars, table_name, generate_collection_name
  <1>7. AddsInv'
    <2> SUFFICES ASSUME NEW v \in Worker, NEW s \in Store, NEW d, Adding(v)', d = BodyOf(v)'.of,
                        ~ Due(run'[v], d, s)
                 PROVE  Stored(s, d)'
      BY DEF AddsInv, Stored, Due
    <2>1. Stored(s, d)
      <3>1. CASE v = w
        BY <1>2, <1>3, <3>1 DEF Adding
      <3>2. CASE v # w
        BY <1>3, <3>2 DEF IInv, AddsInv, Adding
      <3> QED
        BY <3>1, <3>2
    <2> QED
      BY <1>1, <2>1, StoredLasts
  <1>8. DeletesInv'
    <2> SUFFICES ASSUME NEW v \in Worker, NEW s \in Store, NEW d, v \in Busy', d = BodyOf(v)'.of,
                        BodyOf(v)'.op = "Delete", BeenTo(run'[v], s)
                 PROVE  \/ Held(s)'[d] = 0
                        \/ s \in run'[v].met \union run'[v].blind
                        \/ s = "rows" /\ Len(generate_collection_name(d)) > NameLimit
      BY DEF DeletesInv, BeenTo, generate_collection_name
    <2>1. v # w
      BY <1>2, <1>3
    <2>2. v \in Busy /\ run'[v] = run[v] /\ BodyOf(v)' = BodyOf(v)
      BY <1>3, <2>1
    <2> QED
      BY <2>2, HeldSame DEF IInv, DeletesInv
  <1>9. CopiesInv'
    <2> SUFFICES ASSUME NEW s \in Store, NEW d \in Descriptor
                 PROVE  Held(s)'[d] + Cardinality(DueWorkers(s, d)') + Cardinality(DueOrphans(s, d)')
                          <= runs'[d]
      BY DEF CopiesInv
    <2> DEFINE W == DueWorkers(s, d)
               O == DueOrphans(s, d)
    <2>1. /\ IsFiniteSet(W) /\ IsFiniteSet(O) /\ Cardinality(W) \in Nat /\ Cardinality(O) \in Nat
          /\ Held(s)[d] + Cardinality(W) + Cardinality(O) <= runs[d]
          /\ Held(s)[d] \in Nat /\ runs[d] \in Nat
      BY CopiesTypes DEF IInv
    <2>2. W' \subseteq W \union {w}
      BY <1>3 DEF DueWorkers, Adding, Due
    <2>3. O' = O
      BY DEF DueOrphans, AddTo
    <2>4. CASE runs'[d] = runs[d] + 1
      <3>1. Cardinality(W') <= Cardinality(W) + 1
        BY <2>1, <2>2, OneMore
      <3>2. Cardinality(W') \in Nat
        BY <2>1, <2>2, FS_AddElement, Fewer
      <3> HIDE DEF W, O
      <3> QED
        BY <2>1, <2>3, <2>4, <3>1, <3>2, HeldSame, SMTT(40) DEF W, O
    <2>5. CASE runs'[d] = runs[d] /\ (body.op = "AddOrUpdate" /\ body.of = d /\ Due(e, d, s) => w \in W)
      <3>1. w \in W' => body.op = "AddOrUpdate" /\ body.of = d /\ Due(e, d, s)
        BY <1>2, <1>3 DEF DueWorkers, Adding, Due
      <3>2. W' \subseteq W
        BY <2>2, <2>5, <3>1
      <3>3. Cardinality(W') \in Nat /\ Cardinality(W') <= Cardinality(W)
        BY <2>1, <3>2, Fewer
      <3> HIDE DEF W, O
      <3> QED
        BY <2>1, <2>3, <2>5, <3>3, HeldSame DEF W, O
    <2> QED
      BY <2>4, <2>5
  <1> QED
    BY <1>4, <1>5, <1>6, <1>7, <1>8, <1>9

LEMMA TakeInv ==
    ASSUME IInv, NEW w \in Worker, NEW t \in TaskId, Take(w, t)
    PROVE  IInv'
  <1> DEFINE e == Turn([Idle EXCEPT !.task = t], 1)
             body == request[t]
  <1>1. /\ w \notin Busy /\ t \in queue /\ queue' = queue \ {t}
        /\ run' = [run EXCEPT ![w] = e] /\ StoreResult(t, "STARTED")
        /\ runs' = IF body.op = "Delete" THEN runs ELSE [runs EXCEPT ![body.of] = @ + 1]
        /\ UNCHANGED <<storeVars, request, reported, orphans, faults, cleared>>
    BY DEF Take
  <1>2. body \in Body /\ body.op \in {"AddOrUpdate", "Delete"} /\ body.of \in Descriptor
    BY <1>1 DEF IInv, TasksInv, Body
  <1>3. /\ [Idle EXCEPT !.task = t] \in Execution /\ [Idle EXCEPT !.task = t].task = t
        /\ [Idle EXCEPT !.task = t].lost = FALSE
    <2>1. Idle \in Execution /\ Idle.lost = FALSE
      BY DEF Idle, Execution, Part, Reading
    <2> QED
      BY <2>1 DEF Execution
  <1>4. PartsCount(body) \in {2, 3, 5} /\ LastPart(body.of) \in {3, 5}
    BY DEF PartsCount, LastPart
  <1>5. /\ e \in Execution /\ e.at = 1 /\ e.task = t /\ e.lost = FALSE
        /\ e.part.call = FirstCall(body, 1)
        /\ e.part.call # <<>> \/ 1 = PartsCount(body) + 1 => e.part.work = {}
    <2> DEFINE start == [Idle EXCEPT !.task = t]
    <2>1. 1 \in 1 .. PartsCount(body) + 1
      BY <1>4
    <2>2. start \in Execution /\ start.task = t /\ start.lost = FALSE /\ e = Turn(start, 1)
      BY <1>3
    <2> HIDE DEF start, e
    <2>3. request[start.task] = body
      BY <2>2
    <2> QED
      BY <1>2, <2>1, <2>2, <2>3, Turned
  <1> HIDE DEF e
  <1>6. IF body.op = "Delete" THEN DeleteStage(e) ELSE AddStage(e, body.of)
    BY <1>5 DEF DeleteStage, AddStage, FirstCall, LastPart
  <1>7. e.part.call # <<>> \/ Behind(e, body) => e.part.work = {}
    BY <1>4, <1>5 DEF Behind
  <1>8. \A s \in Store : body.op = "AddOrUpdate" => Due(e, body.of, s) \/ Stored(s, body.of)
    BY <1>2, <1>4, <1>5, SinkersAssumption DEF Due, Store, Stored, OfTables
  <1>9. \A s \in Store : body.op = "Delete" => ~ BeenTo(e, s)
    BY <1>5 DEF BeenTo, FirstCall
  <1>10. /\ result' \in [TaskId -> {"PENDING", "STARTED", "SUCCESS", "FAILURE"}]
         /\ \A u \in TaskId : u # t => result'[u] = result[u]
         /\ result[t] = "SUCCESS" => result'[t] = "SUCCESS"
         /\ result[t] # "SUCCESS" => result'[t] = "STARTED"
    BY <1>1 DEF StoreResult, IInv, TypeOK
  <1>11. /\ runs \in [Descriptor -> Nat] /\ runs' \in [Descriptor -> Nat]
         /\ \A d \in Descriptor : runs'[d] = runs[d] \/ runs'[d] = runs[d] + 1
         /\ body.op = "AddOrUpdate" => runs'[body.of] = runs[body.of] + 1
    BY <1>1, <1>2 DEF IInv, TypeOK
  <1>12. faults' \in 0 .. MaxFaults /\ faults <= faults' /\ faults \in Nat /\ faults' \in Nat
    BY <1>1, Faulted DEF IInv
  <1>13. /\ ExecutionsInv' /\ OrphansInv' /\ StoresTypeOK' /\ RowsHaveTable'
         /\ AddsInv' /\ DeletesInv' /\ CopiesInv'
    <2>1. \A s \in Store, d \in Descriptor :
            \/ runs'[d] = runs[d] /\ (body.op = "AddOrUpdate" /\ body.of = d /\ Due(e, d, s) =>
                                         w \in DueWorkers(s, d))
            \/ runs'[d] = runs[d] + 1
      BY <1>11
    <2>2. /\ e.task \in TaskId /\ request[e.task] = body /\ result'[e.task] # "PENDING"
          /\ ~ e.lost /\ \A u \in TaskId : result[u] # "PENDING" => result'[u] # "PENDING"
      BY <1>5, <1>10
    <2>3. UNCHANGED <<storeVars, request, orphans, cleared>> /\ run' = [run EXCEPT ![w] = e]
      BY <1>1
    <2> HIDE DEF body
    <2> QED
      BY <1>2, <1>5, <1>6, <1>7, <1>8, <1>9, <1>11, <1>12, <2>1, <2>2, <2>3, Moves
  <1>14. TypeOK'
    BY <1>1, <1>10, <1>11, <1>12, <1>13, Typed DEF IInv, TypeOK
  <1>15. TasksInv'
    BY <1>1, <1>2, <1>10 DEF IInv, TasksInv
  <1>16. SuccessfulAddIsThere'
    BY <1>1, <1>10, <1>12, SuccessLasts
  <1> QED
    BY <1>13, <1>14, <1>15, <1>16 DEF IInv

LEMMA ReadInv ==
    ASSUME IInv, NEW w \in Worker, Read(w)
    PROVE  IInv'
  <1> DEFINE old == run[w]
             turned == Turn(old, old.at + 1)
             body == BodyOf(w)
  <1>1. /\ w \in Busy /\ old.part.work # {}
        /\ \/ run' = [run EXCEPT ![w] = turned] /\ UNCHANGED faults
           \/ run' = [run EXCEPT ![w] = [turned EXCEPT !.lost = TRUE]] /\ Fault
        /\ UNCHANGED <<storeVars, request, queue, result, reported, orphans, runs, cleared>>
    BY DEF Read
  <1>2. /\ body \in Body /\ old \in Execution /\ old.task \in TaskId /\ body = request[old.task]
        /\ result[old.task] # "PENDING" /\ old.part.call = <<>> /\ ~ Behind(old, body)
        /\ IF body.op = "Delete" THEN DeleteStage(old) ELSE AddStage(old, body.of)
        /\ old.lost => faults > 0
    BY <1>1 DEF IInv, ExecutionsInv, Busy, Execution, BodyOf
  <1>3. body.op = "AddOrUpdate" /\ (old.at = 1 \/ (OfTables(body.of) /\ old.at = 3))
    <2>1. body.op # "Delete"
      BY <1>2 DEF DeleteStage, Behind
    <2> QED
      <3>1. AddStage(old, body.of) /\ old.part.call = <<>> /\ old.at # LastPart(body.of) + 1
        BY <1>2, <2>1 DEF Behind
      <3>2. body.op = "AddOrUpdate"
        BY <1>2, <2>1 DEF Body
      <3>3. /\ <<"create">> # <<>> /\ <<"acreate_collection">> # <<>> /\ <<"add_memory">> # <<>>
            /\ <<"aadd_texts", "add_memory">> # <<>>
        OBVIOUS
      <3> HIDE DEF body, old
      <3>4. old.at = 1 \/ (OfTables(body.of) /\ old.at = 3)
        BY <3>1, <3>3, Zenon DEF AddStage
      <3> QED
        BY <3>2, <3>4
  <1>4. LastPart(body.of) = IF OfTables(body.of) THEN 5 ELSE 3
    BY DEF LastPart
  <1>5. /\ turned \in Execution /\ turned.at = old.at + 1 /\ turned.task = old.task
        /\ turned.lost = old.lost
        /\ turned.part.call = FirstCall(body, old.at + 1)
        /\ turned.part.call # <<>> \/ turned.at = PartsCount(body) + 1 => turned.part.work = {}
    <2>1. old.at + 1 \in 1 .. PartsCount(request[old.task]) + 1
      BY <1>2, <1>3, <1>4 DEF PartsCount
    <2> QED
      BY <1>2, <2>1, Turned
  <1>6. PICK e \in Execution :
          /\ run' = [run EXCEPT ![w] = e]
          /\ e.at = old.at + 1 /\ e.task = old.task /\ e.part = turned.part
          /\ \/ UNCHANGED faults /\ e.lost = old.lost
             \/ Fault
    <2>1. [turned EXCEPT !.lost = TRUE] \in Execution
      BY <1>5 DEF Execution
    <2>2. /\ [turned EXCEPT !.lost = TRUE].at = turned.at /\ [turned EXCEPT !.lost = TRUE].task = turned.task
          /\ [turned EXCEPT !.lost = TRUE].part = turned.part
      BY <1>5 DEF Execution
    <2> HIDE DEF turned
    <2> QED
      BY <1>1, <1>5, <2>1, <2>2
  <1> HIDE DEF turned
  <1>7. e.part.call = FirstCall(body, old.at + 1) /\ (e.part.call # <<>> \/ Behind(e, body) => e.part.work = {})
    BY <1>3, <1>5, <1>6 DEF Behind, PartsCount
  <1>8. faults' \in 0 .. MaxFaults /\ faults <= faults' /\ faults \in Nat /\ faults' \in Nat
        /\ (Fault => faults' > 0)
    BY <1>6, Faulted DEF IInv, Fault
  <1>9. e.lost => faults' > 0
    BY <1>2, <1>6, <1>8
  <1>10. AddStage(e, body.of)
    <2>1. CASE OfTables(body.of)
      BY <1>3, <1>4, <1>6, <1>7, <2>1 DEF AddStage, FirstCall
    <2>2. CASE ~ OfTables(body.of)
      BY <1>3, <1>4, <1>6, <1>7, <2>2, SMTT(40) DEF AddStage, FirstCall
    <2> QED
      BY <2>1, <2>2
  <1>11. \A s \in Store : Due(e, body.of, s) <=> Due(old, body.of, s)
    <2>1. CASE OfTables(body.of)
      BY <1>2, <1>3, <1>4, <1>6, <1>7, <2>1, SMTT(60) DEF Due, FirstCall
    <2>2. CASE ~ OfTables(body.of)
      BY <1>2, <1>3, <1>4, <1>6, <1>7, <2>2, SMTT(60) DEF Due, FirstCall
    <2> QED
      BY <2>1, <2>2
  <1>12. Adding(w)
    BY <1>1, <1>3 DEF Adding
  <1>13. \A s \in Store : Due(e, body.of, s) \/ Stored(s, body.of)
    BY <1>11, <1>12 DEF IInv, AddsInv
  <1>14. \A s \in Store, d \in Descriptor :
           body.of = d /\ Due(e, d, s) => w \in DueWorkers(s, d)
    BY <1>11, <1>12 DEF DueWorkers
  <1>15. /\ ExecutionsInv' /\ OrphansInv' /\ StoresTypeOK' /\ RowsHaveTable'
         /\ AddsInv' /\ DeletesInv' /\ CopiesInv'
    <2>1. runs' = runs /\ runs' \in [Descriptor -> Nat]
      BY <1>1 DEF IInv, TypeOK
    <2>2. body.op # "Delete" /\ request[e.task] = body /\ e.task \in TaskId /\ result'[e.task] # "PENDING"
          /\ (\A t \in TaskId : result[t] # "PENDING" => result'[t] # "PENDING")
      BY <1>1, <1>2, <1>3, <1>6
    <2> HIDE DEF body, old
    <2> QED
      BY <1>1, <1>2, <1>3, <1>6, <1>7, <1>8, <1>9, <1>10, <1>13, <1>14, <2>1, <2>2, Moves
  <1>16. TypeOK'
    BY <1>1, <1>8, <1>15, Typed DEF IInv, TypeOK
  <1>17. TasksInv'
    BY <1>1 DEF IInv, TasksInv
  <1>18. SuccessfulAddIsThere'
    BY <1>1, <1>8, SuccessLasts
  <1> QED
    BY <1>15, <1>16, <1>17, <1>18 DEF IInv

\* Steps of the broker and of the service's clients.
LEMMA Lasts ==
    ASSUME IInv, UNCHANGED <<storeVars, run, runs, cleared, result>>,
           faults' \in 0 .. MaxFaults, faults <= faults',
           \A t \in TaskId : request[t] \in Body => request'[t] = request[t],
           orphans' \subseteq orphans
    PROVE  /\ ExecutionsInv' /\ OrphansInv' /\ StoresTypeOK' /\ RowsHaveTable'
           /\ AddsInv' /\ DeletesInv' /\ CopiesInv' /\ SuccessfulAddIsThere'
  <1>1. /\ faults \in Nat /\ faults' \in Nat
        /\ ExecutionsInv /\ StoresTypeOK /\ OrphansInv
    BY TypesStores, SinkersAssumption DEF IInv, TypeOK
  <1>2. /\ Busy' = Busy
        /\ \A v \in Busy : v \in Worker /\ run[v].task \in TaskId /\ BodyOf(v)' = BodyOf(v)
    BY <1>1 DEF Busy, BodyOf, ExecutionsInv, Execution
  <1>3. ExecutionsInv'
    BY <1>1, <1>2 DEF ExecutionsInv, DeleteStage, AddStage, Behind
  <1>4. OrphansInv'
    BY <1>1, Fewer DEF OrphansInv
  <1>5. RowsHaveTable' /\ StoresTypeOK'
    BY <1>1 DEF IInv, RowsHaveTable, StoresTypeOK, storeVars, table_name, generate_collection_name
  <1>6. AddsInv'
    <2> SUFFICES ASSUME NEW v \in Worker, NEW s \in Store, NEW d, Adding(v)', d = BodyOf(v)'.of,
                        ~ Due(run[v], d, s)
                 PROVE  Stored(s, d)'
      BY DEF AddsInv, Stored, Due
    <2>1. Adding(v) /\ d = BodyOf(v).of
      BY <1>2 DEF Adding
    <2> QED
      BY <1>1, <2>1, StoredLasts DEF IInv, AddsInv
  <1>7. DeletesInv'
    <2> SUFFICES ASSUME NEW v \in Worker, NEW s \in Store, NEW d, v \in Busy', d = BodyOf(v)'.of,
                        BodyOf(v)'.op = "Delete", BeenTo(run[v], s)
                 PROVE  \/ Held(s)'[d] = 0
                        \/ s \in run[v].met \union run[v].blind
                        \/ s = "rows" /\ Len(generate_collection_name(d)) > NameLimit
      BY DEF DeletesInv, BeenTo, generate_collection_name
    <2> QED
      BY <1>2, HeldSame DEF IInv, DeletesInv
  <1>8. CopiesInv'
    <2> SUFFICES ASSUME NEW s \in Store, NEW d \in Descriptor
                 PROVE  Held(s)'[d] + Cardinality(DueWorkers(s, d)') + Cardinality(DueOrphans(s, d)')
                          <= runs'[d]
      BY DEF CopiesInv
    <2>1. /\ IsFiniteSet(DueOrphans(s, d)) /\ Cardinality(DueWorkers(s, d)) \in Nat
          /\ Held(s)[d] + Cardinality(DueWorkers(s, d)) + Cardinality(DueOrphans(s, d)) <= runs[d]
          /\ Held(s)[d] \in Nat /\ runs[d] \in Nat
      BY CopiesTypes DEF IInv
    <2>2. DueWorkers(s, d)' = DueWorkers(s, d)
      BY <1>2 DEF DueWorkers, Adding, Due, OfTables, LastPart
    <2>3. DueOrphans(s, d)' \subseteq DueOrphans(s, d)
      BY DEF DueOrphans, AddTo
    <2>4. /\ Cardinality(DueOrphans(s, d)') \in Nat /\ Cardinality(DueOrphans(s, d)) \in Nat
          /\ Cardinality(DueOrphans(s, d)') <= Cardinality(DueOrphans(s, d))
      BY <2>1, <2>3, Fewer
    <2> QED
      BY <2>1, <2>2, <2>4, HeldSame
  <1>9. SuccessfulAddIsThere'
    <2>1. \A t \in TaskId : result'[t] = "SUCCESS" => result[t] = "SUCCESS" /\ request'[t] = request[t]
      BY DEF IInv, TasksInv
    <2> QED
      BY <1>1, <2>1, SuccessLasts
  <1> QED
    BY <1>3, <1>4, <1>5, <1>6, <1>7, <1>8, <1>9

LEMMA TriggerInv ==
    ASSUME IInv, NEW t \in TaskId, NEW body \in Body, TriggerTask(t, body)
    PROVE  IInv'
  <1>1. /\ {u \in TaskId : request[u] # NoReq} # TaskId
        /\ t = CHOOSE u \in TaskId : request[u] = NoReq
        /\ request' = [request EXCEPT ![t] = body] /\ queue' = queue \union {t}
        /\ UNCHANGED <<storeVars, result, reported, run, orphans, faults, runs, cleared>>
    BY DEF TriggerTask
  <1>2. request[t] = NoReq
    BY <1>1
  <1>3. /\ request \in [TaskId -> Body \union {NoReq}]
        /\ \A u \in TaskId : request[u] \in Body => u # t /\ request'[u] = request[u]
    BY <1>1, <1>2, BodyAssumption DEF IInv, TypeOK
  <1>4. request'[t] = body
    BY <1>1, <1>3
  <1>5. faults' \in 0 .. MaxFaults /\ faults <= faults'
    BY <1>1, Faulted DEF IInv
  <1>6. /\ ExecutionsInv' /\ OrphansInv' /\ StoresTypeOK' /\ RowsHaveTable'
        /\ AddsInv' /\ DeletesInv' /\ CopiesInv' /\ SuccessfulAddIsThere'
    BY <1>1, <1>3, <1>5, Lasts
  <1>7. TypeOK'
    BY <1>1, <1>3, <1>5, <1>6, Typed DEF IInv, TypeOK
  <1>8. TasksInv'
    BY <1>1, <1>3, <1>4 DEF IInv, TasksInv
  <1> QED
    BY <1>6, <1>7, <1>8 DEF IInv

LEMMA VisibilityInv ==
    ASSUME IInv, NEW w \in Worker, VisibilityTimeout(w)
    PROVE  IInv'
  <1>1. /\ w \in Busy /\ Fault /\ queue' = queue \union {run[w].task}
        /\ UNCHANGED <<storeVars, request, result, reported, run, orphans, runs, cleared>>
    BY DEF VisibilityTimeout
  <1>2. run[w].task \in TaskId /\ request[run[w].task] \in Body
    BY <1>1 DEF IInv, TypeOK, Busy, ExecutionsInv, BodyOf
  <1>3. faults' \in 0 .. MaxFaults /\ faults <= faults'
    BY <1>1, Faulted DEF IInv
  <1>4. /\ ExecutionsInv' /\ OrphansInv' /\ StoresTypeOK' /\ RowsHaveTable'
        /\ AddsInv' /\ DeletesInv' /\ CopiesInv' /\ SuccessfulAddIsThere'
    BY <1>1, <1>3, Lasts
  <1>5. TypeOK'
    BY <1>1, <1>2, <1>3, <1>4, Typed DEF IInv, TypeOK
  <1>6. TasksInv'
    BY <1>1, <1>2 DEF IInv, TasksInv
  <1> QED
    BY <1>4, <1>5, <1>6 DEF IInv

LEMMA OrphanRefusedInv ==
    ASSUME IInv, NEW o \in orphans, OrphanRefused(o)
    PROVE  IInv'
  <1>1. /\ orphans' \subseteq orphans
        /\ UNCHANGED <<storeVars, request, queue, result, reported, run, faults, runs, cleared>>
    BY DEF OrphanRefused
  <1>2. faults' \in 0 .. MaxFaults /\ faults <= faults'
    BY <1>1, Faulted DEF IInv
  <1>3. /\ ExecutionsInv' /\ OrphansInv' /\ StoresTypeOK' /\ RowsHaveTable'
        /\ AddsInv' /\ DeletesInv' /\ CopiesInv' /\ SuccessfulAddIsThere'
    BY <1>1, <1>2, Lasts
  <1>4. TypeOK' /\ TasksInv'
    BY <1>1, <1>2, <1>3, Typed DEF IInv, TypeOK, TasksInv
  <1> QED
    BY <1>3, <1>4 DEF IInv

(***************************************************************************)
(* Steps of data-services                                                  *)
(***************************************************************************)

\* What a served step does, store by store.
LEMMA Effects ==
    ASSUME StoresTypeOK, RowsHaveTable, NEW step \in Steps, NEW d \in Descriptor, NEW n \in {0, 1},
           NEW readable \in BOOLEAN, Effect(step, d, n, readable)
    PROVE  /\ StoresTypeOK' /\ RowsHaveTable'
           /\ \A s \in Store, e \in Descriptor :
                /\ Held(s)'[e] \in Nat /\ Held(s)[e] \in Nat
                /\ step = AddTo(s) /\ e = d =>
                     Held(s)'[e] = Held(s)[e] + IF s = "prints" THEN 1 ELSE n
                /\ step # AddTo(s) \/ e # d => Held(s)'[e] \in {Held(s)[e], 0}
           /\ step = "adelete" /\ readable /\ Len(generate_collection_name(d)) <= NameLimit =>
                Held("rows")'[d] = 0
           /\ step = "delete_all_memories" => Held("memories")'[d] = 0
           /\ step = "delete_by_dd_info" => Held("prints")'[d] = 0
           /\ step = "exists_by_dd_info" => Held("prints")'[d] = Held("prints")[d]
  <1>1. /\ tables' \subseteq {table_name(e) : e \in Descriptor} /\ RowsHaveTable'
        /\ Written(rows, rows', step = "aadd_texts", d, n)
        /\ step = "adelete" /\ readable /\ Len(generate_collection_name(d)) <= NameLimit =>
             rows'[d] = 0
    BY RowsEffect
  <1>2. /\ Written(memories, memories', step = "add_memory", d, n)
        /\ step = "delete_all_memories" => memories'[d] = 0
    BY MemoriesEffect
  <1>3. /\ Written(prints, prints', step = "create", d, 1)
        /\ step = "delete_by_dd_info" => prints'[d] = 0
        /\ step = "exists_by_dd_info" => prints' = prints
    BY PrintsEffect
  <1>4. StoresTypeOK'
    BY <1>1, <1>2, <1>3 DEF StoresTypeOK, Written, table_name, generate_collection_name
  <1>5. /\ Held("rows") = rows /\ Held("memories") = memories /\ Held("prints") = prints
        /\ Held("rows")' = rows' /\ Held("memories")' = memories' /\ Held("prints")' = prints'
        /\ AddTo("rows") = "aadd_texts" /\ AddTo("memories") = "add_memory" /\ AddTo("prints") = "create"
    BY DEF Held, AddTo
  <1>6. ASSUME NEW s \in Store, NEW e \in Descriptor
        PROVE  /\ Held(s)'[e] \in Nat /\ Held(s)[e] \in Nat
               /\ step = AddTo(s) /\ e = d =>
                    Held(s)'[e] = Held(s)[e] + IF s = "prints" THEN 1 ELSE n
               /\ step # AddTo(s) \/ e # d => Held(s)'[e] \in {Held(s)[e], 0}
    <2>1. CASE s = "rows"
      BY <1>1, <1>4, <1>5, <2>1 DEF Written, StoresTypeOK
    <2>2. CASE s = "memories"
      BY <1>2, <1>4, <1>5, <2>2 DEF Written, StoresTypeOK
    <2>3. CASE s = "prints"
      BY <1>3, <1>4, <1>5, <2>3 DEF Written, StoresTypeOK
    <2> QED
      BY <2>1, <2>2, <2>3 DEF Store
  <1> QED
    BY <1>1, <1>2, <1>3, <1>4, <1>5, <1>6

LEMMA NotedStored ==
    ASSUME Noted, faults \in Nat, faults' \in Nat, faults <= faults',
           NEW s \in Store, NEW d \in Descriptor, Held(s)[d] \in Nat, Held(s)'[d] \in Nat
    PROVE  /\ Stored(s, d) => Stored(s, d)'
           /\ Held(s)'[d] > 0 => Stored(s, d)'
  <1>1. <<s, d>> \in cleared' <=>
          IF Held(s)'[d] = Held(s)[d] THEN <<s, d>> \in cleared ELSE Held(s)'[d] = 0
    BY DEF Noted, Held
  <1> QED
    BY <1>1 DEF Stored

LEMMA NotedTypes == Noted => cleared' \subseteq Store \X Descriptor
  BY DEF Noted

LEMMA StoreOfAdds ==
    /\ \A s \in Store : AddTo(s) \in Adds /\ StoreOf(AddTo(s)) = s
    /\ \A step \in Steps : step \in Adds => step = AddTo(StoreOf(step)) /\ StoreOf(step) \in Store
    /\ \A step \in Steps : step \notin Adds => \A s \in Store : step # AddTo(s)
  BY DEF StoreOf, AddTo, Store, Adds, Steps, Removes, Looks

\* What another request does to a store a Delete has been to is noted, or nothing.
LEMMA OthersMet ==
    ASSUME IInv, NEW v \in Busy, BodyOf(v).op = "Delete", NEW s \in Store, BeenTo(run[v], s),
           NEW w, v # w, NEW step \in Steps, NEW d \in Descriptor,
           step # AddTo(s) \/ BodyOf(v).of # d => Held(s)'[BodyOf(v).of] \in {Held(s)[BodyOf(v).of], 0}
    PROVE  \/ Held(s)'[BodyOf(v).of] = 0
           \/ s \in Met(v, w, step, d) \union run[v].blind
           \/ s = "rows" /\ Len(generate_collection_name(BodyOf(v).of)) > NameLimit
  <1>1. /\ v \in Worker /\ BodyOf(v) \in Body
        /\ \/ Held(s)[BodyOf(v).of] = 0
           \/ s \in run[v].met \union run[v].blind
           \/ s = "rows" /\ Len(generate_collection_name(BodyOf(v).of)) > NameLimit
    BY DEF IInv, ExecutionsInv, DeletesInv, Busy
  <1>2. CASE step = AddTo(s) /\ BodyOf(v).of = d
    <2>1. BodyOf(v) = [op |-> "Delete", of |-> d]
      BY <1>1, <1>2 DEF Body
    <2>2. s \in Met(v, w, step, d)
      BY <1>2, <2>1, StoreOfAdds DEF Met
    <2> QED
      BY <2>2
  <1>3. CASE step # AddTo(s) \/ BodyOf(v).of # d
    <2>1. run[v].met \subseteq Met(v, w, step, d)
      BY DEF Met
    <2> QED
      BY <1>1, <1>3, <2>1
  <1> QED
    BY <1>2, <1>3

\* A request has still to write to the store.
DueIn(call, s) == \E i \in DOMAIN call : call[i] = AddTo(s)

\* A request gets shorter, and does not write to one store twice.
LEMMA RestDue ==
    ASSUME NEW call \in Calls, NEW s \in Store, NEW d \in Descriptor, NEW readable
    PROVE  /\ DueIn(Rest(call, d, readable), s) => DueIn(call, s)
           /\ Head(call) = AddTo(s) => DueIn(call, s) /\ ~ DueIn(Rest(call, d, readable), s)
  <1>1. \A a, b : DueIn(<<a, b>>, s) <=> a = AddTo(s) \/ b = AddTo(s)
    <2> TAKE a, b
    <2>1. DOMAIN <<a, b>> = {1, 2} /\ <<a, b>>[1] = a /\ <<a, b>>[2] = b
      OBVIOUS
    <2> QED
      BY <2>1 DEF DueIn
  <1>2. \A a : DueIn(<<a>>, s) <=> a = AddTo(s)
    <2> TAKE a
    <2>1. DOMAIN <<a>> = {1} /\ <<a>>[1] = a
      OBVIOUS
    <2> QED
      BY <2>1 DEF DueIn
  <1>3. ~ DueIn(<<>>, s)
    BY DEF DueIn
  <1>4. AddTo(s) \in {"aadd_texts", "add_memory", "create"}
    BY DEF AddTo
  <1>0. {"delete_by_dd_info", "delete_all_memories", "create", "acreate_collection", "add_memory"}
          \subseteq Steps \ {"exists_by_dd_info"}
    BY DEF Steps, Adds, Removes, Looks
  <1>5. CASE call \in {<<"exists_by_dd_info", "delete_by_dd_info">>, <<"adelete", "delete_all_memories">>}
    <2>1. Rest(call, d, readable) \in {<<"delete_by_dd_info">>, <<"delete_all_memories">>, <<>>}
          /\ Head(call) \in {"exists_by_dd_info", "adelete"}
      BY <1>5, Rests
    <2> QED
      BY <1>2, <1>3, <1>4, <2>1
  <1>6. CASE call = <<"aadd_texts", "add_memory">>
    <2>1. Rest(call, d, readable) = <<"add_memory">> /\ Head(call) = "aadd_texts"
      BY <1>6, Rests
    <2> QED
      BY <1>1, <1>2, <1>4, <1>6, <2>1
  <1>7. CASE \E a \in Steps \ {"exists_by_dd_info"} : call = <<a>>
    <2>1. PICK a \in Steps \ {"exists_by_dd_info"} : call = <<a>>
      BY <1>7
    <2>2. Rest(call, d, readable) = <<>> /\ Head(call) = a
      BY <2>1, Rests
    <2> QED
      BY <1>2, <1>3, <2>1, <2>2
  <1> QED
    BY <1>0, <1>5, <1>6, <1>7 DEF Calls, delete_fingerprints_by_dd_info,
       delete_all_documents_and_memorys_by_collection_name, create_fingerprint,
       create_collection_with_knowledge_pyramid, add_documents_with_knowledge_pyramid

LEMMA ServeOrphanInv ==
    ASSUME IInv, NEW o \in orphans, ServeOrphan(o)
    PROVE  IInv'
  <1> DEFINE step == Head(o.call)
             rest == Rest(o.call, o.of, TRUE)
             left == [o EXCEPT !.call = rest]
  <1>1. /\ Effect(step, o.of, o.docs, TRUE) /\ Noted
        /\ orphans' = (orphans \ {o}) \union (IF rest = <<>> THEN {} ELSE {left})
        /\ run' = [v \in Worker |-> [run[v] EXCEPT !.met = Met(v, NoTask, step, o.of)]]
        /\ UNCHANGED <<request, queue, result, reported, faults, runs>>
    BY DEF ServeOrphan
  <1>2. /\ faults \in Nat /\ ExecutionsInv /\ StoresTypeOK /\ RowsHaveTable /\ OrphansInv
    BY TypesStores, SinkersAssumption DEF IInv, TypeOK
  <1>3. /\ o \in [call : Calls, of : Descriptor, docs : {0, 1}]
        /\ o.call \in Calls /\ o.of \in Descriptor /\ o.docs \in {0, 1} /\ step \in Steps
        /\ rest \in Calls \union {<<>>}
    <2>1. o \in [call : Calls, of : Descriptor, docs : {0, 1}]
      BY <1>2 DEF OrphansInv
    <2>2. o.call \in Calls /\ o.of \in Descriptor /\ o.docs \in {0, 1}
      BY <2>1
    <2> QED
      BY <2>1, <2>2, Rests
  <1>4. /\ StoresTypeOK' /\ RowsHaveTable'
        /\ \A s \in Store, e \in Descriptor :
             /\ Held(s)'[e] \in Nat /\ Held(s)[e] \in Nat
             /\ step = AddTo(s) /\ e = o.of =>
                  Held(s)'[e] = Held(s)[e] + IF s = "prints" THEN 1 ELSE o.docs
             /\ step # AddTo(s) \/ e # o.of => Held(s)'[e] \in {Held(s)[e], 0}
    <2> HIDE DEF step
    <2>1. ASSUME NEW d, d = o.of, NEW n, n = o.docs, NEW b \in BOOLEAN, b
          PROVE  /\ StoresTypeOK' /\ RowsHaveTable'
                 /\ \A s \in Store, e \in Descriptor :
                      /\ Held(s)'[e] \in Nat /\ Held(s)[e] \in Nat
                      /\ step = AddTo(s) /\ e = d =>
                           Held(s)'[e] = Held(s)[e] + IF s = "prints" THEN 1 ELSE n
                      /\ step # AddTo(s) \/ e # d => Held(s)'[e] \in {Held(s)[e], 0}
      <3>1. /\ step \in Steps /\ d \in Descriptor /\ n \in {0, 1}
            /\ StoresTypeOK /\ RowsHaveTable /\ Effect(step, d, n, b)
        BY <1>1, <1>2, <1>3, <2>1
      <3> QED
        BY <3>1, Effects
    <2> QED
      BY <2>1, ZenonT(60)
  <1>5. /\ left \in [call : Calls \union {<<>>}, of : Descriptor, docs : {0, 1}]
        /\ left.call = rest /\ left.of = o.of
    BY <1>3
  <1> HIDE DEF rest, left, step
  <1>6. /\ run' \in [Worker -> Execution]
        /\ \A v \in Worker :
             /\ run'[v].task = run[v].task /\ run'[v].at = run[v].at /\ run'[v].part = run[v].part
             /\ run'[v].lost = run[v].lost /\ run'[v].blind = run[v].blind
             /\ run'[v].met = Met(v, NoTask, step, o.of)
    <2>1. \A v \in Worker : run[v] \in Execution /\ Met(v, NoTask, step, o.of) \in SUBSET Store
      BY <1>2, MetTypes DEF ExecutionsInv
    <2> QED
      BY <1>1, <2>1 DEF Execution
  <1>7. /\ Busy' = Busy /\ \A v \in Worker : BodyOf(v)' = BodyOf(v)
    BY <1>1, <1>6 DEF Busy, BodyOf
  <1>8. ExecutionsInv'
    <2> SUFFICES ASSUME NEW v \in Busy'
                 PROVE  /\ BodyOf(v)' \in Body /\ result'[run'[v].task] # "PENDING"
                        /\ IF BodyOf(v)'.op = "Delete" THEN DeleteStage(run'[v])
                           ELSE AddStage(run'[v], BodyOf(v)'.of)
                        /\ run'[v].part.call # <<>> \/ Behind(run'[v], BodyOf(v)') =>
                             run'[v].part.work = {}
                        /\ run'[v].lost => faults' > 0
      BY <1>6 DEF ExecutionsInv, DeleteStage, AddStage, Behind
    <2>1. v \in Busy /\ v \in Worker
      BY <1>7 DEF Busy
    <2> QED
      BY <1>1, <1>2, <1>6, <1>7, <2>1 DEF ExecutionsInv, DeleteStage, AddStage, Behind
  <1>9. OrphansInv'
    <2>1. rest # <<>> => left \in [call : Calls, of : Descriptor, docs : {0, 1}]
      BY <1>3, <1>5
    <2>2. IsFiniteSet((orphans \ {o}) \union {left}) /\ IsFiniteSet(orphans \ {o})
      BY <1>2, FS_AddElement, FS_RemoveElement DEF OrphansInv
    <2>3. IsFiniteSet(orphans')
      BY <1>1, <2>2
    <2> QED
      BY <1>1, <1>2, <2>1, <2>3 DEF OrphansInv
  <1>10. \A s \in Store, d \in Descriptor : Stored(s, d) => Stored(s, d)'
    BY <1>1, <1>2, <1>4, NotedStored
  <1>11. AddsInv'
    <2> SUFFICES ASSUME NEW v \in Worker, NEW s \in Store, NEW d, Adding(v)', d = BodyOf(v)'.of,
                        ~ Due(run'[v], d, s)
                 PROVE  Stored(s, d)'
      BY DEF AddsInv, Stored, Due
    <2>1. Adding(v) /\ d = BodyOf(v).of /\ d \in Descriptor /\ ~ Due(run[v], d, s)
      BY <1>2, <1>6, <1>7 DEF Adding, Due, ExecutionsInv, Body
    <2> QED
      BY <1>10, <2>1 DEF IInv, AddsInv
  <1>12. DeletesInv'
    <2> SUFFICES ASSUME NEW v \in Worker, NEW s \in Store, NEW d, v \in Busy', d = BodyOf(v)'.of,
                        BodyOf(v)'.op = "Delete", BeenTo(run'[v], s)
                 PROVE  \/ Held(s)'[d] = 0
                        \/ s \in run'[v].met \union run'[v].blind
                        \/ s = "rows" /\ Len(generate_collection_name(d)) > NameLimit
      BY DEF DeletesInv, BeenTo, generate_collection_name
    <2>1. /\ v \in Busy /\ d = BodyOf(v).of /\ BodyOf(v).op = "Delete" /\ BeenTo(run[v], s)
          /\ d \in Descriptor /\ v # NoTask
      BY <1>2, <1>6, <1>7, SinkersAssumption DEF BeenTo, ExecutionsInv, Body
    <2>2. step # AddTo(s) \/ d # o.of => Held(s)'[d] \in {Held(s)[d], 0}
      BY <1>4, <2>1
    <2>3. \/ Held(s)'[d] = 0
          \/ s \in Met(v, NoTask, step, o.of) \union run[v].blind
          \/ s = "rows" /\ Len(generate_collection_name(d)) > NameLimit
      BY <1>3, <2>1, <2>2, OthersMet DEF step
    <2> QED
      BY <1>6, <2>3
  <1>13. CopiesInv'
    <2> SUFFICES ASSUME NEW s \in Store, NEW d \in Descriptor
                 PROVE  Held(s)'[d] + Cardinality(DueWorkers(s, d)') + Cardinality(DueOrphans(s, d)')
                          <= runs'[d]
      BY DEF CopiesInv
    <2> DEFINE W == DueWorkers(s, d)
               O == DueOrphans(s, d)
    <2>1. /\ IsFiniteSet(W) /\ IsFiniteSet(O) /\ Cardinality(W) \in Nat /\ Cardinality(O) \in Nat
          /\ Held(s)[d] + Cardinality(W) + Cardinality(O) <= runs[d]
          /\ Held(s)[d] \in Nat /\ runs[d] \in Nat
      BY CopiesTypes DEF IInv
    <2>2. W' = W
      BY <1>6, <1>7 DEF DueWorkers, Adding, Due, OfTables, LastPart
    <2>3. DueIn(rest, s) => DueIn(o.call, s)
      BY <1>3, RestDue DEF rest
    <2>4. step = AddTo(s) => DueIn(o.call, s) /\ ~ DueIn(rest, s)
      BY <1>3, RestDue DEF rest, step
    <2>5. O' \subseteq (O \ {o}) \union {left}
      BY <1>1 DEF DueOrphans, AddTo
    <2>6. left \in O' => (DueIn(rest, s) /\ o.of = d) \/ left \in O \ {o}
      BY <1>1, <1>5 DEF DueOrphans, AddTo, DueIn
    <2>7. DueIn(o.call, s) /\ o.of = d => o \in O
      BY DEF DueOrphans, DueIn
    <2>8. /\ IsFiniteSet(O \ {o}) /\ Cardinality(O \ {o}) \in Nat
          /\ Cardinality(O \ {o}) = IF o \in O THEN Cardinality(O) - 1 ELSE Cardinality(O)
      BY <2>1, FS_RemoveElement, FS_CardinalityType
    <2>9. /\ Held(s)'[d] \in Nat /\ Cardinality(O') \in Nat
      <3>1. IsFiniteSet((O \ {o}) \union {left})
        BY <2>8, FS_AddElement
      <3> QED
        BY <1>4, <2>5, <3>1, Fewer
    <2>10. CASE step = AddTo(s) /\ o.of = d
      <3>1. O' \subseteq O \ {o} /\ o \in O
        BY <2>4, <2>5, <2>6, <2>7, <2>10
      <3>2. Cardinality(O') <= Cardinality(O) - 1
        BY <2>8, <3>1, Fewer
      <3>3. Held(s)'[d] <= Held(s)[d] + 1
        BY <1>3, <1>4, <2>10, <2>1
      <3> HIDE DEF W, O
      <3> QED
        BY <1>1, <2>1, <2>2, <2>9, <3>2, <3>3, SMTT(40) DEF W, O
    <2>11. CASE step # AddTo(s) \/ o.of # d
      <3>1. Held(s)'[d] <= Held(s)[d]
        BY <1>4, <2>1, <2>11
      <3>2. Cardinality(O') <= Cardinality(O)
        <4>1. CASE left \in O' /\ left \notin O \ {o}
          <5>1. o \in O
            BY <2>3, <2>6, <2>7, <4>1
          <5>2. Cardinality(O') <= Cardinality(O \ {o}) + 1
            BY <2>5, <2>8, OneMore
          <5> HIDE DEF O
          <5> QED
            BY <2>1, <2>8, <2>9, <5>1, <5>2
        <4>2. CASE left \notin O' \/ left \in O \ {o}
          <5>1. O' \subseteq O \ {o}
            BY <2>5, <4>2
          <5>2. Cardinality(O') <= Cardinality(O \ {o})
            BY <2>8, <5>1, Fewer
          <5> HIDE DEF O
          <5> QED
            BY <2>1, <2>8, <2>9, <5>2
        <4> QED
          BY <4>1, <4>2
      <3> HIDE DEF W, O
      <3> QED
        BY <1>1, <2>1, <2>2, <2>9, <3>1, <3>2, SMTT(40) DEF W, O
    <2> QED
      BY <2>10, <2>11
  <1>14. SuccessfulAddIsThere'
    <2> SUFFICES ASSUME NEW t \in TaskId, result'[t] = "SUCCESS", request'[t].op = "AddOrUpdate",
                        NEW s \in Store, NEW d, d = request'[t].of
                 PROVE  Stored(s, d)'
      BY DEF SuccessfulAddIsThere, Stored
    <2>1. request[t] \in Body /\ d \in Descriptor /\ Stored(s, d)
      BY <1>1, SuccessStored DEF IInv, TasksInv, Body
    <2> QED
      BY <1>10, <2>1
  <1>15. TypeOK' /\ TasksInv'
    <2>1. cleared' \subseteq Store \X Descriptor
      BY <1>1, NotedTypes
    <2> QED
      BY <1>1, <1>4, <1>8, <1>9, <2>1, Typed DEF IInv, TypeOK, TasksInv
  <1> QED
    BY <1>4, <1>8, <1>9, <1>11, <1>12, <1>13, <1>14, <1>15 DEF IInv

\* Where a served step takes the execution e of a Delete, or of an AddOrUpdate.
DeleteServed(e, step, f, d, readable) ==
    \/ /\ e.at = 1 /\ step = "exists_by_dd_info" /\ f.at = 1 /\ f.part.call = <<"delete_by_dd_info">>
    \/ /\ e.at = 1 /\ f.at = 2 /\ f.part.call = <<"adelete", "delete_all_memories">>
       /\ \/ step = "delete_by_dd_info"
          \/ step = "exists_by_dd_info" /\ ~ exists_by_dd_info(d, readable)
    \/ /\ e.at = 2 /\ e.part.call = <<"adelete", "delete_all_memories">> /\ step = "adelete"
       /\ f.at = 2 /\ f.part.call = <<"delete_all_memories">>
    \/ /\ e.at = 2 /\ e.part.call = <<"delete_all_memories">> /\ step = "delete_all_memories"
       /\ f.at = 3 /\ f.part.call = <<>>
AddServed(e, step, f, d) ==
    \/ /\ OfTables(d) /\ e.at = 2 /\ e.part.call = <<"create">> /\ step = "create"
       /\ f.at = 3 /\ f.part.call = <<>>
    \/ /\ e.at = LastPart(d) - 1 /\ e.part.call = <<"acreate_collection">> /\ step = "acreate_collection"
       /\ f.at = LastPart(d) /\ f.part.call = <<"aadd_texts", "add_memory">>
    \/ /\ e.at = LastPart(d) /\ e.part.call = <<"aadd_texts", "add_memory">> /\ step = "aadd_texts"
       /\ f.at = LastPart(d) /\ f.part.call = <<"add_memory">>
    \/ /\ e.at = LastPart(d) /\ e.part.call = <<"add_memory">> /\ step = "add_memory"
       /\ f.at = LastPart(d) + 1 /\ f.part.call = <<>>

LEMMA DeleteServes ==
    ASSUME NEW e, NEW f, NEW body, body.op = "Delete", NEW d \in Descriptor, NEW readable,
           DeleteStage(e), e.part.call # <<>>, NEW step, step = Head(e.part.call),
           NEW rest, rest = Rest(e.part.call, d, readable),
           rest = <<>> => f.at = e.at + 1 /\ f.part.call = FirstCall(body, e.at + 1),
           rest # <<>> => f.at = e.at /\ f.part.call = rest
    PROVE  DeleteServed(e, step, f, d, readable)
  <1>1. /\ FirstCall(body, 2) = <<"adelete", "delete_all_memories">> /\ FirstCall(body, 3) = <<>>
    BY DEF FirstCall
  <1>2. \A a \in Steps \ {"exists_by_dd_info"} : e.part.call = <<a>> => step = a /\ rest = <<>>
    <2> TAKE a \in Steps \ {"exists_by_dd_info"}
    <2>1. Head(<<a>>) = a /\ Rest(<<a>>, d, readable) = <<>>
      BY Rests
    <2> QED
      BY <2>1
  <1>3. {"delete_by_dd_info", "delete_all_memories"} \subseteq Steps \ {"exists_by_dd_info"}
    BY DEF Steps, Adds, Removes, Looks
  <1>4. \A a : <<a>> # <<>>
    OBVIOUS
  <1>5. CASE e.at = 1 /\ e.part.call = <<"exists_by_dd_info", "delete_by_dd_info">>
    <2>1. step = "exists_by_dd_info"
      BY <1>5, Rests
    <2>2. CASE exists_by_dd_info(d, readable)
      <3>1. rest = <<"delete_by_dd_info">>
        BY <1>5, <2>2, Rests
      <3>2. f.at = 1 /\ f.part.call = <<"delete_by_dd_info">>
        BY <1>4, <1>5, <3>1
      <3> QED
        BY <1>5, <2>1, <3>2 DEF DeleteServed
    <2>3. CASE ~ exists_by_dd_info(d, readable)
      <3>1. rest = <<>>
        BY <1>5, <2>3, Rests
      <3>2. f.at = 2 /\ f.part.call = <<"adelete", "delete_all_memories">>
        BY <1>1, <1>5, <3>1
      <3> QED
        BY <1>5, <2>1, <2>3, <3>2 DEF DeleteServed
    <2> QED
      BY <2>2, <2>3
  <1>6. CASE e.at = 1 /\ e.part.call = <<"delete_by_dd_info">>
    <2>1. step = "delete_by_dd_info" /\ rest = <<>>
      BY <1>2, <1>3, <1>6
    <2>2. f.at = 2 /\ f.part.call = <<"adelete", "delete_all_memories">>
      BY <1>1, <1>6, <2>1
    <2> QED
      BY <1>6, <2>1, <2>2 DEF DeleteServed
  <1>7. CASE e.at = 2 /\ e.part.call = <<"adelete", "delete_all_memories">>
    <2>1. step = "adelete" /\ rest = <<"delete_all_memories">>
      BY <1>7, Rests
    <2>2. f.at = 2 /\ f.part.call = <<"delete_all_memories">>
      BY <1>4, <1>7, <2>1
    <2> QED
      BY <1>7, <2>1, <2>2 DEF DeleteServed
  <1>8. CASE e.at = 2 /\ e.part.call = <<"delete_all_memories">>
    <2>1. step = "delete_all_memories" /\ rest = <<>>
      BY <1>2, <1>3, <1>8
    <2>2. f.at = 3 /\ f.part.call = <<>>
      BY <1>1, <1>8, <2>1
    <2> QED
      BY <1>8, <2>1, <2>2 DEF DeleteServed
  <1> QED
    BY <1>5, <1>6, <1>7, <1>8 DEF DeleteStage

LEMMA AddServes ==
    ASSUME NEW e, NEW f, NEW body, body.op # "Delete", NEW d \in Descriptor, d = body.of,
           NEW readable, AddStage(e, d), e.part.call # <<>>, NEW step, step = Head(e.part.call),
           NEW rest, rest = Rest(e.part.call, d, readable),
           rest = <<>> => f.at = e.at + 1 /\ f.part.call = FirstCall(body, e.at + 1),
           rest # <<>> => f.at = e.at /\ f.part.call = rest
    PROVE  AddServed(e, step, f, d)
  <1>1. LastPart(d) \in {3, 5} /\ (OfTables(d) <=> LastPart(d) = 5)
    BY DEF LastPart
  <1>2. \A a \in Steps \ {"exists_by_dd_info"} : e.part.call = <<a>> => step = a /\ rest = <<>>
    <2> TAKE a \in Steps \ {"exists_by_dd_info"}
    <2>1. Head(<<a>>) = a /\ Rest(<<a>>, d, readable) = <<>>
      BY Rests
    <2> QED
      BY <2>1
  <1>3. {"create", "acreate_collection", "add_memory"} \subseteq Steps \ {"exists_by_dd_info"}
    BY DEF Steps, Adds, Removes, Looks
  <1>4. \A a : <<a>> # <<>>
    OBVIOUS
  <1>5. CASE OfTables(d) /\ e.at = 2 /\ e.part.call = <<"create">>
    <2>1. step = "create" /\ rest = <<>>
      BY <1>2, <1>3, <1>5
    <2>2. FirstCall(body, 3) = <<>>
      BY <1>1, <1>5 DEF FirstCall
    <2>3. f.at = 3 /\ f.part.call = <<>>
      BY <1>5, <2>1, <2>2
    <2> QED
      BY <1>5, <2>1, <2>3 DEF AddServed
  <1>6. CASE e.at = LastPart(d) - 1 /\ e.part.call = <<"acreate_collection">>
    <2>1. step = "acreate_collection" /\ rest = <<>>
      BY <1>2, <1>3, <1>6
    <2>2. FirstCall(body, LastPart(d)) = <<"aadd_texts", "add_memory">>
      BY <1>1 DEF FirstCall
    <2>3. e.at + 1 = LastPart(d)
      BY <1>1, <1>6
    <2>4. f.at = LastPart(d) /\ f.part.call = <<"aadd_texts", "add_memory">>
      BY <2>1, <2>2, <2>3
    <2> QED
      BY <1>6, <2>1, <2>4 DEF AddServed
  <1>7. CASE e.at = LastPart(d) /\ e.part.call = <<"aadd_texts", "add_memory">>
    <2>1. step = "aadd_texts" /\ rest = <<"add_memory">>
      BY <1>7, Rests
    <2>2. f.at = LastPart(d) /\ f.part.call = <<"add_memory">>
      BY <1>4, <1>7, <2>1
    <2> QED
      BY <1>7, <2>1, <2>2 DEF AddServed
  <1>8. CASE e.at = LastPart(d) /\ e.part.call = <<"add_memory">>
    <2>1. step = "add_memory" /\ rest = <<>>
      BY <1>2, <1>3, <1>8
    <2>2. FirstCall(body, LastPart(d) + 1) = <<>>
      BY <1>1 DEF FirstCall
    <2>3. f.at = LastPart(d) + 1 /\ f.part.call = <<>>
      BY <1>8, <2>1, <2>2
    <2> QED
      BY <1>8, <2>1, <2>3 DEF AddServed
  <1> QED
    BY <1>5, <1>6, <1>7, <1>8 DEF AddStage

LEMMA Served ==
    ASSUME ExecutionsInv, NEW w \in Worker, NEW readable \in BOOLEAN, Serve(w, readable)
    PROVE  IF BodyOf(w).op = "Delete"
           THEN DeleteServed(run[w], Step(w), run'[w], BodyOf(w).of, readable)
           ELSE AddServed(run[w], Step(w), run'[w], BodyOf(w).of)
  <1> SUFFICES ASSUME NEW e, e = run[w], NEW f, f = run'[w], NEW body, body = BodyOf(w),
                      NEW d, d = body.of, NEW step, step = Step(w),
                      NEW rest, rest = Rest(e.part.call, d, readable)
               PROVE  IF body.op = "Delete" THEN DeleteServed(e, step, f, d, readable)
                      ELSE AddServed(e, step, f, d)
    OBVIOUS
  <1>1. /\ w \in Busy /\ body \in Body /\ e.part.call # <<>> /\ d \in Descriptor
        /\ step = Head(e.part.call)
        /\ IF body.op = "Delete" THEN DeleteStage(e) ELSE AddStage(e, d)
    BY WaitingFor DEF Serve, Waiting, ExecutionsInv, Step, Body
  <1>2. /\ rest = <<>> => f.at = e.at + 1 /\ f.part.call = FirstCall(body, e.at + 1)
        /\ rest # <<>> => f.at = e.at /\ f.part.call = rest
    BY ServeMoves
  <1> QED
    BY <1>1, <1>2, DeleteServes, AddServes

\* What that does to the stores still to be written, or already cleared.
LEMMA AddServedDue ==
    ASSUME NEW e, NEW f, NEW d \in Descriptor, NEW step, AddServed(e, step, f, d), NEW s \in Store
    PROVE  /\ AddStage(f, d)
           /\ Due(f, d, s) <=> Due(e, d, s) /\ step # AddTo(s)
           /\ step = AddTo(s) => Due(e, d, s)
  <1>1. LastPart(d) \in {3, 5} /\ (OfTables(d) <=> LastPart(d) = 5)
    BY DEF LastPart
  <1>2. \A a, b, c : <<a, b>> # <<c>> /\ <<a, b>> # <<>> /\ <<c>> # <<>>
    OBVIOUS
  <1>3. /\ AddTo("rows") = "aadd_texts" /\ AddTo("memories") = "add_memory"
        /\ AddTo("prints") = "create"
    BY DEF AddTo
  <1>4. CASE /\ OfTables(d) /\ e.at = 2 /\ e.part.call = <<"create">> /\ step = "create"
             /\ f.at = 3 /\ f.part.call = <<>>
    <2>1. AddStage(f, d)
      BY <1>4 DEF AddStage
    <2> QED
      BY <1>1, <1>2, <1>3, <1>4, <2>1 DEF Due, Store
  <1>5. CASE /\ e.at = LastPart(d) - 1 /\ e.part.call = <<"acreate_collection">>
             /\ step = "acreate_collection"
             /\ f.at = LastPart(d) /\ f.part.call = <<"aadd_texts", "add_memory">>
    <2>1. AddStage(f, d)
      BY <1>5 DEF AddStage
    <2> QED
      BY <1>1, <1>2, <1>3, <1>5, <2>1 DEF Due, Store
  <1>6. CASE /\ e.at = LastPart(d) /\ e.part.call = <<"aadd_texts", "add_memory">>
             /\ step = "aadd_texts" /\ f.at = LastPart(d) /\ f.part.call = <<"add_memory">>
    <2>1. AddStage(f, d)
      BY <1>6 DEF AddStage
    <2> QED
      BY <1>1, <1>2, <1>3, <1>6, <2>1 DEF Due, Store
  <1>7. CASE /\ e.at = LastPart(d) /\ e.part.call = <<"add_memory">> /\ step = "add_memory"
             /\ f.at = LastPart(d) + 1 /\ f.part.call = <<>>
    <2>1. AddStage(f, d)
      BY <1>7 DEF AddStage
    <2> QED
      BY <1>1, <1>2, <1>3, <1>7, <2>1 DEF Due, Store
  <1> QED
    BY <1>4, <1>5, <1>6, <1>7 DEF AddServed

LEMMA DeleteServedMet ==
    ASSUME NEW e, NEW f, NEW d, NEW step, NEW readable, DeleteServed(e, step, f, d, readable),
           NEW s \in Store
    PROVE  /\ DeleteStage(f)
           /\ step \notin Adds /\ step # AddTo(s)
           /\ BeenTo(f, s) =>
                \/ BeenTo(e, s) /\ StoreOf(step) # s
                \/ s = StoreOf(step) /\ \/ step \in Removes
                                        \/ /\ step = "exists_by_dd_info"
                                           /\ ~ exists_by_dd_info(d, readable)
  <1>1. /\ \A a, b, c : <<a, b>> # <<c>> /\ <<a, b>> # <<>> /\ <<c>> # <<>>
        /\ <<"delete_by_dd_info">> # <<"delete_all_memories">>
    OBVIOUS
  <1>2. /\ StoreOf("delete_by_dd_info") = "prints" /\ StoreOf("exists_by_dd_info") = "prints"
        /\ StoreOf("adelete") = "rows" /\ StoreOf("delete_all_memories") = "memories"
    BY DEF StoreOf
  <1>3. DeleteStage(f)
    BY DEF DeleteServed, DeleteStage
  <1>4. step \in {"exists_by_dd_info", "delete_by_dd_info", "adelete", "delete_all_memories"}
    BY DEF DeleteServed
  <1>5. step \notin Adds /\ step # AddTo(s)
    BY <1>4 DEF Adds, AddTo
  <1>6. ASSUME BeenTo(f, s)
        PROVE  \/ BeenTo(e, s) /\ StoreOf(step) # s
               \/ s = StoreOf(step) /\ \/ step \in Removes
                                       \/ /\ step = "exists_by_dd_info"
                                          /\ ~ exists_by_dd_info(d, readable)
    <2>1. CASE s = "rows"
      BY <1>1, <1>2, <1>6, <2>1 DEF DeleteServed, BeenTo, Removes
    <2>2. CASE s = "memories"
      BY <1>1, <1>2, <1>6, <2>2 DEF DeleteServed, BeenTo, Removes
    <2>3. CASE s = "prints"
      BY <1>1, <1>2, <1>6, <2>3 DEF DeleteServed, BeenTo, Removes
    <2> QED
      BY <2>1, <2>2, <2>3 DEF Store
  <1> QED
    BY <1>3, <1>5, <1>6

\* What a step served for a worker does to what that execution had to do there.
LEMMA ServedStores ==
    ASSUME IInv, NEW w \in Worker, NEW readable \in BOOLEAN, Serve(w, readable)
    PROVE  /\ StoresTypeOK' /\ RowsHaveTable'
           /\ faults' \in 0 .. MaxFaults /\ faults <= faults' /\ faults \in Nat /\ faults' \in Nat
           /\ BodyOf(w) \in Body /\ Step(w) \in Steps
           /\ \A s \in Store, d \in Descriptor :
                /\ Held(s)'[d] \in Nat /\ Held(s)[d] \in Nat
                /\ Held(s)'[d] <= Held(s)[d] + 1
                /\ Step(w) # AddTo(s) \/ d # BodyOf(w).of => Held(s)'[d] \in {Held(s)[d], 0}
                /\ Stored(s, d) => Stored(s, d)'
                /\ Step(w) = AddTo(s) /\ d = BodyOf(w).of => Stored(s, d)'
           /\ \A s \in Store :
                /\ s = StoreOf(Step(w))
                /\ \/ Step(w) \in Removes
                   \/ Step(w) = "exists_by_dd_info" /\ ~ exists_by_dd_info(BodyOf(w).of, readable)
                => \/ Held(s)'[BodyOf(w).of] = 0
                   \/ ~ readable
                   \/ s = "rows" /\ Len(generate_collection_name(BodyOf(w).of)) > NameLimit
  <1> SUFFICES ASSUME NEW b, b = BodyOf(w).of, NEW step, step = Step(w), NEW n, n = DocsOf(w)
               PROVE  /\ StoresTypeOK' /\ RowsHaveTable'
                      /\ faults' \in 0 .. MaxFaults /\ faults <= faults'
                      /\ faults \in Nat /\ faults' \in Nat
                      /\ BodyOf(w) \in Body /\ Step(w) \in Steps
                      /\ \A s \in Store, d \in Descriptor :
                           /\ Held(s)'[d] \in Nat /\ Held(s)[d] \in Nat
                           /\ Held(s)'[d] <= Held(s)[d] + 1
                           /\ step # AddTo(s) \/ d # b => Held(s)'[d] \in {Held(s)[d], 0}
                           /\ Stored(s, d) => Stored(s, d)'
                           /\ step = AddTo(s) /\ d = b => Stored(s, d)'
                      /\ \A s \in Store :
                           /\ s = StoreOf(step)
                           /\ \/ step \in Removes
                              \/ step = "exists_by_dd_info" /\ ~ exists_by_dd_info(b, readable)
                           => \/ Held(s)'[b] = 0
                              \/ ~ readable
                              \/ s = "rows" /\ Len(generate_collection_name(b)) > NameLimit
    OBVIOUS
  <1>1. /\ BodyOf(w) \in Body /\ step \in Steps /\ b \in Descriptor /\ w \in Busy
    BY WaitingFor DEF Serve, IInv, Body
  <1>2. /\ Effect(step, b, n, readable) /\ Noted /\ (Fault \/ UNCHANGED faults)
    BY DEF Serve
  <1>3. /\ StoresTypeOK /\ RowsHaveTable /\ n \in {0, 1}
    BY TypesStores DEF IInv, DocsOf
  <1>4. faults' \in 0 .. MaxFaults /\ faults <= faults' /\ faults \in Nat /\ faults' \in Nat
    BY <1>2, Faulted DEF IInv
  <1>5. /\ StoresTypeOK' /\ RowsHaveTable'
        /\ \A s \in Store, e \in Descriptor :
             /\ Held(s)'[e] \in Nat /\ Held(s)[e] \in Nat
             /\ step = AddTo(s) /\ e = b =>
                  Held(s)'[e] = Held(s)[e] + IF s = "prints" THEN 1 ELSE n
             /\ step # AddTo(s) \/ e # b => Held(s)'[e] \in {Held(s)[e], 0}
        /\ step = "adelete" /\ readable /\ Len(generate_collection_name(b)) <= NameLimit =>
             Held("rows")'[b] = 0
        /\ step = "delete_all_memories" => Held("memories")'[b] = 0
        /\ step = "delete_by_dd_info" => Held("prints")'[b] = 0
        /\ step = "exists_by_dd_info" => Held("prints")'[b] = Held("prints")[b]
    BY <1>1, <1>2, <1>3, Effects
  <1>6. ASSUME NEW s \in Store, NEW d \in Descriptor
        PROVE  /\ Held(s)'[d] \in Nat /\ Held(s)[d] \in Nat
               /\ Held(s)'[d] <= Held(s)[d] + 1
               /\ step # AddTo(s) \/ d # b => Held(s)'[d] \in {Held(s)[d], 0}
               /\ Stored(s, d) => Stored(s, d)'
               /\ step = AddTo(s) /\ d = b => Stored(s, d)'
    <2>1. /\ Held(s)'[d] \in Nat /\ Held(s)[d] \in Nat
          /\ step = AddTo(s) /\ d = b =>
               Held(s)'[d] = Held(s)[d] + IF s = "prints" THEN 1 ELSE n
          /\ step # AddTo(s) \/ d # b => Held(s)'[d] \in {Held(s)[d], 0}
      BY <1>5
    <2>2. (Stored(s, d) => Stored(s, d)') /\ (Held(s)'[d] > 0 => Stored(s, d)')
      BY <1>2, <1>4, <2>1, NotedStored
    <2>3. Held(s)'[d] <= Held(s)[d] + 1
      BY <1>3, <2>1
    <2>4. ASSUME step = AddTo(s), d = b PROVE Stored(s, d)'
      <3>1. CASE s = "prints" \/ n = 1
        BY <2>1, <2>2, <2>4, <3>1
      <3>2. CASE n = 0
        <4>1. run[w].lost /\ d.source \in {"minio", "fileserver"}
          BY <2>4, <3>2 DEF DocsOf
        <4>2. faults > 0
          BY <1>1, <4>1 DEF IInv, ExecutionsInv
        <4>3. faults' > 0
          BY <1>4, <4>2
        <4> QED
          BY <4>1, <4>3 DEF Stored
      <3> QED
        BY <1>3, <3>1, <3>2
    <2> QED
      BY <2>1, <2>2, <2>3, <2>4
  <1>7. ASSUME NEW s \in Store, s = StoreOf(step),
               step \in Removes \/ (step = "exists_by_dd_info" /\ ~ exists_by_dd_info(b, readable))
        PROVE  \/ Held(s)'[b] = 0
               \/ ~ readable
               \/ s = "rows" /\ Len(generate_collection_name(b)) > NameLimit
    <2>1. CASE step = "adelete"
      <3>1. s = "rows"
        BY <1>7, <2>1 DEF StoreOf
      <3>2. Len(generate_collection_name(b)) <= NameLimit \/ Len(generate_collection_name(b)) > NameLimit
        <4>1. generate_collection_name(b) \in Seq(NamePart)
          BY <1>1, NameAssumption, ConcatProperties DEF generate_collection_name
        <4>2. Len(generate_collection_name(b)) \in Nat
          BY <4>1, LenProperties
        <4> QED
          BY <4>2, NameAssumption
      <3> QED
        BY <1>5, <2>1, <3>1, <3>2
    <2>2. CASE step = "delete_all_memories"
      BY <1>5, <1>7, <2>2 DEF StoreOf
    <2>3. CASE step = "delete_by_dd_info"
      BY <1>5, <1>7, <2>3 DEF StoreOf
    <2>4. CASE step = "exists_by_dd_info" /\ ~ exists_by_dd_info(b, readable)
      <3>1. s = "prints" /\ Held(s) = prints
        BY <1>7, <2>4 DEF StoreOf, Held
      <3>2. readable => ~ prints[b] > 0
        BY <2>4 DEF exists_by_dd_info
      <3>3. Held(s)'[b] = Held(s)[b] /\ Held(s)[b] \in Nat
        BY <1>1, <1>5, <2>4, <3>1
      <3> QED
        BY <3>1, <3>2, <3>3
    <2> QED
      BY <1>7, <2>1, <2>2, <2>3, <2>4 DEF Removes
  <1> QED
    BY <1>1, <1>4, <1>5, <1>6, <1>7

LEMMA ServeInv ==
    ASSUME IInv, NEW w \in Worker, NEW readable \in BOOLEAN, Serve(w, readable)
    PROVE  IInv'
  <1> SUFFICES ASSUME NEW e, e = run[w], NEW f, f = run'[w], NEW body, body = BodyOf(w),
                      NEW b, b = body.of, NEW step, step = Step(w)
               PROVE  IInv'
    OBVIOUS
  <1>1. /\ StoresTypeOK' /\ RowsHaveTable'
        /\ faults' \in 0 .. MaxFaults /\ faults <= faults' /\ faults \in Nat /\ faults' \in Nat
        /\ body \in Body /\ step \in Steps
        /\ \A s \in Store, d \in Descriptor :
             /\ Held(s)'[d] \in Nat /\ Held(s)[d] \in Nat
             /\ Held(s)'[d] <= Held(s)[d] + 1
             /\ step # AddTo(s) \/ d # b => Held(s)'[d] \in {Held(s)[d], 0}
             /\ Stored(s, d) => Stored(s, d)'
             /\ step = AddTo(s) /\ d = b => Stored(s, d)'
        /\ \A s \in Store :
             /\ s = StoreOf(step)
             /\ step \in Removes \/ (step = "exists_by_dd_info" /\ ~ exists_by_dd_info(b, readable))
             => \/ Held(s)'[b] = 0
                \/ ~ readable
                \/ s = "rows" /\ Len(generate_collection_name(b)) > NameLimit
    BY ServedStores
  <1>2. /\ Noted /\ Waiting(w) /\ UNCHANGED <<request, queue, result, reported, orphans, runs>>
        /\ w \in Busy /\ ExecutionsInv /\ OrphansInv /\ b \in Descriptor
        /\ e \in Execution /\ e.task \in TaskId
    BY <1>1, WaitingFor DEF Serve, IInv, Body, ExecutionsInv
  <1>3. /\ run' \in [Worker -> Execution]
        /\ \A v \in Worker : /\ run'[v].task = run[v].task /\ run'[v].lost = run[v].lost
                             /\ run'[v].met = Met(v, w, step, b)
        /\ \A v \in Worker \ {w} : /\ run'[v].at = run[v].at /\ run'[v].part = run[v].part
                                   /\ run'[v].blind = run[v].blind
        /\ f.blind = IF readable THEN e.blind ELSE e.blind \union {StoreOf(step)}
        /\ f.part.call # <<>> \/ f.at = PartsCount(body) + 1 => f.part.work = {}
    BY <1>2, ServeMoves
  <1>4. IF body.op = "Delete" THEN DeleteServed(e, step, f, b, readable) ELSE AddServed(e, step, f, b)
    BY <1>2, Served
  <1>5. /\ Busy' = Busy /\ \A v \in Worker : BodyOf(v)' = BodyOf(v)
    BY <1>2, <1>3 DEF Busy, BodyOf
  <1>6. "rows" \in Store
    BY DEF Store
  <1>7. body.op # "Delete" =>
          /\ AddStage(f, b)
          /\ \A s \in Store : /\ Due(f, b, s) <=> Due(e, b, s) /\ step # AddTo(s)
                              /\ step = AddTo(s) => Due(e, b, s)
    BY <1>2, <1>4, <1>6, AddServedDue
  <1>8. body.op = "Delete" =>
          /\ DeleteStage(f) /\ step \notin Adds
          /\ \A s \in Store :
               /\ step # AddTo(s)
               /\ BeenTo(f, s) =>
                    \/ BeenTo(e, s) /\ StoreOf(step) # s
                    \/ /\ s = StoreOf(step)
                       /\ step \in Removes \/ (step = "exists_by_dd_info" /\ ~ exists_by_dd_info(b, readable))
    BY <1>4, <1>6, DeleteServedMet
  <1>9. ExecutionsInv'
    <2> SUFFICES ASSUME NEW v \in Busy'
                 PROVE  /\ BodyOf(v)' \in Body /\ result'[run'[v].task] # "PENDING"
                        /\ IF BodyOf(v)'.op = "Delete" THEN DeleteStage(run'[v])
                           ELSE AddStage(run'[v], BodyOf(v)'.of)
                        /\ run'[v].part.call # <<>> \/ Behind(run'[v], BodyOf(v)') =>
                             run'[v].part.work = {}
                        /\ run'[v].lost => faults' > 0
      BY <1>3 DEF ExecutionsInv, DeleteStage, AddStage, Behind
    <2>1. /\ v \in Busy /\ v \in Worker
          /\ BodyOf(v) \in Body /\ result[run[v].task] # "PENDING"
          /\ IF BodyOf(v).op = "Delete" THEN DeleteStage(run[v]) ELSE AddStage(run[v], BodyOf(v).of)
          /\ run[v].part.call # <<>> \/ Behind(run[v], BodyOf(v)) => run[v].part.work = {}
          /\ run[v].lost => faults > 0
      BY <1>2, <1>5 DEF Busy, ExecutionsInv
    <2>2. /\ BodyOf(v)' \in Body /\ result'[run'[v].task] # "PENDING"
          /\ (run'[v].lost => faults' > 0)
      BY <1>1, <1>2, <1>3, <1>5, <2>1
    <2>3. CASE v = w
      <3>1. Behind(f, body) => f.at = PartsCount(body) + 1
        BY DEF Behind, PartsCount
      <3> QED
        BY <1>3, <1>5, <1>7, <1>8, <2>1, <2>2, <2>3, <3>1
    <2>4. CASE v # w
      BY <1>3, <1>5, <2>1, <2>2, <2>4 DEF DeleteStage, AddStage, Behind
    <2> QED
      BY <2>3, <2>4
  <1>10. OrphansInv'
    BY <1>2 DEF OrphansInv
  <1>11. AddsInv'
    <2> SUFFICES ASSUME NEW v \in Worker, NEW s \in Store, NEW d, Adding(v)', d = BodyOf(v)'.of,
                        ~ Due(run'[v], d, s)
                 PROVE  Stored(s, d)'
      BY DEF AddsInv, Stored, Due
    <2>1. Adding(v) /\ d = BodyOf(v).of /\ d \in Descriptor
      BY <1>2, <1>5 DEF Adding, ExecutionsInv, Body
    <2>2. CASE v = w
      <3>1. body.op # "Delete" /\ d = b
        BY <2>1, <2>2 DEF Adding
      <3>2. ~ Due(run[v], d, s) \/ step = AddTo(s)
        BY <1>7, <2>2, <3>1
      <3> QED
        BY <1>1, <2>1, <3>1, <3>2 DEF IInv, AddsInv
    <2>3. CASE v # w
      <3>1. ~ Due(run[v], d, s)
        BY <1>3, <2>3 DEF Due
      <3> QED
        BY <1>1, <2>1, <3>1 DEF IInv, AddsInv
    <2> QED
      BY <2>2, <2>3
  <1>12. DeletesInv'
    <2> SUFFICES ASSUME NEW v \in Worker, NEW s \in Store, NEW d, v \in Busy', d = BodyOf(v)'.of,
                        BodyOf(v)'.op = "Delete", BeenTo(run'[v], s)
                 PROVE  \/ Held(s)'[d] = 0
                        \/ s \in run'[v].met \union run'[v].blind
                        \/ s = "rows" /\ Len(generate_collection_name(d)) > NameLimit
      BY DEF DeletesInv, BeenTo, generate_collection_name
    <2>1. v \in Busy /\ d = BodyOf(v).of /\ BodyOf(v).op = "Delete" /\ d \in Descriptor
          /\ BodyOf(v) \in Body
      BY <1>2, <1>5 DEF ExecutionsInv, Body
    <2>2. CASE v = w
      <3>1. body.op = "Delete" /\ d = b /\ BeenTo(f, s)
        BY <2>1, <2>2
      <3>2. CASE BeenTo(e, s) /\ StoreOf(step) # s
        <4>1. \/ Held(s)[d] = 0
              \/ s \in e.met \union e.blind
              \/ s = "rows" /\ Len(generate_collection_name(d)) > NameLimit
          BY <1>2, <3>1, <3>2 DEF IInv, DeletesInv
        <4>2. Held(s)[d] = 0 => Held(s)'[d] = 0
          BY <1>1, <1>2, <1>8, <3>1
        <4>3. BodyOf(w) = [op |-> "Delete", of |-> b]
          BY <2>1, <2>2, <3>1 DEF Body
        <4>4. s \in e.met => s \in f.met
          BY <1>2, <1>3, <1>8, <3>1, <3>2, <4>3 DEF Met
        <4>5. e.blind \subseteq f.blind
          BY <1>3
        <4> QED
          BY <2>2, <4>1, <4>2, <4>4, <4>5
      <3>3. CASE ~ (BeenTo(e, s) /\ StoreOf(step) # s)
        <4>1. \/ Held(s)'[d] = 0
              \/ ~ readable /\ s = StoreOf(step)
              \/ s = "rows" /\ Len(generate_collection_name(d)) > NameLimit
          BY <1>1, <1>8, <3>1, <3>3
        <4> QED
          BY <1>3, <2>2, <4>1
      <3> QED
        BY <3>2, <3>3
    <2>3. CASE v # w
      <3>1. BeenTo(run[v], s)
        BY <1>3, <2>3 DEF BeenTo
      <3>2. step # AddTo(s) \/ d # b => Held(s)'[d] \in {Held(s)[d], 0}
        BY <1>1, <2>1
      <3>3. \/ Held(s)'[d] = 0
            \/ s \in Met(v, w, step, b) \union run[v].blind
            \/ s = "rows" /\ Len(generate_collection_name(d)) > NameLimit
        BY <1>1, <1>2, <2>1, <2>3, <3>1, <3>2, OthersMet
      <3> QED
        BY <1>3, <2>3, <3>3
    <2> QED
      BY <2>2, <2>3
  <1>13. CopiesInv'
    <2> SUFFICES ASSUME NEW s \in Store, NEW d \in Descriptor
                 PROVE  Held(s)'[d] + Cardinality(DueWorkers(s, d)') + Cardinality(DueOrphans(s, d)')
                          <= runs'[d]
      BY DEF CopiesInv
    <2> DEFINE W == DueWorkers(s, d)
               O == DueOrphans(s, d)
    <2>1. /\ IsFiniteSet(W) /\ IsFiniteSet(O) /\ Cardinality(W) \in Nat /\ Cardinality(O) \in Nat
          /\ Held(s)[d] + Cardinality(W) + Cardinality(O) <= runs[d]
          /\ Held(s)[d] \in Nat /\ runs[d] \in Nat
      BY CopiesTypes DEF IInv
    <2>2. O' = O
      BY <1>2 DEF DueOrphans, AddTo
    <2>3. \A v \in Worker \ {w} : v \in W' <=> v \in W
      BY <1>3, <1>5 DEF DueWorkers, Adding, Due, OfTables, LastPart
    <2>4. w \in W' => Adding(w) /\ b = d /\ Due(f, d, s)
      BY <1>5 DEF DueWorkers, Adding, Due, OfTables, LastPart
    <2>5. Adding(w) /\ b = d /\ Due(e, d, s) => w \in W
      BY DEF DueWorkers
    <2>6. Adding(w) <=> body.op # "Delete"
      BY <1>1, <1>2 DEF Adding, Body
    <2>7. w \in W' => w \in W
      BY <1>7, <2>4, <2>5, <2>6
    <2>8. W' \subseteq W
      BY <2>3, <2>7 DEF DueWorkers
    <2>9. CASE step = AddTo(s) /\ b = d
      <3>1. body.op # "Delete"
        BY <1>8, <2>9
      <3>2. w \in W /\ w \notin W'
        BY <1>7, <2>4, <2>5, <2>6, <2>9, <3>1
      <3>3. W' \subseteq W \ {w}
        BY <2>8, <3>2
      <3>4. Cardinality(W') + 1 <= Cardinality(W) /\ Cardinality(W') \in Nat
        BY <2>1, <2>8, <3>2, <3>3, OneLess, Fewer
      <3>5. Held(s)'[d] <= Held(s)[d] + 1 /\ Held(s)'[d] \in Nat
        BY <1>1
      <3> HIDE DEF W, O
      <3> QED
        BY <1>2, <2>1, <2>2, <3>4, <3>5 DEF W, O
    <2>10. CASE step # AddTo(s) \/ b # d
      <3>1. Held(s)'[d] <= Held(s)[d] /\ Held(s)'[d] \in Nat
        BY <1>1, <2>10
      <3>2. Cardinality(W') <= Cardinality(W) /\ Cardinality(W') \in Nat
        BY <2>1, <2>8, Fewer
      <3> HIDE DEF W, O
      <3> QED
        BY <1>2, <2>1, <2>2, <3>1, <3>2 DEF W, O
    <2> QED
      BY <2>9, <2>10
  <1>14. SuccessfulAddIsThere'
    <2> SUFFICES ASSUME NEW t \in TaskId, result'[t] = "SUCCESS", request'[t].op = "AddOrUpdate",
                        NEW s \in Store, NEW d, d = request'[t].of
                 PROVE  Stored(s, d)'
      BY DEF SuccessfulAddIsThere, Stored
    <2>1. request[t] \in Body /\ d \in Descriptor /\ Stored(s, d)
      BY <1>2, SuccessStored DEF IInv, TasksInv, Body
    <2> QED
      BY <1>1, <2>1
  <1>15. TypeOK' /\ TasksInv'
    <2>1. cleared' \subseteq Store \X Descriptor
      BY <1>2, NotedTypes
    <2> QED
      BY <1>1, <1>2, <1>9, <1>10, <2>1, Typed DEF IInv, TypeOK, TasksInv
  <1> QED
    BY <1>1, <1>9, <1>10, <1>11, <1>12, <1>13, <1>14, <1>15 DEF IInv

(***************************************************************************)
(* The specification                                                       *)
(***************************************************************************)

LEMMA InitInv == Init => IInv
  <1> SUFFICES ASSUME Init PROVE IInv
    OBVIOUS
  <1> USE DEF Init, StoresInit
  <1>1. Busy = {} /\ \A w \in Worker : run[w] = Idle
    BY DEF Busy, Idle
  <1>2. Idle \in Execution
    BY DEF Idle, Execution, Part, Reading
  <1>3. TypeOK
    BY <1>1, <1>2, SinkersAssumption DEF TypeOK, Execution
  <1>4. ExecutionsInv
    <2>1. run \in [Worker -> Execution]
      BY <1>2
    <2> QED
      BY <1>1, <2>1 DEF ExecutionsInv
  <1>5. OrphansInv
    BY FS_EmptySet DEF OrphansInv
  <1>6. TasksInv /\ RowsHaveTable /\ SuccessfulAddIsThere
    BY DEF TasksInv, RowsHaveTable, SuccessfulAddIsThere
  <1>7. AddsInv /\ DeletesInv
    BY <1>1 DEF AddsInv, Adding, DeletesInv
  <1>8. CopiesInv
    <2> SUFFICES ASSUME NEW s \in Store, NEW d \in Descriptor
                 PROVE  Held(s)[d] + Cardinality(DueWorkers(s, d)) + Cardinality(DueOrphans(s, d))
                          <= runs[d]
      BY DEF CopiesInv
    <2>1. DueWorkers(s, d) = {} /\ DueOrphans(s, d) = {} /\ Cardinality({}) = 0
      BY <1>1, FS_EmptySet DEF DueWorkers, Adding, DueOrphans
    <2>2. Held(s)[d] = 0 /\ runs[d] = 0
      BY DEF Held
    <2> QED
      BY <2>1, <2>2
  <1> QED
    BY <1>3, <1>4, <1>5, <1>6, <1>7, <1>8 DEF IInv

LEMMA StutterInv ==
    ASSUME IInv, UNCHANGED vars
    PROVE  IInv'
  <1>1. /\ UNCHANGED <<storeVars, request, queue, result, reported, run, orphans, faults, runs, cleared>>
    BY DEF vars, sinkerVars
  <1>2. faults' \in 0 .. MaxFaults /\ faults <= faults'
    BY <1>1, Faulted DEF IInv
  <1>3. /\ ExecutionsInv' /\ OrphansInv' /\ StoresTypeOK' /\ RowsHaveTable'
        /\ AddsInv' /\ DeletesInv' /\ CopiesInv' /\ SuccessfulAddIsThere'
    BY <1>1, <1>2, Lasts
  <1>4. TypeOK' /\ TasksInv'
    BY <1>1, <1>2, <1>3, Typed DEF IInv, TypeOK, TasksInv
  <1> QED
    BY <1>3, <1>4 DEF IInv

LEMMA NextInv == IInv /\ [Next]_vars => IInv'
  <1> SUFFICES ASSUME IInv, [Next]_vars PROVE IInv'
    OBVIOUS
  <1>1. ASSUME NEW t \in TaskId, NEW body \in Body, TriggerTask(t, body) PROVE IInv'
    BY <1>1, TriggerInv
  <1>2. ASSUME NEW w \in Worker, Read(w) PROVE IInv'
    BY <1>2, ReadInv
  <1>3. ASSUME NEW w \in Worker, NEW readable \in BOOLEAN, Serve(w, readable) PROVE IInv'
    BY <1>3, ServeInv
  <1>4. ASSUME NEW w \in Worker, CallRefused(w) \/ PartFails(w) \/ CallAbandoned(w) PROVE IInv'
    BY <1>4, FailsInv
  <1>5. ASSUME NEW w \in Worker, Finish(w) PROVE IInv'
    BY <1>5, FinishInv
  <1>6. ASSUME NEW w \in Worker, NEW t \in TaskId, Take(w, t) PROVE IInv'
    BY <1>6, TakeInv
  <1>7. ASSUME NEW w \in Worker, Crash(w) PROVE IInv'
    BY <1>7, CrashInv
  <1>8. ASSUME NEW w \in Worker, VisibilityTimeout(w) PROVE IInv'
    BY <1>8, VisibilityInv
  <1>9. ASSUME NEW o \in orphans, ServeOrphan(o) PROVE IInv'
    BY <1>9, ServeOrphanInv
  <1>10. ASSUME NEW o \in orphans, OrphanRefused(o) PROVE IInv'
    BY <1>10, OrphanRefusedInv
  <1>11. CASE UNCHANGED vars
    BY <1>11, StutterInv
  <1>12. ASSUME NEW w \in Worker, Execute(w) PROVE IInv'
    BY <1>2, <1>3, <1>4, <1>5, <1>6, <1>12 DEF Execute
  <1>13. ASSUME NEW w \in Worker, Trouble(w) PROVE IInv'
    BY <1>3, <1>4, <1>7, <1>8, <1>13 DEF Trouble
  <1> QED
    BY <1>1, <1>9, <1>10, <1>11, <1>12, <1>13 DEF Next

\* Executions, requests and stores always fit together: every execution is at
\* a place of its task, a request nobody waits for is the rest of one, a table
\* stays under its rows, and what was to be written, or cleared, was - or it
\* is known why not.
THEOREM PipelineInvariant == Spec => []IInv
  BY InitInv, NextInv, PTL DEF Spec

\* What a successful AddOrUpdate stored is there until a Delete took it away.
THEOREM AddedUntilDeleted == Spec => []SuccessfulAddIsThere
  <1>1. IInv => SuccessfulAddIsThere
    BY DEF IInv
  <1> QED
    BY <1>1, PipelineInvariant, PTL

\* A store never holds more copies than executions were begun to write them.
THEOREM CopiesPaidFor == Spec => []CopiesBounded
  <1>1. IInv => CopiesBounded
    <2> SUFFICES ASSUME IInv, NEW d \in Descriptor
                 PROVE  rows[d] <= runs[d] /\ memories[d] <= runs[d] /\ prints[d] <= runs[d]
      BY DEF CopiesBounded
    <2>1. \A s \in Store : Held(s)[d] <= runs[d]
      <3> TAKE s \in Store
      <3>1. /\ Cardinality(DueWorkers(s, d)) \in Nat /\ Cardinality(DueOrphans(s, d)) \in Nat
            /\ Held(s)[d] + Cardinality(DueWorkers(s, d)) + Cardinality(DueOrphans(s, d)) <= runs[d]
            /\ Held(s)[d] \in Nat /\ runs[d] \in Nat
        BY CopiesTypes DEF IInv
      <3> QED
        BY <3>1
    <2> QED
      BY <2>1 DEF Held, Store
  <1> QED
    BY <1>1, PipelineInvariant, PTL

\* A Delete that succeeds leaves nothing it could see and nobody wrote after it.
THEOREM DeletesWhatItSaw == Spec => DeleteClears
  <1>1. IInv =>
          \A w \in Worker :
            run[w].task # NoTask /\ run'[w].task = NoTask
              /\ BodyOf(w).op = "Delete" /\ run[w].at > Len(Parts(w)) =>
                \A s \in Store :
                    Held(s)[BodyOf(w).of] > 0 =>
                        \/ s \in run[w].met \union run[w].blind
                        \/ s = "rows" /\ Len(generate_collection_name(BodyOf(w).of)) > NameLimit
    <2> SUFFICES ASSUME IInv, NEW w \in Worker, run[w].task # NoTask, BodyOf(w).op = "Delete",
                        run[w].at > Len(Parts(w)), NEW s \in Store, Held(s)[BodyOf(w).of] > 0
                 PROVE  \/ s \in run[w].met \union run[w].blind
                        \/ s = "rows" /\ Len(generate_collection_name(BodyOf(w).of)) > NameLimit
      OBVIOUS
    <2>1. w \in Busy
      BY DEF Busy
    <2>2. BeenTo(run[w], s) /\ BodyOf(w) \in Body
      BY <2>1, Through
    <2>3. Held(s)[BodyOf(w).of] # 0
      OBVIOUS
    <2> QED
      BY <2>1, <2>2, <2>3 DEF IInv, DeletesInv
  <1> QED
    BY <1>1, PipelineInvariant, PTL DEF DeleteClears, Spec

\* Every step of the workers is one that TaskBackend allows the service it
\* describes to the operator, or changes nothing the operator sees.
LEMMA ReportImplements ==
    ASSUME IInv, NEW w \in Busy, NEW state \in {"SUCCESS", "FAILURE"}, Report(w, state),
           UNCHANGED request
    PROVE  Backend!TasksNext(Body) \/ UNCHANGED <<request, result, reported>>
  <1> DEFINE t == run[w].task
  <1>1. /\ t \in TaskId /\ request[t] \in Body /\ result[t] # "PENDING"
        /\ result \in [TaskId -> {"PENDING", "STARTED", "SUCCESS", "FAILURE"}]
        /\ reported \in [TaskId -> SUBSET {"SUCCESS", "FAILURE"}]
        /\ result[t] \in {"SUCCESS", "FAILURE"} => result[t] \in reported[t]
    BY DEF IInv, TypeOK, Busy, ExecutionsInv, BodyOf, TasksInv
  <1>2. CASE result[t] = "SUCCESS"
    BY <1>1, <1>2 DEF Report, StoreResult
  <1>3. ASSUME result[t] # "SUCCESS" PROVE Backend!Report(t, state)
    <2>1. {state} \intersect Backend!FinalState = {state}
      BY DEF Backend!FinalState
    <2> QED
      BY <1>3, <2>1 DEF Report, StoreResult, Backend!Report
  <1>4. CASE result[t] = "STARTED"
    <2>1. Backend!Finish(t, state)
      BY <1>1, <1>3, <1>4, BodyAssumption DEF Backend!Finish, Backend!Submitted
    <2> QED
      BY <1>1, <2>1 DEF Backend!TasksNext, Backend!FinalState
  <1>5. CASE result[t] = "FAILURE" /\ state = "SUCCESS"
    <2>1. Backend!Redelivered(t, state)
      BY <1>3, <1>5 DEF Backend!Redelivered
    <2> QED
      BY <1>1, <2>1 DEF Backend!TasksNext, Backend!TaskState, Backend!FinalState
  <1>6. CASE result[t] = "FAILURE" /\ state = "FAILURE"
    <2>1. result' = result
      BY <1>1, <1>6 DEF Report, StoreResult
    <2>2. reported' = reported
      BY <1>1, <1>6 DEF Report
    <2> QED
      BY <2>1, <2>2
  <1> QED
    BY <1>1, <1>2, <1>4, <1>5, <1>6

LEMMA TakeImplements ==
    ASSUME IInv, NEW w \in Worker, NEW t \in TaskId, Take(w, t)
    PROVE  Backend!TasksNext(Body) \/ UNCHANGED <<request, result, reported>>
  <1>1. /\ request[t] \in Body /\ StoreResult(t, "STARTED") /\ UNCHANGED <<request, reported>>
        /\ result \in [TaskId -> {"PENDING", "STARTED", "SUCCESS", "FAILURE"}]
        /\ reported \in [TaskId -> SUBSET {"SUCCESS", "FAILURE"}]
        /\ reported[t] # {} => result[t] # "PENDING"
    BY DEF Take, IInv, TasksInv, TypeOK
  <1>2. CASE result[t] \in {"SUCCESS", "STARTED"}
    BY <1>1, <1>2 DEF StoreResult
  <1>3. CASE result[t] = "PENDING"
    <2>1. Backend!Start(t)
      BY <1>1, <1>3, BodyAssumption DEF StoreResult, Backend!Start, Backend!Submitted
    <2> QED
      BY <2>1 DEF Backend!TasksNext
  <1>4. CASE result[t] = "FAILURE"
    <2>1. {"STARTED"} \intersect Backend!FinalState = {}
      BY DEF Backend!FinalState
    <2>2. reported' = [reported EXCEPT ![t] = @ \union ({"STARTED"} \intersect Backend!FinalState)]
      BY <1>1, <2>1
    <2>3. Backend!Redelivered(t, "STARTED")
      BY <1>1, <1>4, <2>2 DEF StoreResult, Backend!Redelivered, Backend!Report
    <2> QED
      BY <2>3 DEF Backend!TasksNext, Backend!TaskState
  <1> QED
    BY <1>1, <1>2, <1>3, <1>4

LEMMA TriggerImplements ==
    ASSUME NEW t \in TaskId, NEW body \in Body, TriggerTask(t, body)
    PROVE  Backend!TasksNext(Body)
  <1>1. Backend!Submit(t, body)
    BY DEF TriggerTask, Backend!Submit, Backend!FreshId, Backend!Submitted
  <1> QED
    BY <1>1 DEF Backend!TasksNext

THEOREM TasksAsPromised == Spec => ImplementsTaskBackend
  <1>1. Init => Backend!TasksInit
    BY DEF Init, Backend!TasksInit
  <1>2. IInv /\ [Next]_vars => [Backend!TasksNext(Body)]_(Backend!taskVars)
    <2> SUFFICES ASSUME IInv, [Next]_vars
                 PROVE  Backend!TasksNext(Body) \/ UNCHANGED <<request, result, reported>>
      BY DEF Backend!taskVars
    <2>1. ASSUME NEW w \in Worker, CallRefused(w) \/ PartFails(w) \/ CallAbandoned(w) \/ Finish(w)
          PROVE  Backend!TasksNext(Body) \/ UNCHANGED <<request, result, reported>>
      <3>1. PICK state \in {"SUCCESS", "FAILURE"} : Report(w, state)
        BY <2>1 DEF CallRefused, PartFails, CallAbandoned, Finish
      <3>2. w \in Busy /\ UNCHANGED request
        BY <2>1, SMTT(40) DEF CallRefused, PartFails, CallAbandoned, Finish, Waiting
      <3> QED
        BY <3>1, <3>2, ReportImplements
    <2>2. ASSUME NEW w \in Worker,
                 \/ Read(w) \/ Crash(w) \/ VisibilityTimeout(w)
                 \/ \E readable \in BOOLEAN : Serve(w, readable)
          PROVE  UNCHANGED <<request, result, reported>>
      BY <2>2 DEF Read, Crash, VisibilityTimeout, Serve
    <2>3. ASSUME NEW o \in orphans, ServeOrphan(o) \/ OrphanRefused(o)
          PROVE  UNCHANGED <<request, result, reported>>
      BY <2>3 DEF ServeOrphan, OrphanRefused
    <2>4. CASE UNCHANGED vars
      BY <2>4 DEF vars, sinkerVars
    <2>5. ASSUME NEW w \in Worker, Execute(w) \/ Trouble(w)
          PROVE  Backend!TasksNext(Body) \/ UNCHANGED <<request, result, reported>>
      <3>1. \/ CallRefused(w) \/ PartFails(w) \/ CallAbandoned(w) \/ Finish(w)
            \/ Read(w) \/ Crash(w) \/ VisibilityTimeout(w)
            \/ (\E readable \in BOOLEAN : Serve(w, readable))
            \/ (\E t \in TaskId : Take(w, t))
        BY <2>5 DEF Execute, Trouble
      <3> QED
        BY <2>1, <2>2, <3>1, TakeImplements
    <2> QED
      BY <2>3, <2>4, <2>5, TriggerImplements DEF Next
  <1> QED
    BY <1>1, <1>2, PipelineInvariant, PTL DEF ImplementsTaskBackend, Spec

(***************************************************************************)
(* Searches (KnowledgeSearch)                                              *)
(***************************************************************************)

\* A search changes nothing the pipeline has.
LEMMA SearchOnlyReads == [SearchNext]_allVars => [Next]_vars
  BY DEF SearchNext, Pipeline, Search, get_knowledge, asearch_by_vector, asearch_by_full_text,
         search_memories, SearchRefused, SearchFails, GiveKnowledge, allVars

\* Whatever agents search for, and whenever: what was proved of the pipeline
\* holds of the pipeline they search in.
THEOREM SearchesDisturbNothing == SearchSpec => Spec
  <1>1. SearchInit => Init
    BY DEF SearchInit
  <1> QED
    BY <1>1, SearchOnlyReads, PTL DEF SearchSpec, Spec

\* A success is not taken back, nor is a fault.
LEMMA SuccessKept ==
    ASSUME IInv, [Next]_vars
    PROVE  Added \subseteq Added' /\ faults \in Nat /\ faults' \in Nat /\ faults <= faults'
  <1>1. \/ UNCHANGED <<request, result>>
        \/ \E t \in TaskId, state \in {"STARTED", "SUCCESS", "FAILURE"} :
              StoreResult(t, state) /\ UNCHANGED request
        \/ \E t \in TaskId, body \in Body : TriggerTask(t, body)
    <2>1. ASSUME NEW w \in Worker, CallRefused(w) \/ PartFails(w) \/ CallAbandoned(w) \/ Finish(w)
          PROVE  \E t \in TaskId, state \in {"STARTED", "SUCCESS", "FAILURE"} :
                    StoreResult(t, state) /\ UNCHANGED request
      <3>1. w \in Busy /\ UNCHANGED request /\ (Report(w, "SUCCESS") \/ Report(w, "FAILURE"))
        BY <2>1 DEF CallRefused, PartFails, CallAbandoned, Finish, Waiting
      <3>2. run[w].task \in TaskId
        BY <3>1, SMTT(40) DEF IInv, TypeOK, Busy
      <3> QED
        BY <3>1, <3>2 DEF Report
    <2>2. ASSUME NEW w \in Worker,
                 \/ Read(w) \/ Crash(w) \/ VisibilityTimeout(w)
                 \/ \E readable \in BOOLEAN : Serve(w, readable)
          PROVE  UNCHANGED <<request, result>>
      BY <2>2 DEF Read, Crash, VisibilityTimeout, Serve
    <2>3. ASSUME NEW o \in orphans, ServeOrphan(o) \/ OrphanRefused(o)
          PROVE  UNCHANGED <<request, result>>
      BY <2>3 DEF ServeOrphan, OrphanRefused
    <2>4. CASE UNCHANGED vars
      BY <2>4 DEF vars, sinkerVars
    <2>5. ASSUME NEW w \in Worker, NEW t \in TaskId, Take(w, t)
          PROVE  StoreResult(t, "STARTED") /\ UNCHANGED request
      BY <2>5 DEF Take
    <2>6. ASSUME NEW w \in Worker, Execute(w) \/ Trouble(w)
          PROVE  \/ CallRefused(w) \/ PartFails(w) \/ CallAbandoned(w) \/ Finish(w)
                 \/ Read(w) \/ Crash(w) \/ VisibilityTimeout(w)
                 \/ (\E readable \in BOOLEAN : Serve(w, readable))
                 \/ (\E t \in TaskId : Take(w, t))
      BY <2>6 DEF Execute, Trouble
    <2> QED
      BY <2>1, <2>2, <2>3, <2>4, <2>5, <2>6 DEF Next
  <1>2. /\ request \in [TaskId -> Body \union {NoReq}]
        /\ result \in [TaskId -> {"PENDING", "STARTED", "SUCCESS", "FAILURE"}]
        /\ faults \in 0 .. MaxFaults
    BY DEF IInv, TypeOK
  <1>3. Added \subseteq Added'
    <2> SUFFICES ASSUME NEW d \in Mine, NEW t \in TaskId,
                        request[t] = [op |-> "AddOrUpdate", of |-> d], result[t] = "SUCCESS"
                 PROVE  request'[t] = request[t] /\ result'[t] = "SUCCESS"
      BY DEF Added, Mine
    <2>1. request[t] # NoReq
      <3>1. request[t] \in Body
        BY <1>2, BodyAssumption DEF IInv, TasksInv
      <3> QED
        BY <3>1, BodyAssumption
    <2>2. CASE \E u \in TaskId, state \in {"STARTED", "SUCCESS", "FAILURE"} :
                 StoreResult(u, state) /\ UNCHANGED request
      BY <1>2, <2>2 DEF StoreResult
    <2>3. ASSUME NEW u \in TaskId, NEW body \in Body, TriggerTask(u, body)
          PROVE  request'[t] = request[t] /\ result'[t] = "SUCCESS"
      <3>1. request[u] = NoReq
        BY <2>3, SMTT(40) DEF TriggerTask
      <3> QED
        BY <1>2, <2>1, <2>3, <3>1 DEF TriggerTask
    <2> QED
      BY <1>1, <2>2, <2>3
  <1>4. Fault \/ UNCHANGED faults
    BY DEF Next, Execute, Trouble, TriggerTask, Take, Read, Serve, CallRefused, Finish, PartFails,
           CallAbandoned, Crash, VisibilityTimeout, ServeOrphan, OrphanRefused, vars, sinkerVars
  <1>5. TypeOK
    BY DEF IInv
  <1> QED
    BY <1>3, <1>4, <1>5, Faulted

LEMMA KnownTypes ==
    /\ DOMAIN Known = 1 .. Len(Known) /\ Len(Known) \in Nat \ {0}
    /\ \A i \in DOMAIN Known : Known[i] \in Descriptor /\ Known[i] \in Mine
  BY KnownAssumption DEF Mine

\* What excuses a search goes on excusing it.
LEMMA ExcusedLasts ==
    ASSUME NEW s, NEW d, Excused(s, d), taken \subseteq taken', failed \subseteq failed',
           faults \in Nat, faults' \in Nat, faults <= faults'
    PROVE  Excused(s, d)'
  BY DEF Excused

\* What the stores hold, or why they do not, of a descriptor that was added
\* before the search began.
LEMMA AddedThere ==
    ASSUME IInv, SearchIInv, NEW s \in {"rows", "memories"}, NEW d \in added
    PROVE  Held(s)[d] > 0 \/ Excused(s, d)
  <1>1. PICK t \in TaskId : request[t] = [op |-> "AddOrUpdate", of |-> d] /\ result[t] = "SUCCESS"
    BY DEF SearchIInv, Added
  <1>2. request[t].op = "AddOrUpdate" /\ request[t].of = d /\ s \in Store /\ s # "prints"
    BY <1>1 DEF Store
  <1>3. Held(s)[d] > 0 \/ <<s, d>> \in cleared \/ (d.source \in {"minio", "fileserver"} /\ faults > 0)
    BY <1>1, <1>2 DEF IInv, SuccessfulAddIsThere
  <1>4. <<s, d>> \in cleared => <<s, d>> \in taken
    BY DEF SearchIInv, Emptied
  <1> QED
    BY <1>3, <1>4 DEF Excused

\* The steps of a search that stay with a collection.
LEMMA ReadsInv ==
    ASSUME IInv, SearchIInv, get_knowledge \/ asearch_by_vector \/ asearch_by_full_text \/ GiveKnowledge
    PROVE  SearchIInv'
  <1>1. UNCHANGED <<faults, request, result, cleared>>
    BY DEF get_knowledge, asearch_by_vector, asearch_by_full_text, GiveKnowledge, vars, sinkerVars
  <1>2. CASE get_knowledge
    <2>1. /\ reading' = "vector" /\ nth' = 1 /\ added' = Added /\ taken' = Emptied(Added)
      BY <1>2 DEF get_knowledge
    <2>2. Added' = Added
      BY <1>1 DEF Added
    <2>3. Emptied(added)' = Emptied(Added)
      BY <1>1, <2>1 DEF Emptied
    <2>4. SearchedInv' /\ HitsInv'
      BY <2>1, KnownTypes DEF SearchedInv, HitsInv
    <2> QED
      BY <2>1, <2>2, <2>3, <2>4, KnownTypes DEF SearchIInv
  <1>3. CASE GiveKnowledge
    <2>1. reading' = "off" /\ nth' = 1 /\ added' = {}
      BY <1>3 DEF GiveKnowledge
    <2>2. Emptied(added)' = {}
      BY <2>1 DEF Emptied
    <2>3. SearchedInv' /\ HitsInv'
      BY <2>1 DEF SearchedInv, HitsInv
    <2> QED
      BY <2>1, <2>2, <2>3, KnownTypes DEF SearchIInv
  <1>4. CASE asearch_by_vector \/ asearch_by_full_text
    <2>1. /\ reading \in {"vector", "full_text"} /\ reading' \in {"full_text", "memories"}
          /\ UNCHANGED <<nth, content, added, taken, failed>>
      BY <1>4 DEF asearch_by_vector, asearch_by_full_text, searchHistory
    <2>2. Added' = Added /\ Emptied(added)' = Emptied(added) /\ Here' = Here
      BY <1>1, <2>1 DEF Added, Emptied, Here
    <2>3. \A s, d : Excused(s, d)' <=> Excused(s, d)
      BY <1>1, <2>1 DEF Excused
    <2>4. SearchedInv'
      BY <2>1, <2>3 DEF SearchIInv, SearchedInv
    <2>5. HitsInv'
      <3> SUFFICES ASSUME Here \in added PROVE <<"rows", Here>> \in hits' \/ Excused("rows", Here)
        BY <2>1, <2>2, <2>3 DEF HitsInv
      <3>1. CASE asearch_by_vector
        <4>1. Here \in Descriptor
          BY KnownTypes DEF Here, SearchIInv
        <4>2. rows[Here] > 0 \/ Excused("rows", Here)
          BY AddedThere DEF Held
        <4>3. rows[Here] > 0 => <<"rows", Here>> \in InTable(Here)
          BY <4>1 DEF InTable, SameTable
        <4> QED
          BY <3>1, <4>2, <4>3 DEF asearch_by_vector
      <3>2. CASE asearch_by_full_text
        BY <3>2 DEF asearch_by_full_text, hybrid_merge_with_weights, SearchIInv, HitsInv
      <3> QED
        BY <1>4, <3>1, <3>2
    <2> QED
      BY <2>1, <2>2, <2>4, <2>5 DEF SearchIInv
  <1> QED
    BY <1>2, <1>3, <1>4

\* A request has ended: its collection is done.
LEMMA CollectionDone ==
    ASSUME SearchIInv, NEW STATE found, search_multiple_collections(found), NEW d, d = Here,
           reading \in {"vector", "full_text", "memories"},
           UNCHANGED <<added, taken, vars>>, failed \subseteq failed',
           d \in added => \A s \in {"rows", "memories"} : <<s, d>> \in found \/ Excused(s, d)'
    PROVE  SearchIInv'
  <1>1. UNCHANGED <<faults, request, result, cleared>> /\ nth \in 1 .. Len(Known)
    BY KnownTypes DEF vars, sinkerVars, SearchIInv
  <1>2. Added' = Added /\ Emptied(added)' = Emptied(added)
    BY <1>1 DEF Added, Emptied
  <1>3. \A s, e : Excused(s, e) => Excused(s, e)'
    BY <1>1 DEF Excused
  <1>4. /\ content' = content \union found
        /\ \/ nth = Len(Known) /\ reading' = "found" /\ nth' = nth
           \/ nth # Len(Known) /\ reading' = "vector" /\ nth' = nth + 1
    BY DEF search_multiple_collections
  <1>5. nth' \in DOMAIN Known
    <2>1. Len(Known) \in Nat /\ nth \in Nat /\ 1 <= nth /\ nth <= Len(Known)
      BY <1>1, KnownTypes
    <2>2. nth' \in 1 .. Len(Known)
      BY <1>4, <2>1
    <2> QED
      BY <2>2, KnownTypes
  <1>6. SearchedInv'
    <2> SUFFICES ASSUME NEW i \in DOMAIN Known, NEW s \in {"rows", "memories"},
                        reading' = "found" \/ i < nth', Known[i] \in added
                 PROVE  <<s, Known[i]>> \in content' \/ Excused(s, Known[i])'
      BY DEF SearchedInv
    <2>1. i < nth \/ i = nth
      <3>1. /\ Len(Known) \in Nat /\ nth \in Nat /\ 1 <= nth /\ nth <= Len(Known)
            /\ i \in Nat /\ 1 <= i /\ i <= Len(Known)
        BY <1>1, KnownTypes
      <3>2. i <= nth
        BY <1>4, <3>1
      <3> QED
        BY <3>1, <3>2
    <2>2. CASE i < nth
      <3>1. <<s, Known[i]>> \in content \/ Excused(s, Known[i])
        BY <2>2 DEF SearchIInv, SearchedInv
      <3> QED
        BY <1>3, <1>4, <3>1
    <2>3. CASE i = nth
      BY <1>4, <2>3 DEF Here
    <2> QED
      BY <2>1, <2>2, <2>3
  <1>7. HitsInv'
    BY <1>4 DEF HitsInv
  <1> QED
    BY <1>2, <1>4, <1>5, <1>6, <1>7 DEF SearchIInv

\* The ways in which a request ends.
LEMMA EndsInv ==
    ASSUME IInv, SearchIInv, search_memories \/ SearchRefused \/ SearchFails
    PROVE  SearchIInv'
  <1>0. PICK d : d = Here
    OBVIOUS
  <1>1. d \in Descriptor /\ \A s, e : Excused(s, e) /\ UNCHANGED <<taken, failed, vars>> => Excused(s, e)'
    BY <1>0, KnownTypes DEF Here, SearchIInv, Excused, vars, sinkerVars
  <1>2. CASE search_memories
    <2>1. /\ reading = "memories" /\ search_multiple_collections(hits \union UnderName(d))
          /\ UNCHANGED <<added, taken, failed, vars>>
      BY <1>0, <1>2 DEF search_memories, searchHistory, extract_content_as_string
    <2>2. ASSUME d \in added, NEW s \in {"rows", "memories"}
          PROVE  <<s, d>> \in hits \union UnderName(d) \/ Excused(s, d)
      <3>1. CASE s = "rows"
        BY <1>0, <2>1, <2>2, <3>1 DEF SearchIInv, HitsInv
      <3>2. CASE s = "memories"
        <4>1. memories[d] > 0 \/ Excused(s, d)
          BY <2>2, <3>2, AddedThere DEF Held
        <4>2. memories[d] > 0 => <<s, d>> \in UnderName(d)
          BY <1>1, <3>2 DEF UnderName, SameOwner
        <4> QED
          BY <4>1, <4>2
      <3> QED
        BY <3>1, <3>2
    <2> QED
      BY <1>1, <2>1, <2>2, <1>0, CollectionDone
  <1>3. CASE SearchRefused
    <2>1. /\ reading \in {"vector", "full_text"} /\ search_multiple_collections({})
          /\ ~ Searchable(d) /\ UNCHANGED <<added, taken, failed, vars>>
      BY <1>0, <1>3 DEF SearchRefused, searchHistory
    <2>2. ASSUME d \in added, NEW s \in {"rows", "memories"}
          PROVE  Excused(s, d)
      <3>1. ~ (rows[d] > 0)
        BY <1>1, <2>1 DEF IInv, RowsHaveTable, Searchable
      <3>2. Excused("rows", d)
        BY <2>2, <3>1, AddedThere DEF Held
      <3> QED
        BY <3>2 DEF Excused
    <2> QED
      BY <1>1, <2>1, <2>2, <1>0, CollectionDone
  <1>4. CASE SearchFails
    <2>1. /\ reading \in {"vector", "full_text", "memories"} /\ search_multiple_collections({})
          /\ failed' = failed \union ({d} \intersect added) /\ UNCHANGED <<added, taken, vars>>
      BY <1>0, <1>4 DEF SearchFails
    <2>2. d \in added => \A s : Excused(s, d)'
      BY <2>1 DEF Excused
    <2> QED
      BY <2>1, <2>2, <1>0, CollectionDone
  <1> QED
    BY <1>2, <1>3, <1>4

\* The workers go on while the search is under way.
LEMMA MeanwhileInv ==
    ASSUME IInv, SearchIInv, Pipeline \/ UNCHANGED allVars
    PROVE  SearchIInv'
  <1>1. /\ UNCHANGED <<reading, nth, hits, content, added, failed>>
        /\ taken \subseteq taken' /\ Emptied(added)' \subseteq taken' /\ [Next]_vars
    <2>1. CASE Pipeline
      BY <2>1 DEF Pipeline
    <2>2. CASE UNCHANGED allVars
      <3>1. UNCHANGED <<vars, reading, nth, hits, content, added, taken, failed, cleared>>
        BY <2>2 DEF allVars, searchVars, vars, sinkerVars
      <3>2. Emptied(added)' = Emptied(added)
        BY <3>1 DEF Emptied
      <3> QED
        BY <3>1, <3>2 DEF SearchIInv
    <2> QED
      BY <2>1, <2>2
  <1>2. Added \subseteq Added' /\ faults \in Nat /\ faults' \in Nat /\ faults <= faults'
    BY <1>1, SuccessKept
  <1>3. \A s, d : Excused(s, d) => Excused(s, d)'
    BY <1>1, <1>2, ExcusedLasts
  <1>4. SearchedInv' /\ HitsInv'
    BY <1>1, <1>3 DEF SearchIInv, SearchedInv, HitsInv, Here
  <1> QED
    BY <1>1, <1>2, <1>4 DEF SearchIInv

THEOREM SearchInvariant == SearchSpec => [](IInv /\ SearchIInv)
  <1>1. SearchInit => IInv /\ SearchIInv
    <2> SUFFICES ASSUME SearchInit PROVE SearchIInv
      BY InitInv DEF SearchInit
    <2>1. SearchedInv /\ HitsInv /\ Emptied(added) = {}
      BY DEF SearchInit, SearchedInv, HitsInv, Emptied
    <2> QED
      BY <2>1, KnownTypes DEF SearchInit, SearchIInv
  <1>2. IInv /\ SearchIInv /\ [SearchNext]_allVars => IInv' /\ SearchIInv'
    <2> SUFFICES ASSUME IInv, SearchIInv, [SearchNext]_allVars PROVE IInv' /\ SearchIInv'
      OBVIOUS
    <2>1. IInv'
      BY SearchOnlyReads, NextInv
    <2>2. SearchIInv'
      BY ReadsInv, EndsInv, MeanwhileInv DEF SearchNext, Search
    <2> QED
      BY <2>1, <2>2
  <1> QED
    BY <1>1, <1>2, PTL DEF SearchSpec

\* A search finds what was added before it began, or it is known why not:
\* whatever the agent's descriptors are, and whoever shares their tables.
THEOREM KnowledgeFound == SearchSpec => []FindsWhatWasAdded
  <1>1. SearchIInv => FindsWhatWasAdded
    BY DEF SearchIInv, SearchedInv, FindsWhatWasAdded
  <1> QED
    BY <1>1, SearchInvariant, PTL
=============================================================================
