---------------------------- MODULE DataServices ----------------------------
(***************************************************************************)
(* The stores of data-services that hold what is known about a data        *)
(* descriptor: the pgvector table of its collection, the memories filed    *)
(* under the collection's name, and its rows of the fingerprint table; and *)
(* the requests that write them, each a list of steps.  The steps of one   *)
(* request are separate transactions (or separate stores), so other        *)
(* requests run between them and a failure leaves the first ones done.     *)
(*                                                                         *)
(* A name is modelled as the sequence of its parts between '-', so that    *)
(* generate_collection_name is what it is in the code: the parts of        *)
(* namespace and name, joined, with every separator turned into '_'.       *)
(* PostgreSQL cuts an identifier after 63 bytes, here NameLimit parts.     *)
(***************************************************************************)
EXTENDS Naturals, Sequences

CONSTANTS
    NamePart,    \* the parts of names
    Descriptor,  \* records with [namespace, name], sequences of parts
    NameLimit    \* how much of a table's name PostgreSQL keeps

ASSUME NameAssumption ==
    /\ NameLimit \in Nat \ {0}
    /\ \A d \in Descriptor : {d.namespace, d.name} \subseteq Seq(NamePart) \ {<<>>}

VARIABLES
    tables,    \* the embedding tables that exist
    rows,      \* rows[d]: batches of d's documents in its collection's table
    memories,  \* memories[d]: batches of memories extracted from d's documents
    prints     \* prints[d]: rows of the fingerprint table for d

storeVars == <<tables, rows, memories, prints>>

Store == {"rows", "memories", "prints"}

generate_collection_name(d) == d.namespace \o d.name

\* PGVector.__init__: the table's name, as PostgreSQL will read it.
table_name(d) ==
    LET c == generate_collection_name(d)
    IN  SubSeq(c, 1, IF Len(c) < NameLimit THEN Len(c) ELSE NameLimit)

\* The descriptors whose documents live in d's table, and those whose memories
\* are filed under the user_id that d's are filed under.
SameTable(d) == {e \in Descriptor : table_name(e) = table_name(d)}
SameOwner(d) ==
    {e \in Descriptor : generate_collection_name(e) = generate_collection_name(d)}

StoresInit ==
    /\ tables = {}
    /\ rows = [d \in Descriptor |-> 0]
    /\ memories = [d \in Descriptor |-> 0]
    /\ prints = [d \in Descriptor |-> 0]

More(held, d, n) == [held EXCEPT ![d] = @ + n]
Without(held, gone) == [d \in Descriptor |-> IF d \in gone THEN 0 ELSE held[d]]

-----------------------------------------------------------------------------
\* PGVector.  acollection_exists asks pg_tables for the full name, and takes an
\* error (readable = FALSE) for an answer: "no".

acollection_exists(d, readable) ==
    readable /\ generate_collection_name(d) \in tables

\* CREATE TABLE IF NOT EXISTS
_acreate_collection(d) == tables' = tables \union {table_name(d)}

\* One INSERT per text, each with a new uuid: no uniqueness to violate.  The
\* table must be there.
aadd_texts(d, n) ==
    /\ table_name(d) \in tables
    /\ rows' = More(rows, d, n)
    /\ UNCHANGED <<tables, memories, prints>>

\* DROP TABLE IF EXISTS
adelete(d) ==
    /\ tables' = tables \ {table_name(d)}
    /\ rows' = Without(rows, SameTable(d))

\* Variant: the sample text is stored too.
CreateWithSample(d, readable) ==
    /\ IF acollection_exists(d, readable)
       THEN UNCHANGED <<tables, rows>>
       ELSE _acreate_collection(d) /\ rows' = More(rows, d, 1)
    /\ UNCHANGED <<memories, prints>>

\* BaseVector.acreate_collection with PGVector's methods: the sample text of
\* the request is only measured.
acreate_collection(d, readable) ==
    /\ IF acollection_exists(d, readable)
       THEN UNCHANGED tables ELSE _acreate_collection(d)
    /\ UNCHANGED <<rows, memories, prints>>

-----------------------------------------------------------------------------
\* AsyncMemoryManager, in front of mem0.  (What mem0 keeps is a batch per call.)
add_memory(d, n) ==
    /\ memories' = More(memories, d, n)
    /\ UNCHANGED <<tables, rows, prints>>

delete_all_memories(d) ==
    /\ memories' = Without(memories, SameOwner(d))
    /\ UNCHANGED <<tables, rows, prints>>

-----------------------------------------------------------------------------
\* AsyncFingerprintService
create(d) ==
    /\ prints' = More(prints, d, 1)
    /\ UNCHANGED <<tables, rows, memories>>

\* count answers 0 when its query fails.
exists_by_dd_info(d, readable) == readable /\ prints[d] > 0

\* True only if it removed something.
delete_by_dd_info(d) ==
    /\ prints[d] > 0
    /\ prints' = Without(prints, {d})
    /\ UNCHANGED <<tables, rows, memories>>

-----------------------------------------------------------------------------
\* AsyncKnowledgePyramidManager, as the steps of its methods.
\* Variant: the memories are forgotten, on either side.
AddVectorsOnly == <<"aadd_texts">>
DropTableOnly == <<"adelete">>

create_collection_with_knowledge_pyramid == <<"acreate_collection">>
add_documents_with_knowledge_pyramid == <<"aadd_texts", "add_memory">>
delete_all_documents_and_memorys_by_collection_name == <<"adelete", "delete_all_memories">>

\* The fingerprint routes: create_fingerprint, and the deletion by descriptor,
\* which looks first and then insists on having deleted something.
create_fingerprint == <<"create">>
delete_fingerprints_by_dd_info == <<"exists_by_dd_info", "delete_by_dd_info">>

\* Which store a step is about; which steps add, remove, and look first.
StoreOf(step) ==
    CASE step \in {"acreate_collection", "aadd_texts", "adelete"} -> "rows"
      [] step \in {"add_memory", "delete_all_memories"} -> "memories"
      [] OTHER -> "prints"
Held(store) ==
    CASE store = "rows" -> rows [] store = "memories" -> memories
      [] OTHER -> prints

Adds == {"create", "aadd_texts", "add_memory"}
Removes == {"adelete", "delete_all_memories", "delete_by_dd_info"}
Looks == {"acreate_collection", "adelete", "exists_by_dd_info"}

\* A step of a request about d that carries n batches of documents.
Effect(step, d, n, readable) ==
    CASE step = "acreate_collection" -> acreate_collection(d, readable)
      [] step = "aadd_texts" -> aadd_texts(d, n)
      [] step = "add_memory" -> add_memory(d, n)
      [] step = "adelete" ->
            IF acollection_exists(d, readable)
            THEN adelete(d) /\ UNCHANGED <<memories, prints>>
            ELSE UNCHANGED storeVars
      [] step = "delete_all_memories" -> delete_all_memories(d)
      [] step = "create" -> create(d)
      [] step = "exists_by_dd_info" -> UNCHANGED storeVars
      [] step = "delete_by_dd_info" -> delete_by_dd_info(d)

\* The steps left after it.  Nothing to delete is an answer too.
Rest(todo, d, readable) ==
    IF Head(todo) = "exists_by_dd_info" /\ ~exists_by_dd_info(d, readable)
    THEN <<>> ELSE Tail(todo)

\* The step raises: the request answers 500.
Refused(step, d) ==
    \/ step = "aadd_texts" /\ table_name(d) \notin tables
    \/ step = "delete_by_dd_info" /\ prints[d] = 0

=============================================================================
