--------------------------- MODULE KnowledgeSearch ---------------------------
(***************************************************************************)
(* An expert looks up what is known about its descriptors (get_knowledge)  *)
(* while the workers of DataSinkers change it.                             *)
(*                                                                         *)
(* The collections of the agent's descriptors are searched one after the   *)
(* other, each with one request.  The service serves it with three reads:  *)
(* the nearest vectors and the matching texts of the collection's table,   *)
(* and the memories filed under the collection's name.  Workers come       *)
(* between any two of them.  A request that fails is logged, and its       *)
(* collection left out of what is found.                                   *)
(*                                                                         *)
(* Documents and memories stand for those that the query is about and that *)
(* pass limits and thresholds: ranking is not modelled.                    *)
(***************************************************************************)
EXTENDS DataSinkers

CONSTANT Known  \* the agent's descriptors, in the order of Data_Descriptor

ASSUME KnownAssumption == Known \in Seq(Descriptor) \ {<<>>}

VARIABLES
    reading,   \* the read that comes next
    nth,       \* of Known: whose collection is being searched
    hits,      \* what its request has found: pairs of a store and a descriptor
    content,   \* what the requests before it returned (all_content)
    added,     \* those with a finished AddOrUpdate when it began (history)
    taken,     \* which of their stores a Delete emptied, or had emptied (history)
    failed     \* those whose collection's request failed for itself (history)

searchVars == <<reading, nth, hits, content, added, taken, failed>>
searchHistory == <<added, taken, failed>>

Mine == {Known[i] : i \in DOMAIN Known}
Added == {d \in Mine : \E t \in TaskId :
             request[t] = [op |-> "AddOrUpdate", of |-> d] /\ result[t] = "SUCCESS"}

Emptied(of) == cleared \intersect ({"rows", "memories"} \X of)

SearchInit ==
    /\ Init
    /\ reading = "off" /\ nth = 1
    /\ hits = {} /\ content = {} /\ added = {} /\ taken = {} /\ failed = {}

-----------------------------------------------------------------------------
\* The data-services.  A table is named as PostgreSQL reads the name.
\* Variant: the table is looked for by the name it would have had.
FindsFullName(d) == generate_collection_name(d) \in tables

Searchable(d) == table_name(d) \in tables

InTable(d) == {"rows"} \X {e \in SameTable(d) : rows[e] > 0}

\* The user_id of a memory is the collection's name.
UnderName(d) == {"memories"} \X {e \in SameOwner(d) : memories[e] > 0}

\* The two lists of documents are put one behind the other (a document that
\* both have found is twice among them), the memories behind them.
hybrid_merge_with_weights(vector, fulltext) == vector \union fulltext
extract_content_as_string(documents, mems) == documents \union mems

-----------------------------------------------------------------------------
\* The expert.
Here == Known[nth]

\* get_knowledge: the first collection is asked for.
get_knowledge ==
    /\ reading = "off"
    /\ reading' = "vector" /\ nth' = 1
    /\ hits' = {} /\ content' = {}
    /\ added' = Added /\ taken' = Emptied(Added) /\ failed' = {}
    /\ UNCHANGED vars

\* The request has ended: on to the next collection, or back to the step.
search_multiple_collections(found) ==
    /\ content' = content \union found
    /\ hits' = {}
    /\ IF nth = Len(Known) THEN reading' = "found" /\ UNCHANGED nth
       ELSE reading' = "vector" /\ nth' = nth + 1

asearch_by_vector ==
    /\ reading = "vector" /\ Searchable(Here)
    /\ hits' = InTable(Here)
    /\ reading' = "full_text"
    /\ UNCHANGED <<nth, content, searchHistory, vars>>

\* Some of the texts have the query's words in them.
asearch_by_full_text ==
    /\ reading = "full_text" /\ Searchable(Here)
    /\ \E matching \in SUBSET InTable(Here) : hits' = hybrid_merge_with_weights(hits, matching)
    /\ reading' = "memories"
    /\ UNCHANGED <<nth, content, searchHistory, vars>>

search_memories ==
    /\ reading = "memories"
    /\ search_multiple_collections(extract_content_as_string(hits, UnderName(Here)))
    /\ UNCHANGED <<searchHistory, vars>>

\* There is no such table: the answer is a 500, whatever else there is.
SearchRefused ==
    /\ reading \in {"vector", "full_text"} /\ ~Searchable(Here)
    /\ search_multiple_collections({})
    /\ UNCHANGED <<searchHistory, vars>>

\* Anything else that goes wrong with the request: the embedding of the query,
\* a store, the connection, the time.
SearchFails ==
    /\ reading \in {"vector", "full_text", "memories"}
    /\ search_multiple_collections({})
    /\ failed' = failed \union ({Here} \intersect added)
    /\ UNCHANGED <<added, taken, vars>>

\* The knowledge goes to the model.
GiveKnowledge ==
    /\ reading = "found"
    /\ reading' = "off" /\ nth' = 1
    /\ hits' = {} /\ content' = {} /\ added' = {} /\ taken' = {} /\ failed' = {}
    /\ UNCHANGED vars

Search ==
    \/ get_knowledge \/ asearch_by_vector \/ asearch_by_full_text \/ search_memories
    \/ SearchRefused \/ SearchFails \/ GiveKnowledge

\* A step of the pipeline, with what a search under way must allow for.
Pipeline ==
    /\ Next
    /\ UNCHANGED <<reading, nth, hits, content, added, failed>>
    /\ taken' = taken \union Emptied(added)'

SearchNext == Pipeline \/ Search

allVars == <<vars, searchVars>>

SearchSpec == SearchInit /\ [][SearchNext]_allVars /\ Fairness

-----------------------------------------------------------------------------
\* Why the search may do without what a store holds of the descriptor.
\* (Files that could not be read may have left nothing to store.)
Excused(s, d) ==
    \/ {<<s, d>>, <<"rows", d>>} \intersect taken # {}
    \/ d \in failed
    \/ d.source \in {"minio", "fileserver"} /\ faults > 0

\* Knowledge is found once it was stored: a search that began after a task
\* had succeeded for one of the agent's descriptors finds its documents and
\* its memories, whatever other workers, requests and Deletes do between its
\* reads - unless a Delete took that store, or the table the search begins
\* with, or the collection's own request failed.
FindsWhatWasAdded ==
    reading = "found" =>
        \A i \in DOMAIN Known, s \in {"rows", "memories"} :
            Known[i] \in added => <<s, Known[i]>> \in content \/ Excused(s, Known[i])

\* What a search relies on while it is under way: the inductive invariant of
\* the proof, beside that of the pipeline.
SearchedInv ==
    \A i \in DOMAIN Known, s \in {"rows", "memories"} :
        (reading = "found" \/ i < nth) /\ Known[i] \in added =>
            <<s, Known[i]>> \in content \/ Excused(s, Known[i])
HitsInv ==
    reading \in {"full_text", "memories"} /\ Here \in added =>
        <<"rows", Here>> \in hits \/ Excused("rows", Here)
SearchIInv ==
    /\ reading \in {"off", "vector", "full_text", "memories", "found"}
    /\ nth \in DOMAIN Known
    /\ added \subseteq Added
    /\ Emptied(added) \subseteq taken
    /\ SearchedInv /\ HitsInv

=============================================================================
