----------------------------- MODULE AgentSearch -----------------------------
(***************************************************************************)
(* How a search for agents can end, for the agent that searches: an        *)
(* orchestrator for experts, the routing agent for orchestrators.  It asks *)
(* its agent registry, and that asks data-services.  Each layer passes a   *)
(* failure on - an exception becomes a status, a status an exception - and *)
(* each request may fail by itself, so what is searched for and what was   *)
(* lost on the way stay distinct: "none" only if nothing was found.  The   *)
(* clients of data-services for knowledge and memories do not do that.     *)
(***************************************************************************)

\* VectorService.search_documents_with_vector: agents that are similar enough,
\* none, or an exception of the model or the database.
search_documents_with_vector == {"cards", "none", "raised"}

\* The routes of data-services and of the registry.
Answer(outcome) == IF outcome = "raised" THEN "500" ELSE outcome
search_route(service) == {Answer(outcome) : outcome \in service}

\* raise_for_status, and no answer, one too late or one that is not JSON.
Result(answer) == IF answer = "500" THEN "raised" ELSE answer
_amake_request(answers) == {Result(answer) : answer \in answers} \union {"raised"}

\* The registry's VectorClient and its route,
client_asearch == _amake_request(search_route(search_documents_with_vector))
avector_search == client_asearch
search_documents == search_route(avector_search)

\* and the AgentRegistryClient of the agents.
asearch == _amake_request(search_documents)
=============================================================================
