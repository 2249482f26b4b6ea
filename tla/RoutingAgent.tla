----------------------------- MODULE RoutingAgent -----------------------------
(***************************************************************************)
(* The routing agent between dac-apiserver and the orchestrators: it       *)
(* chooses an orchestrator for a question and relays its stream.  Its list *)
(* of agent cards is shared by all requests, but between loading it and    *)
(* searching it a request never awaits, so the two are one step here.      *)
(***************************************************************************)
EXTENDS OrchestratorAgent

VARIABLES
    routing,  \* routing[t]: where the request of turn t is
    down      \* down[t]: its event stream to dac-apiserver

routingVars == <<routing, down>>

RoutingInit ==
    /\ routing = [t \in Turn |-> "off"]
    /\ down = [t \in Turn |-> Open]

\* One chunk of its own, which no orchestrator sends, and completion.
Apology == 0

\* Its AgentRegistryClient is the orchestrators', the registry another one.
asearch_orchestrators == _amake_request(search_documents)

\* An agent is found by the name the model chose: some agent, or none.
get_plan(t) ==
    /\ routing[t] = "plan"
    /\ \/ /\ "cards" \in asearch_orchestrators
          /\ routing' = [routing EXCEPT ![t] = "relay"]
          /\ orch' = [orch EXCEPT ![t].at = "cards"]
          /\ UNCHANGED down
       \/ /\ routing' = [routing EXCEPT ![t] = "done"]
          /\ down' = [down EXCEPT ![t] = End(Publish(@, Apology), "complete")]
          /\ UNCHANGED orch
    /\ UNCHANGED up

relay(t) ==
    /\ routing[t] = "relay"
    /\ up[t].events # <<>> /\ Room(down[t])
    /\ down' = [down EXCEPT ![t] = Publish(@, Head(up[t].events))]
    /\ up' = [up EXCEPT ![t].events = Tail(@)]
    /\ UNCHANGED <<routing, orch>>

\* The orchestrator's stream is over: the task is completed, unless the stream
\* broke.  That is logged, and the task left as it is.
finish(t) ==
    /\ routing[t] = "relay"
    /\ up[t].events = <<>> /\ up[t].end # "open"
    /\ routing' = [routing EXCEPT ![t] = "done"]
    /\ down' = [down EXCEPT ![t] = End(@, IF up[t].end = "broken" THEN "closed" ELSE "complete")]
    /\ UNCHANGED <<orch, up>>

RoutingStep(t) ==
    /\ get_plan(t) \/ relay(t) \/ finish(t)
    /\ UNCHANGED <<run_id, knew, history, memories>>

\* Listing the agents raises, or planning with those listed.
RoutingRaise(t) ==
    /\ routing[t] = "plan" /\ asearch_orchestrators \intersect {"cards", "raised"} # {}
    /\ routing' = [routing EXCEPT ![t] = "done"]
    /\ \E how \in {"closed", "broken"} : down' = [down EXCEPT ![t] = End(@, how)]
    /\ UNCHANGED <<run_id, knew, history, memories, orch, up>>
=============================================================================
