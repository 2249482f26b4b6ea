----------------------------- MODULE AgentStore -----------------------------
(***************************************************************************)
(* What agents and the agent registry share in Redis: the hash of agent    *)
(* cards (expert_agents), the sorted set of heartbeats (agent_heartbeats), *)
(* one marker key per url (expert_agents:<url>), and the notifications     *)
(* that changes of a marker send to the registries that are subscribed.    *)
(*                                                                         *)
(* Every writer changes the three structures in one pipeline, which        *)
(* redis-py sends as a MULTI/EXEC transaction: one step here.  A card is   *)
(* represented by the agent process that wrote it.                         *)
(***************************************************************************)
EXTENDS Sequences

CONSTANTS
    Process,  \* processes of agents, old and new pods of a deployment
    Url,      \* the urls agents are registered under
    UrlOf,    \* the url of each process
    Replica,  \* registry objects: one per server that serves the list
    NoAgent   \* no card

ASSUME AgentStoreAssumption ==
    /\ UrlOf \in [Process -> Url]
    /\ NoAgent \notin Process
    /\ Replica # {}

Card == Process \union {NoAgent}
Event == {"add", "remove"}

VARIABLES
    registry,    \* url -> card in the hash, or NoAgent
    heartbeats,  \* url -> "none", "fresh", or "stale": older than 30 seconds
    markers,     \* urls whose marker key exists
    feed,        \* replica -> url -> notifications not yet read
    listening    \* replicas with a subscription

storeVars == <<registry, heartbeats, markers, feed, listening>>

StoreTypeOK ==
    /\ registry \in [Url -> Card]
    /\ heartbeats \in [Url -> {"none", "fresh", "stale"}]
    /\ markers \subseteq Url
    /\ feed \in [Replica -> [Url -> Seq(Event)]]
    /\ listening \subseteq Replica

NoFeed == [u \in Url |-> <<>>]

StoreInit ==
    /\ registry = [u \in Url |-> NoAgent]
    /\ heartbeats = [u \in Url |-> "none"]
    /\ markers = {}
    /\ feed = [r \in Replica |-> NoFeed]
    /\ listening = Replica

Registered(u) == registry[u] # NoAgent

\* A marker that is SET, or DELeted while it exists, is notified (AKE).  Urls
\* have feeds of their own: nobody observes the order between two urls.
Publish(urls, event) ==
    /\ feed' = [r \in Replica |-> [u \in Url |->
                   IF r \in listening /\ u \in urls
                   THEN Append(feed[r][u], event) ELSE feed[r][u]]]
    /\ UNCHANGED listening

\* register_agent: HSET, ZADD, SET.
Register(p) ==
    /\ registry' = [registry EXCEPT ![UrlOf[p]] = p]
    /\ heartbeats' = [heartbeats EXCEPT ![UrlOf[p]] = "fresh"]
    /\ markers' = markers \union {UrlOf[p]}
    /\ Publish({UrlOf[p]}, "add")

\* Variant: the marker is deleted in a request of its own, which gets lost.
RemoveKeepingMarkers(urls) ==
    /\ registry' = [u \in Url |-> IF u \in urls THEN NoAgent ELSE registry[u]]
    /\ heartbeats' = [u \in Url |-> IF u \in urls THEN "none" ELSE heartbeats[u]]
    /\ UNCHANGED <<markers, feed, listening>>

\* unregister_agent and the batch of cleanup_expired: HDEL, ZREM, DEL.
Remove(urls) ==
    /\ registry' = [u \in Url |-> IF u \in urls THEN NoAgent ELSE registry[u]]
    /\ heartbeats' = [u \in Url |-> IF u \in urls THEN "none" ELSE heartbeats[u]]
    /\ markers' = markers \ urls
    /\ Publish(urls \intersect markers, "remove")

\* _update_heartbeats: ZADD alone.
Beat(u) ==
    /\ heartbeats' = [heartbeats EXCEPT ![u] = "fresh"]
    /\ UNCHANGED <<registry, markers, feed, listening>>

\* Thirty seconds without a heartbeat have passed.
Expire(u) ==
    /\ heartbeats[u] = "fresh"
    /\ heartbeats' = [heartbeats EXCEPT ![u] = "stale"]
    /\ UNCHANGED <<registry, markers, feed, listening>>

\* Redis restarts without its data and drops its connections.
Wiped ==
    /\ registry' = [u \in Url |-> NoAgent]
    /\ heartbeats' = [u \in Url |-> "none"]
    /\ markers' = {}
    /\ listening' = {}
    /\ UNCHANGED feed

(***************************************************************************)
(* The structures agree: an url is in the hash exactly when its marker     *)
(* exists, and then it has a heartbeat.  (cleanup_expired depends on it: a *)
(* registered url without a heartbeat would end every pass with the        *)
(* TypeError of fromtimestamp(None), and nothing would ever be cleaned;    *)
(* without the marker its removal would be notified to nobody.)            *)
(***************************************************************************)
RedisConsistent ==
    \A u \in Url :
        /\ Registered(u) <=> u \in markers
        /\ Registered(u) => heartbeats[u] # "none"

=============================================================================
