---------------------------- MODULE AgentRegistry ----------------------------
(***************************************************************************)
(* Agents that register themselves (expert-agent/agent/redis_registry.py,  *)
(* server.py) and the registry that lists them (agent-registry): its       *)
(* cleanup thread, its listener thread, the list both of them write, and   *)
(* the documents through which agents are searched.                        *)
(*                                                                         *)
(* An agent process serves one url; two processes may serve the same one,  *)
(* as the old and the new pod of a rolling update do.                      *)
(***************************************************************************)
EXTENDS Naturals, AgentStore

CONSTANTS
    NoJob,       \* the listener waits for a message
    FaultKinds,  \* the faults that may happen, see FaultKind
    MaxFaults,   \* bound on the number of faults
    MaxStarts    \* bound on the number of process starts

\* redis: a request of an agent or of a cleaner fails; read: one of a listener;
\* stall: an agent does not beat for 30 seconds; vector: data-services fails;
\* disconnect: a subscription ends; restart: a registry server does; wipe:
\* Redis loses its data; switch: a thread switch within a list rewrite.
FaultKind == {"crash", "redis", "read", "stall", "vector", "disconnect",
              "restart", "wipe", "switch"}

\* A notification in the listener's hands; card: what get_agent returned.
\* Only an agent that was found gets as far as the callback.
Job == {j \in [stage : {"update", "callback"}, event : Event, url : Url, card : Card] :
          j.stage = "callback" /\ j.event = "add" => j.card # NoAgent}

ASSUME AgentRegistryAssumption ==
    /\ NoJob \notin Job
    /\ FaultKinds \subseteq FaultKind
    /\ MaxFaults \in Nat
    /\ MaxStarts \in Nat

VARIABLES
    proc,       \* process -> what it is doing
    heartbeat,  \* process -> where its heartbeat thread is
    agents,     \* replica -> the list in memory: url -> card, or NoAgent
    copies,     \* replica -> thread -> the list it is rewriting, if interrupted
    job,        \* replica -> what its listener thread is processing, or NoJob
    cleaner,    \* replica -> where its cleanup thread is
    toCheck,    \* replica -> urls the pass has still to check
    expired,    \* replica -> urls the pass found expired
    docs,       \* url -> cards of the documents with this agent_url
    faults,     \* number of faults so far
    happened,   \* their kinds
    starts      \* process starts so far

agentVars == <<proc, heartbeat>>
listVars == <<agents, copies>>
cleanerVars == <<cleaner, toCheck, expired>>
boundVars == <<faults, happened, starts>>
vars == <<storeVars, agentVars, listVars, job, cleanerVars, docs, boundVars>>

Listing == [Url -> Card]
Thread == {"listener", "cleaner"}
NoCopies == [t \in Thread |-> {}]

TypeOK ==
    /\ StoreTypeOK
    /\ proc \in [Process -> {"down", "up", "stopping", "exiting", "exited"}]
    /\ heartbeat \in [Process -> {"off", "sleep", "recover", "beat"}]
    /\ agents \in [Replica -> Listing]
    /\ copies \in [Replica -> [Thread -> SUBSET Listing]]
    /\ job \in [Replica -> Job \union {NoJob}]
    /\ cleaner \in [Replica -> {"sleep", "check", "update"}]
    /\ toCheck \in [Replica -> SUBSET Url]
    /\ expired \in [Replica -> SUBSET Url]
    /\ docs \in [Url -> SUBSET Process]
    /\ faults \in Nat /\ happened \subseteq FaultKinds /\ starts \in Nat

Init ==
    /\ StoreInit
    /\ proc = [p \in Process |-> "down"]
    /\ heartbeat = [p \in Process |-> "off"]
    /\ agents = [r \in Replica |-> registry]
    /\ copies = [r \in Replica |-> NoCopies]
    /\ job = [r \in Replica |-> NoJob]
    /\ cleaner = [r \in Replica |-> "sleep"]
    /\ toCheck = [r \in Replica |-> {}]
    /\ expired = [r \in Replica |-> {}]
    /\ docs = [u \in Url |-> {}]
    /\ faults = 0 /\ happened = {} /\ starts = 0

\* A fault is counted, and remembered by its kind.
Strike(kind) ==
    /\ kind \in FaultKinds
    /\ faults < MaxFaults
    /\ faults' = faults + 1
    /\ happened' = happened \union {kind}

Fault(kind) == Strike(kind) /\ UNCHANGED starts

\* A pipeline that raised: the transaction was executed, or was not.
Raised(pipeline) == pipeline \/ UNCHANGED storeVars

(***************************************************************************)
(* Agent processes                                                         *)
(***************************************************************************)

AgentUnchanged == UNCHANGED <<listVars, job, cleanerVars, docs>>

\* main registers before it serves; the heartbeat thread only starts if that
\* succeeded.
Start(p) ==
    /\ proc[p] = "down" /\ starts < MaxStarts
    /\ starts' = starts + 1
    /\ proc' = [proc EXCEPT ![p] = "up"]
    /\ \/ /\ Register(p)
          /\ heartbeat' = [heartbeat EXCEPT ![p] = "sleep"]
          /\ UNCHANGED <<faults, happened>>
       \/ /\ Raised(Register(p))
          /\ Strike("redis")
          /\ UNCHANGED heartbeat
    /\ AgentUnchanged

\* Variant: the heartbeat thread does not look whether it is registered.
BlindHeartbeatCheck(p) ==
    /\ heartbeat[p] = "sleep"
    /\ heartbeat' = [heartbeat EXCEPT ![p] = "beat"]
    /\ UNCHANGED <<storeVars, proc, boundVars>>
    /\ AgentUnchanged

\* _check_and_recover_registration, first request: every 30 seconds.
HeartbeatCheck(p) ==
    /\ heartbeat[p] = "sleep"
    /\ heartbeat' = [heartbeat EXCEPT ![p] =
                        IF Registered(UrlOf[p]) THEN "beat" ELSE "recover"]
    /\ UNCHANGED <<storeVars, proc, boundVars>>
    /\ AgentUnchanged

\* Second request: the url was missing, and is registered again.
HeartbeatRecover(p) ==
    /\ heartbeat[p] = "recover"
    /\ Register(p)
    /\ heartbeat' = [heartbeat EXCEPT ![p] = "beat"]
    /\ UNCHANGED <<proc, boundVars>>
    /\ AgentUnchanged

\* _update_heartbeats: after a check, or without one, every 10 seconds.
HeartbeatBeat(p) ==
    /\ heartbeat[p] \in {"sleep", "beat"}
    /\ Beat(UrlOf[p])
    /\ heartbeat' = [heartbeat EXCEPT ![p] = "sleep"]
    /\ UNCHANGED <<proc, boundVars>>
    /\ AgentUnchanged

\* Each of the three requests may fail; the thread goes on to the next.
HeartbeatFails(p) ==
    /\ heartbeat[p] # "off"
    /\ Fault("redis")
    /\ heartbeat' = [heartbeat EXCEPT ![p] = IF @ = "beat" THEN "sleep" ELSE "beat"]
    /\ IF heartbeat[p] = "recover" THEN Raised(Register(p)) ELSE UNCHANGED storeVars
    /\ UNCHANGED proc
    /\ AgentUnchanged

\* SIGTERM; the web server winds down, the heartbeat thread goes on.
Terminate(p) ==
    /\ proc[p] = "up"
    /\ proc' = [proc EXCEPT ![p] = "stopping"]
    /\ UNCHANGED <<storeVars, heartbeat, boundVars>>
    /\ AgentUnchanged

AfterUnregister(p) ==
    proc' = [proc EXCEPT ![p] = IF @ = "stopping" THEN "exiting" ELSE "exited"]

\* graceful_shutdown: by the signal handler, which the web server raises again
\* when it is done, and then by atexit.
Unregister(p) ==
    /\ proc[p] \in {"stopping", "exiting"}
    /\ Remove({UrlOf[p]})
    /\ AfterUnregister(p)
    /\ UNCHANGED <<heartbeat, boundVars>>
    /\ AgentUnchanged

UnregisterFails(p) ==
    /\ proc[p] \in {"stopping", "exiting"}
    /\ Fault("redis")
    /\ Raised(Remove({UrlOf[p]}))
    /\ AfterUnregister(p)
    /\ UNCHANGED heartbeat
    /\ AgentUnchanged

Down(p) ==
    /\ proc' = [proc EXCEPT ![p] = "down"]
    /\ heartbeat' = [heartbeat EXCEPT ![p] = "off"]
    /\ UNCHANGED storeVars
    /\ AgentUnchanged

\* The interpreter ends, and its daemon threads with it.
Exit(p) ==
    /\ proc[p] = "exited"
    /\ Down(p)
    /\ UNCHANGED boundVars

Crash(p) ==
    /\ proc[p] # "down"
    /\ Fault("crash")
    /\ Down(p)

(***************************************************************************)
(* Time and Redis                                                          *)
(***************************************************************************)

\* A pass compares with the time it began at: what expires while an url waits
\* to be checked does not count as expired.
Aged(u) ==
    /\ \A r \in Replica : u \notin toCheck[r]
    /\ Expire(u)
    /\ UNCHANGED agentVars
    /\ AgentUnchanged

Age(u) ==
    /\ \A p \in Process : UrlOf[p] = u => heartbeat[p] = "off"
    /\ Aged(u)
    /\ UNCHANGED boundVars

Stall(u) ==
    /\ \E p \in Process : UrlOf[p] = u /\ heartbeat[p] # "off"
    /\ Fault("stall")
    /\ Aged(u)

Wipe ==
    /\ Fault("wipe")
    /\ Wiped
    /\ UNCHANGED agentVars
    /\ AgentUnchanged

(***************************************************************************)
(* The list in memory.  The lock of the class is never taken.              *)
(***************************************************************************)

\* The list a thread rewrites: the copy it began with, or the current one.
Base(r, t) == IF copies[r][t] = {} THEN agents[r] ELSE CHOOSE l \in copies[r][t] : TRUE

Rewrite(r, t, list) ==
    /\ agents' = [agents EXCEPT ![r] = list]
    /\ copies' = [copies EXCEPT ![r][t] = {}]

Without(list, urls) == [u \in Url |-> IF u \in urls THEN NoAgent ELSE list[u]]

Updating(r) == job[r] # NoJob /\ job[r].stage = "update"

\* The thread is interrupted between reading self.agents and rebinding it.
Interrupted(r, t) ==
    /\ copies[r][t] = {}
    /\ CASE t = "cleaner"  -> cleaner[r] = "update"
         [] t = "listener" -> Updating(r) /\ job[r].event = "remove"
    /\ Fault("switch")
    /\ copies' = [copies EXCEPT ![r][t] = {agents[r]}]
    /\ UNCHANGED <<storeVars, agentVars, agents, job, cleanerVars, docs>>

(***************************************************************************)
(* The listener thread: watch_changes                                      *)
(***************************************************************************)

\* listen() returns a message; an added agent is fetched from the hash.
Receive(r, u) ==
    /\ job[r] = NoJob /\ feed[r][u] # <<>>
    /\ feed' = [feed EXCEPT ![r][u] = Tail(@)]
    /\ LET event == Head(feed[r][u]) IN
       job' = [job EXCEPT ![r] =
                 [stage |-> "update", event |-> event, url |-> u,
                  card |-> IF event = "add" THEN registry[u] ELSE NoAgent]]
    /\ UNCHANGED <<registry, heartbeats, markers, listening, agentVars, listVars,
                   cleanerVars, docs, boundVars>>

\* get_agent raises; the notification is dropped with it.
ReceiveFails(r, u) ==
    /\ job[r] = NoJob /\ feed[r][u] # <<>>
    /\ Head(feed[r][u]) = "add"
    /\ Fault("read")
    /\ feed' = [feed EXCEPT ![r][u] = Tail(@)]
    /\ UNCHANGED <<registry, heartbeats, markers, listening, agentVars, listVars,
                   job, cleanerVars, docs>>

\* _update_agents_on_event: an url that is listed keeps its card.
ListUpdated(r) ==
    LET u == job[r].url IN
    CASE job[r].event = "remove" ->
           Rewrite(r, "listener", Without(Base(r, "listener"), {u}))
      [] job[r].event = "add" /\ agents[r][u] = NoAgent ->
           /\ agents' = [agents EXCEPT ![r][u] = job[r].card]
           /\ UNCHANGED copies
      [] OTHER -> UNCHANGED listVars

\* change_logger as far as the vector store; an agent that is gone again has
\* no name to log.
Logged(r, succeeds) ==
    /\ job' = [job EXCEPT ![r] = IF succeeds THEN [@ EXCEPT !.stage = "callback"] ELSE NoJob]
    /\ UNCHANGED <<storeVars, agentVars, cleanerVars, docs, boundVars>>

NamesAgent(r) == job[r].event = "add" => job[r].card # NoAgent

\* Variant: what is removed stays listed until the cleaner runs.
UpdateAgentsOnAdd(r) ==
    /\ Updating(r)
    /\ IF job[r].event = "add" THEN ListUpdated(r) ELSE UNCHANGED listVars
    /\ Logged(r, NamesAgent(r))

\* Variant: the removal of an url that is not in the list is not passed on.
UpdateAgentsIfListed(r) ==
    /\ Updating(r) /\ ListUpdated(r)
    /\ Logged(r, NamesAgent(r) /\ (job[r].event = "remove" =>
                                     agents[r][job[r].url] # NoAgent))

UpdateAgents(r) ==
    Updating(r) /\ ListUpdated(r) /\ Logged(r, NamesAgent(r))

CallbackReturns(r) ==
    /\ job[r] # NoJob /\ job[r].stage = "callback"
    /\ job' = [job EXCEPT ![r] = NoJob]
    /\ UNCHANGED <<storeVars, agentVars, listVars, cleanerVars>>

\* The routes of data-services: documents are added as they come, the one that
\* says the same of the agent being the same text again, and deleted by url.
add_documents_with_vector(u, card) == [docs EXCEPT ![u] = @ \union {card}]
delete_by_metadata_field(u) == [docs EXCEPT ![u] = {}]

add_agent_to_vector_db(r) ==
    /\ job[r].event = "add"
    /\ docs' = add_documents_with_vector(job[r].url, job[r].card)

remove_agent_from_vector_db(r) ==
    /\ job[r].event = "remove"
    /\ docs' = delete_by_metadata_field(job[r].url)

CallbackWrites(r) == add_agent_to_vector_db(r) \/ remove_agent_from_vector_db(r)

Callback(r) == CallbackReturns(r) /\ CallbackWrites(r) /\ UNCHANGED boundVars

\* Their errors are logged and forgotten; a request whose answer was lost, or
\* not waited for, was served.
CallbackFails(r) ==
    /\ CallbackReturns(r)
    /\ Fault("vector")
    /\ CallbackWrites(r) \/ UNCHANGED docs

\* The server stops publishing to r; what r has buffered it still reads.
Disconnect(r) ==
    /\ r \in listening
    /\ Fault("disconnect")
    /\ listening' = listening \ {r}
    /\ UNCHANGED <<registry, heartbeats, markers, feed, agentVars, listVars, job,
                   cleanerVars, docs>>

\* The listener subscribes; it does not load the agents again.
Connect(r) ==
    /\ r \notin listening /\ job[r] = NoJob
    /\ listening' = listening \union {r}
    /\ feed' = [feed EXCEPT ![r] = NoFeed]
    /\ UNCHANGED <<registry, heartbeats, markers, agentVars, listVars, job,
                   cleanerVars, docs, boundVars>>

\* A registry server starts again: it loads the list, then starts its threads.
Restart(r) ==
    /\ Fault("restart")
    /\ agents' = [agents EXCEPT ![r] = registry]
    /\ copies' = [copies EXCEPT ![r] = NoCopies]
    /\ job' = [job EXCEPT ![r] = NoJob]
    /\ listening' = listening \ {r}
    /\ cleaner' = [cleaner EXCEPT ![r] = "sleep"]
    /\ toCheck' = [toCheck EXCEPT ![r] = {}]
    /\ expired' = [expired EXCEPT ![r] = {}]
    /\ UNCHANGED <<registry, heartbeats, markers, feed, agentVars, docs>>

(***************************************************************************)
(* The cleanup thread: cleanup_expired                                     *)
(***************************************************************************)

CleanerUnchanged == UNCHANGED <<agentVars, job, docs>>

EndPass(r) ==
    /\ cleaner' = [cleaner EXCEPT ![r] = "sleep"]
    /\ toCheck' = [toCheck EXCEPT ![r] = {}]
    /\ expired' = [expired EXCEPT ![r] = {}]

\* Variant: only the urls of the hash are checked.
StartPassOverRegistry(r) ==
    /\ cleaner[r] = "sleep"
    /\ cleaner' = [cleaner EXCEPT ![r] = "check"]
    /\ toCheck' = [toCheck EXCEPT ![r] = {u \in Url : Registered(u)}]
    /\ UNCHANGED <<storeVars, listVars, expired, boundVars>>
    /\ CleanerUnchanged

\* The urls of the hash and of the heartbeats.
StartPass(r) ==
    /\ cleaner[r] = "sleep"
    /\ cleaner' = [cleaner EXCEPT ![r] = "check"]
    /\ toCheck' = [toCheck EXCEPT ![r] =
                      {u \in Url : Registered(u) \/ heartbeats[u] # "none"}]
    /\ UNCHANGED <<storeVars, listVars, expired, boundVars>>
    /\ CleanerUnchanged

\* One zscore.  The heartbeat of an url that has gone since is None, and
\* fromtimestamp(None) ends the pass.
CheckUrl(r, u) ==
    /\ u \in toCheck[r]
    /\ IF heartbeats[u] = "none"
       THEN EndPass(r)
       ELSE /\ toCheck' = [toCheck EXCEPT ![r] = @ \ {u}]
            /\ expired' = [expired EXCEPT ![r] =
                              IF heartbeats[u] = "stale" THEN @ \union {u} ELSE @]
            /\ UNCHANGED cleaner
    /\ UNCHANGED <<storeVars, listVars, boundVars>>
    /\ CleanerUnchanged

NothingExpired(r) ==
    /\ cleaner[r] = "check" /\ toCheck[r] = {} /\ expired[r] = {}
    /\ EndPass(r)
    /\ UNCHANGED <<storeVars, listVars, boundVars>>
    /\ CleanerUnchanged

\* The batch of cleanup_expired.
RemoveExpired(r) ==
    /\ cleaner[r] = "check" /\ toCheck[r] = {} /\ expired[r] # {}
    /\ Remove(expired[r])
    /\ cleaner' = [cleaner EXCEPT ![r] = "update"]
    /\ UNCHANGED <<listVars, toCheck, expired, boundVars>>
    /\ CleanerUnchanged

\* "Update the in-memory agents list (ensuring consistency)."
UpdateList(r) ==
    /\ cleaner[r] = "update"
    /\ Rewrite(r, "cleaner", Without(Base(r, "cleaner"), expired[r]))
    /\ EndPass(r)
    /\ UNCHANGED <<storeVars, boundVars>>
    /\ CleanerUnchanged

\* A request of the pass raises: the thread sleeps and begins another pass.
PassFails(r) ==
    /\ cleaner[r] = "check"
    /\ Fault("redis")
    /\ IF toCheck[r] = {} /\ expired[r] # {}
       THEN Raised(Remove(expired[r])) ELSE UNCHANGED storeVars
    /\ EndPass(r)
    /\ UNCHANGED listVars
    /\ CleanerUnchanged

(***************************************************************************)
(* The specification                                                       *)
(***************************************************************************)

Agent(p) ==
    \/ Start(p) \/ Terminate(p) \/ Unregister(p) \/ UnregisterFails(p)
    \/ Exit(p) \/ Crash(p)
    \/ HeartbeatCheck(p) \/ HeartbeatRecover(p) \/ HeartbeatBeat(p) \/ HeartbeatFails(p)

Listener(r) ==
    \/ \E u \in Url : Receive(r, u) \/ ReceiveFails(r, u)
    \/ UpdateAgents(r) \/ Callback(r) \/ CallbackFails(r)
    \/ Disconnect(r) \/ Connect(r)

Cleaner(r) ==
    \/ StartPass(r) \/ NothingExpired(r) \/ RemoveExpired(r) \/ UpdateList(r) \/ PassFails(r)
    \/ \E u \in Url : CheckUrl(r, u)

Next ==
    \/ \E p \in Process : Agent(p)
    \/ \E r \in Replica : Listener(r) \/ Cleaner(r) \/ Restart(r)
    \/ \E r \in Replica, t \in Thread : Interrupted(r, t)
    \/ \E u \in Url : Age(u) \/ Stall(u)
    \/ Wipe

Spec == Init /\ [][Next]_vars

\* What the code's scheduling provides: the heartbeat threads run on, a process
\* that was told to stop does, listeners reconnect and read what arrives,
\* cleaners wake up every minute and go through their pass.  Age is disabled
\* while a pass runs, and enabled again after it: it needs strong fairness.
Fairness ==
    /\ \A p \in Process :
        /\ WF_vars(HeartbeatCheck(p)) /\ WF_vars(HeartbeatRecover(p))
        /\ WF_vars(HeartbeatBeat(p))
        /\ WF_vars(Unregister(p)) /\ WF_vars(Exit(p))
    /\ \A r \in Replica :
        /\ WF_vars(UpdateAgents(r)) /\ WF_vars(Callback(r)) /\ WF_vars(Connect(r))
        /\ WF_vars(StartPass(r)) /\ WF_vars(NothingExpired(r))
        /\ WF_vars(RemoveExpired(r)) /\ WF_vars(UpdateList(r))
        /\ \A u \in Url : WF_vars(Receive(r, u)) /\ WF_vars(CheckUrl(r, u))
    /\ \A u \in Url : SF_vars(Age(u))

FairSpec == Spec /\ Fairness

(***************************************************************************)
(* Properties                                                              *)
(***************************************************************************)

\* No fault of these kinds has happened so far.
Spared(kinds) == happened \intersect kinds = {}

SteadyFaults == Spared({"disconnect", "restart", "wipe", "switch"})

AllNotified == Spared({"disconnect", "restart", "wipe", "read", "vector"})

\* Replica r has processed everything that happened.
AtRest(r) ==
    /\ r \in listening
    /\ feed[r] = NoFeed /\ job[r] = NoJob
    /\ cleaner[r] = "sleep"

(***************************************************************************)
(* The list has no ghosts: when a registry is at rest, an url it lists     *)
(* (get_agents) is registered in Redis, however registrations,             *)
(* unregistrations, recoveries and cleanups overlapped.  It depends on the *)
(* subscription being there from the beginning, and on list rewrites       *)
(* that are not interleaved.                                               *)
(***************************************************************************)
NoGhosts ==
    SteadyFaults =>
        \A r \in Replica : AtRest(r) =>
            \A u \in Url : agents[r][u] # NoAgent => Registered(u)

\* The documents of u are those of a registered agent, or none.
Indexed(u) == IF Registered(u) THEN registry[u] \in docs[u] ELSE docs[u] = {}

(***************************************************************************)
(* Search finds exactly the registered agents: when all registries are at  *)
(* rest, the url of an agent has documents exactly when it is registered,  *)
(* and the registered card is among them, although the card is read some   *)
(* time after the notification and written some time after it was read.    *)
(***************************************************************************)
SearchMatches ==
    AllNotified =>
        ((\A r \in Replica : AtRest(r)) => \A u \in Url : Indexed(u))

(***************************************************************************)
(* "Update the in-memory agents list (ensuring consistency)",              *)
(* agent_registry/redis_registry.py:158: when a registry is at rest, a     *)
(* registered agent is in its list.                                        *)
(***************************************************************************)
ListComplete ==
    \A r \in Replica : AtRest(r) =>
        \A u \in Url : Registered(u) => agents[r][u] # NoAgent

(***************************************************************************)
(* An agent that goes on running is registered for good in the end,        *)
(* whatever expired, was cleaned or lost in between: its heartbeat thread  *)
(* registers it again.  Its documents follow where no notification is lost *)
(* and data-services answers.                                              *)
(***************************************************************************)
LiveAgentsStayRegistered ==
    \A p \in Process :
        <>[](heartbeat[p] # "off") =>
            <>[](/\ Registered(UrlOf[p])
                 /\ AllNotified => docs[UrlOf[p]] # {})

(***************************************************************************)
(* When no process serves an url any more, everything about it is gone in  *)
(* the end: card and heartbeat (one may be written after the agent         *)
(* unregistered), list entries where the subscriptions last, and documents *)
(* where besides data-services answers.                                    *)
(***************************************************************************)
DeadAgentsGo ==
    \A u \in Url :
        <>[](\A p \in Process : UrlOf[p] = u => proc[p] = "down") =>
            <>[](/\ ~Registered(u) /\ heartbeats[u] = "none"
                 /\ AllNotified => docs[u] = {}
                 /\ SteadyFaults => \A r \in Replica : agents[r][u] = NoAgent)

(***************************************************************************)
(* The inductive invariant behind NoGhosts and SearchMatches               *)
(***************************************************************************)

\* The subscriptions last, and no list rewrite is interrupted.
Steady == listening = Replica /\ copies = [r \in Replica |-> NoCopies]

Last(s) == s[Len(s)]

\* Replica r is about to take u off its list, or to put it on.
Removing(r, u) == Updating(r) /\ job[r].url = u /\ job[r].event = "remove"
Adding(r, u) == Updating(r) /\ job[r].url = u /\ job[r].event = "add" /\ job[r].card # NoAgent

\* What a replica has still to read about an url that is not registered ends
\* with its removal; and when nothing is left to read, the removal is being
\* processed, or the url is not listed and nobody is going to list it.
RemovalComes(r, u) ==
    IF feed[r][u] # <<>>
    THEN Last(feed[r][u]) = "remove"
    ELSE Removing(r, u) \/ (agents[r][u] = NoAgent /\ ~Adding(r, u))

RemovalsInv == \A r \in Replica, u \in Url : ~Registered(u) => RemovalComes(r, u)

\* Replica r is about to delete the documents of u, or to write one.
Deleting(r, u) == job[r] # NoJob /\ job[r].url = u /\ job[r].event = "remove"
Writing(r, u) ==
    job[r] # NoJob /\ job[r].url = u /\ job[r].event = "add" /\ job[r].card # NoAgent

\* The last that a replica is told about u is how u is registered now.
LastNews(r, u) ==
    IF feed[r][u] # <<>>
    THEN Last(feed[r][u]) = IF Registered(u) THEN "add" ELSE "remove"
    ELSE IF Registered(u) THEN ~Deleting(r, u) ELSE ~Writing(r, u)

\* Replica r has still to do what makes the documents of u right.
Indexing(r, u) ==
    \/ feed[r][u] # <<>>
    \/ IF Registered(u) THEN Writing(r, u) /\ job[r].card = registry[u] ELSE Deleting(r, u)

SearchInv ==
    \A u \in Url :
        /\ \A r \in Replica : LastNews(r, u)
        /\ Indexed(u) \/ \E r \in Replica : Indexing(r, u)

IInv ==
    /\ TypeOK
    /\ RedisConsistent
    /\ SteadyFaults => Steady /\ RemovalsInv
    /\ AllNotified => listening = Replica /\ SearchInv

=============================================================================
