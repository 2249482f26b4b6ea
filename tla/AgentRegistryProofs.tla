------------------------ MODULE AgentRegistryProofs ------------------------
(***************************************************************************)
(* Proofs about AgentStore and AgentRegistry, for any numbers of agents,   *)
(* urls, registries, faults and starts.                                    *)
(*                                                                         *)
(* First what each pipeline does to the shared structures, then types,     *)
(* then the notifications that a removal leaves behind (RemovalsInv),      *)
(* which is what keeps ghosts off the lists.                               *)
(***************************************************************************)
EXTENDS AgentRegistry, TLAPS

(***************************************************************************)
(* Feeds                                                                   *)
(***************************************************************************)

LEMMA FeedAppend ==
    ASSUME NEW s \in Seq(Event), NEW e \in Event
    PROVE  /\ Append(s, e) \in Seq(Event)
           /\ Append(s, e) # <<>>
           /\ Last(Append(s, e)) = e
  BY DEF Last

LEMMA FeedTail ==
    ASSUME NEW s \in Seq(Event), s # <<>>
    PROVE  /\ Head(s) \in Event /\ Tail(s) \in Seq(Event)
           /\ Tail(s) = <<>> => Head(s) = Last(s)
           /\ Tail(s) # <<>> => Last(Tail(s)) = Last(s)
  <1>1. Len(s) \in Nat /\ Len(s) > 0 /\ Len(Tail(s)) = Len(s) - 1
    OBVIOUS
  <1>2. Tail(s) = <<>> => Len(s) = 1
    BY <1>1
  <1>3. Head(s) = s[1] /\ Head(s) \in Event /\ Tail(s) \in Seq(Event)
    OBVIOUS
  <1>4. Tail(s) # <<>> => Last(Tail(s)) = Last(s)
    BY <1>1 DEF Last
  <1> QED
    BY <1>2, <1>3, <1>4 DEF Last

\* What a pipeline's notifications do to the feeds.
LEMMA PublishFeeds ==
    ASSUME StoreTypeOK, NEW urls, NEW event \in Event, Publish(urls, event)
    PROVE  /\ feed' \in [Replica -> [Url -> Seq(Event)]]
           /\ \A r \in Replica, u \in Url :
                feed'[r][u] = IF r \in listening /\ u \in urls
                              THEN Append(feed[r][u], event) ELSE feed[r][u]
  <1>1. \A r \in Replica, u \in Url : Append(feed[r][u], event) \in Seq(Event)
    BY FeedAppend DEF StoreTypeOK
  <1> QED
    BY <1>1 DEF Publish, StoreTypeOK

(***************************************************************************)
(* The pipelines keep the types and RedisConsistent                        *)
(***************************************************************************)

LEMMA RegisterStore ==
    ASSUME StoreTypeOK, RedisConsistent, NEW p \in Process, Register(p)
    PROVE  StoreTypeOK' /\ RedisConsistent'
  <1>1. UrlOf[p] \in Url /\ p \in Card /\ p # NoAgent
    BY AgentStoreAssumption DEF Card
  <1>2. feed' \in [Replica -> [Url -> Seq(Event)]] /\ listening' \subseteq Replica
    BY PublishFeeds DEF Register, Publish, Event, StoreTypeOK
  <1>3. /\ registry' \in [Url -> Card]
        /\ heartbeats' \in [Url -> {"none", "fresh", "stale"}]
        /\ markers' \subseteq Url
    BY <1>1 DEF Register, StoreTypeOK
  <1>4. RedisConsistent'
    BY <1>1, <1>3 DEF Register, RedisConsistent, Registered, StoreTypeOK
  <1> QED
    BY <1>2, <1>3, <1>4 DEF StoreTypeOK

LEMMA RemoveStore ==
    ASSUME StoreTypeOK, RedisConsistent, NEW urls, Remove(urls)
    PROVE  StoreTypeOK' /\ RedisConsistent'
  <1>1. feed' \in [Replica -> [Url -> Seq(Event)]] /\ listening' \subseteq Replica
    BY PublishFeeds DEF Remove, Publish, Event, StoreTypeOK
  <1>2. /\ registry' \in [Url -> Card]
        /\ heartbeats' \in [Url -> {"none", "fresh", "stale"}]
        /\ markers' \subseteq Url
    BY DEF Remove, StoreTypeOK, Card
  <1>3. RedisConsistent'
    BY DEF Remove, RedisConsistent, Registered, StoreTypeOK
  <1> QED
    BY <1>1, <1>2, <1>3 DEF StoreTypeOK

LEMMA BeatStore ==
    ASSUME StoreTypeOK, RedisConsistent, NEW u \in Url, Beat(u) \/ Expire(u)
    PROVE  StoreTypeOK' /\ RedisConsistent'
  BY DEF Beat, Expire, StoreTypeOK, RedisConsistent, Registered

LEMMA WipedStore ==
    ASSUME StoreTypeOK, Wiped
    PROVE  StoreTypeOK' /\ RedisConsistent'
  BY DEF Wiped, StoreTypeOK, RedisConsistent, Registered, Card

LEMMA SameStore ==
    ASSUME StoreTypeOK, RedisConsistent, UNCHANGED storeVars
    PROVE  StoreTypeOK' /\ RedisConsistent'
  BY DEF storeVars, StoreTypeOK, RedisConsistent, Registered

(***************************************************************************)
(* Types                                                                   *)
(***************************************************************************)

LEMMA InitTypes == Init => TypeOK /\ RedisConsistent
  <1> SUFFICES ASSUME Init PROVE TypeOK /\ RedisConsistent
    OBVIOUS
  <1>1. <<>> \in Seq(Event)
    OBVIOUS
  <1>2. StoreTypeOK
    BY <1>1 DEF Init, StoreInit, StoreTypeOK, NoFeed, Card
  <1>3. RedisConsistent
    BY DEF Init, StoreInit, RedisConsistent, Registered
  <1>4. agents \in [Replica -> Listing] /\ copies \in [Replica -> [Thread -> SUBSET Listing]]
    BY <1>2 DEF Init, StoreTypeOK, Listing, NoCopies
  <1>5. faults \in Nat /\ happened \subseteq FaultKinds /\ starts \in Nat
    BY DEF Init
  <1> QED
    BY <1>2, <1>3, <1>4, <1>5 DEF Init, TypeOK

\* Every fault is counted.
LEMMA FaultType ==
    ASSUME TypeOK, NEW kind, Fault(kind)
    PROVE  faults' \in Nat /\ happened' \subseteq FaultKinds /\ starts' \in Nat
  BY DEF Fault, Strike, TypeOK

LEMMA AgentTypes ==
    ASSUME TypeOK, RedisConsistent, NEW p \in Process, Agent(p)
    PROVE  TypeOK' /\ RedisConsistent'
  <1> USE DEF TypeOK, AgentUnchanged
  <1>1. AgentUnchanged
    BY DEF Agent, Start, HeartbeatCheck, HeartbeatRecover, HeartbeatBeat, HeartbeatFails,
           Terminate, Unregister, UnregisterFails, Exit, Crash, Down
  <1>2. StoreTypeOK' /\ RedisConsistent'
    <2>1. UrlOf[p] \in Url
      BY AgentStoreAssumption
    <2>2. Register(p) \/ Remove({UrlOf[p]}) \/ Beat(UrlOf[p]) \/ UNCHANGED storeVars
      BY DEF Agent, Start, HeartbeatCheck, HeartbeatRecover, HeartbeatBeat, HeartbeatFails,
             Terminate, Unregister, UnregisterFails, Exit, Crash, Down, Raised
    <2> QED
      BY <2>1, <2>2, RegisterStore, RemoveStore, BeatStore, SameStore
  <1>3. faults' \in Nat /\ happened' \subseteq FaultKinds /\ starts' \in Nat
    <2>1. faults + 1 \in Nat /\ starts + 1 \in Nat
      OBVIOUS
    <2> QED
      BY <2>1 DEF Agent, Start, HeartbeatCheck, HeartbeatRecover, HeartbeatBeat,
             HeartbeatFails, Terminate, Unregister, UnregisterFails, Exit, Crash,
             Fault, Strike, boundVars
  <1>4. /\ proc' \in [Process -> {"down", "up", "stopping", "exiting", "exited"}]
        /\ heartbeat' \in [Process -> {"off", "sleep", "recover", "beat"}]
    <2>1. CASE Start(p) \/ Terminate(p)
      BY <2>1, ZenonT(60) DEF Start, Terminate
    <2>2. CASE Unregister(p) \/ UnregisterFails(p)
      BY <2>2 DEF Unregister, UnregisterFails, AfterUnregister
    <2>3. CASE Exit(p) \/ Crash(p)
      <3>1. Down(p)
        BY <2>3 DEF Exit, Crash
      <3> QED
        BY <3>1 DEF Down
    <2>4. CASE \/ HeartbeatCheck(p) \/ HeartbeatRecover(p) \/ HeartbeatBeat(p)
               \/ HeartbeatFails(p)
      BY <2>4 DEF HeartbeatCheck, HeartbeatRecover, HeartbeatBeat, HeartbeatFails
    <2> QED
      BY <2>1, <2>2, <2>3, <2>4 DEF Agent
  <1> QED
    BY <1>1, <1>2, <1>3, <1>4 DEF listVars, cleanerVars

\* The list a thread rewrites is a list, interrupted or not.
LEMMA BaseType ==
    ASSUME TypeOK, NEW r \in Replica, NEW t \in Thread
    PROVE  Base(r, t) \in Listing
  <1>1. copies[r][t] \subseteq Listing /\ agents[r] \in Listing
    BY DEF TypeOK
  <1> QED
    BY <1>1 DEF Base

LEMMA RewriteType ==
    ASSUME TypeOK, NEW r \in Replica, NEW t \in Thread, NEW urls,
           Rewrite(r, t, Without(Base(r, t), urls))
    PROVE  /\ agents' \in [Replica -> Listing]
           /\ copies' \in [Replica -> [Thread -> SUBSET Listing]]
  <1>1. Without(Base(r, t), urls) \in Listing
    BY BaseType DEF Without, Listing, Card
  <1>2. agents' \in [Replica -> Listing]
    BY <1>1 DEF Rewrite, TypeOK
  <1>3. copies' = [copies EXCEPT ![r] = [copies[r] EXCEPT ![t] = {}]]
    BY DEF Rewrite, TypeOK
  <1>4. [copies[r] EXCEPT ![t] = {}] \in [Thread -> SUBSET Listing]
    BY DEF TypeOK
  <1> QED
    BY <1>2, <1>3, <1>4 DEF TypeOK

LEMMA CleanerTypes ==
    ASSUME TypeOK, RedisConsistent, NEW r \in Replica, Cleaner(r)
    PROVE  TypeOK' /\ RedisConsistent'
  <1>1. CleanerUnchanged
    BY DEF Cleaner, StartPass, CheckUrl, NothingExpired, RemoveExpired, UpdateList, PassFails
  <1>2. StoreTypeOK' /\ RedisConsistent'
    <2>1. Remove(expired[r]) \/ UNCHANGED storeVars
      BY DEF Cleaner, StartPass, CheckUrl, NothingExpired, RemoveExpired, UpdateList,
             PassFails, Raised
    <2> QED
      BY <2>1, RemoveStore, SameStore DEF TypeOK
  <1>3. faults' \in Nat /\ happened' \subseteq FaultKinds /\ starts' \in Nat
    <2>1. faults + 1 \in Nat
      BY DEF TypeOK
    <2> QED
      BY <2>1 DEF Cleaner, StartPass, CheckUrl, NothingExpired, RemoveExpired, UpdateList,
                  PassFails, Fault, Strike, boundVars, TypeOK
  <1>4. /\ agents' \in [Replica -> Listing]
        /\ copies' \in [Replica -> [Thread -> SUBSET Listing]]
    <2>1. CASE UpdateList(r)
      BY <2>1, RewriteType DEF UpdateList, Thread
    <2>2. CASE ~UpdateList(r)
      BY <2>2 DEF Cleaner, StartPass, CheckUrl, NothingExpired, RemoveExpired, PassFails,
                  listVars, TypeOK
    <2> QED
      BY <2>1, <2>2
  <1>5. /\ cleaner' \in [Replica -> {"sleep", "check", "update"}]
        /\ toCheck' \in [Replica -> SUBSET Url]
        /\ expired' \in [Replica -> SUBSET Url]
    <2>1. CASE EndPass(r)
      BY <2>1 DEF EndPass, TypeOK
    <2>2. CASE \E u \in Url : CheckUrl(r, u) /\ ~EndPass(r)
      BY <2>2 DEF CheckUrl, TypeOK
    <2>3. CASE StartPass(r)
      BY <2>3 DEF StartPass, TypeOK
    <2>4. CASE RemoveExpired(r)
      BY <2>4 DEF RemoveExpired, TypeOK
    <2> QED
      BY <2>1, <2>2, <2>3, <2>4 DEF Cleaner, NothingExpired, UpdateList, PassFails
  <1> QED
    BY <1>1, <1>2, <1>3, <1>4, <1>5 DEF CleanerUnchanged, agentVars, TypeOK

\* What the listener fetched fits what it was told.
LEMMA ReceivedType ==
    ASSUME TypeOK, NEW r \in Replica, NEW u \in Url, Receive(r, u)
    PROVE  job' \in [Replica -> Job \union {NoJob}]
  <1>1. Head(feed[r][u]) \in Event
    BY FeedTail DEF Receive, TypeOK, StoreTypeOK
  <1>2. registry[u] \in Card /\ NoAgent \in Card
    BY DEF TypeOK, StoreTypeOK, Card
  <1> QED
    BY <1>1, <1>2 DEF Receive, TypeOK, Job

\* Reading changes the feeds of one replica, and nothing else in Redis.
LEMMA FeedRead ==
    ASSUME TypeOK, RedisConsistent, NEW r \in Replica, NEW u \in Url, feed[r][u] # <<>>,
           feed' = [feed EXCEPT ![r][u] = Tail(@)],
           UNCHANGED <<registry, heartbeats, markers, listening>>
    PROVE  StoreTypeOK' /\ RedisConsistent'
  <1>1. Tail(feed[r][u]) \in Seq(Event)
    BY FeedTail DEF TypeOK, StoreTypeOK
  <1>2. feed' = [feed EXCEPT ![r] = [feed[r] EXCEPT ![u] = Tail(feed[r][u])]]
    BY DEF TypeOK, StoreTypeOK
  <1>3. [feed[r] EXCEPT ![u] = Tail(feed[r][u])] \in [Url -> Seq(Event)]
    BY <1>1 DEF TypeOK, StoreTypeOK
  <1>4. feed' \in [Replica -> [Url -> Seq(Event)]]
    BY <1>2, <1>3 DEF TypeOK, StoreTypeOK
  <1> QED
    BY <1>4 DEF TypeOK, StoreTypeOK, RedisConsistent, Registered

LEMMA ListenerTypes ==
    ASSUME TypeOK, RedisConsistent, NEW r \in Replica, Listener(r)
    PROVE  TypeOK' /\ RedisConsistent'
  <1>1. CASE \E u \in Url : Receive(r, u)
    <2>1. PICK u \in Url : Receive(r, u)
      BY <1>1
    <2>2. StoreTypeOK' /\ RedisConsistent'
      BY <2>1, FeedRead DEF Receive
    <2> QED
      BY <2>1, <2>2, ReceivedType
         DEF Receive, TypeOK, agentVars, listVars, cleanerVars, boundVars
  <1>2. CASE \E u \in Url : ReceiveFails(r, u)
    <2>1. PICK u \in Url : ReceiveFails(r, u)
      BY <1>2
    <2>2. StoreTypeOK' /\ RedisConsistent'
      BY <2>1, FeedRead DEF ReceiveFails
    <2>3. faults' \in Nat /\ happened' \subseteq FaultKinds /\ starts' \in Nat
      BY <2>1, FaultType DEF ReceiveFails
    <2> QED
      BY <2>1, <2>2, <2>3 DEF ReceiveFails, TypeOK, agentVars, listVars, cleanerVars
  <1>3. CASE UpdateAgents(r)
    <2>1. StoreTypeOK' /\ RedisConsistent'
      BY <1>3, SameStore DEF UpdateAgents, Logged, TypeOK
    <2>2. job[r] \in Job
      BY <1>3 DEF UpdateAgents, Updating, TypeOK
    <2>3. job' \in [Replica -> Job \union {NoJob}]
      <3>1. NamesAgent(r) => [job[r] EXCEPT !.stage = "callback"] \in Job
        BY <2>2 DEF NamesAgent, Job
      <3> QED
        BY <1>3, <3>1 DEF UpdateAgents, Logged, TypeOK
    <2>4. /\ agents' \in [Replica -> Listing]
          /\ copies' \in [Replica -> [Thread -> SUBSET Listing]]
      <3>1. CASE Rewrite(r, "listener", Without(Base(r, "listener"), {job[r].url}))
        BY <3>1, RewriteType DEF Thread
      <3>2. CASE /\ agents' = [agents EXCEPT ![r][job[r].url] = job[r].card]
                 /\ UNCHANGED copies
        <4>1. job[r].url \in Url /\ job[r].card \in Card
          BY <2>2 DEF Job
        <4>2. [agents[r] EXCEPT ![job[r].url] = job[r].card] \in Listing
          BY <4>1 DEF Listing, TypeOK
        <4>3. agents' = [agents EXCEPT ![r] = [agents[r] EXCEPT ![job[r].url] = job[r].card]]
          BY <3>2 DEF TypeOK
        <4> QED
          BY <3>2, <4>2, <4>3 DEF TypeOK
      <3>3. CASE UNCHANGED listVars
        BY <3>3 DEF listVars, TypeOK
      <3> QED
        BY <1>3, <3>1, <3>2, <3>3 DEF UpdateAgents, ListUpdated
    <2> QED
      BY <1>3, <2>1, <2>3, <2>4
         DEF UpdateAgents, Logged, TypeOK, agentVars, cleanerVars, boundVars
  <1>4. CASE Callback(r) \/ CallbackFails(r)
    <2>1. StoreTypeOK' /\ RedisConsistent'
      BY <1>4, SameStore DEF Callback, CallbackFails, CallbackReturns, TypeOK
    <2>2. job[r] \in Job /\ job[r].stage = "callback"
      BY <1>4 DEF Callback, CallbackFails, CallbackReturns, TypeOK
    <2>3. docs' \in [Url -> SUBSET Process]
      <3>1. job[r].event = "add" => job[r].card \in Process
        BY <2>2 DEF Job, Card, Event
      <3>2. docs \in [Url -> SUBSET Process]
        BY DEF TypeOK
      <3>3. CallbackWrites(r) => docs' \in [Url -> SUBSET Process]
        BY <3>1, <3>2 DEF CallbackWrites, add_agent_to_vector_db, remove_agent_from_vector_db,
                          add_documents_with_vector, delete_by_metadata_field
      <3> QED
        BY <1>4, <3>2, <3>3 DEF Callback, CallbackFails
    <2>4. faults' \in Nat /\ happened' \subseteq FaultKinds /\ starts' \in Nat
      BY <1>4, FaultType DEF Callback, CallbackFails, boundVars, TypeOK
    <2> QED
      BY <1>4, <2>1, <2>3, <2>4
         DEF Callback, CallbackFails, CallbackReturns, TypeOK, agentVars, listVars, cleanerVars
  <1>5. CASE Disconnect(r) \/ Connect(r)
    <2>1. NoFeed \in [Url -> Seq(Event)]
      BY DEF NoFeed
    <2>2. StoreTypeOK'
      BY <1>5, <2>1 DEF Disconnect, Connect, TypeOK, StoreTypeOK
    <2>3. RedisConsistent'
      BY <1>5 DEF Disconnect, Connect, RedisConsistent, Registered
    <2>4. faults' \in Nat /\ happened' \subseteq FaultKinds /\ starts' \in Nat
      BY <1>5, FaultType DEF Disconnect, Connect, boundVars, TypeOK
    <2> QED
      BY <1>5, <2>2, <2>3, <2>4
         DEF Disconnect, Connect, TypeOK, agentVars, listVars, cleanerVars
  <1> QED
    BY <1>1, <1>2, <1>3, <1>4, <1>5 DEF Listener

LEMMA OtherTypes ==
    ASSUME TypeOK, RedisConsistent,
           \/ \E r \in Replica : Restart(r)
           \/ \E r \in Replica, t \in Thread : Interrupted(r, t)
           \/ \E u \in Url : Age(u) \/ Stall(u)
           \/ Wipe
    PROVE  TypeOK' /\ RedisConsistent'
  <1>1. CASE \E r \in Replica : Restart(r)
    <2>1. PICK r \in Replica : Restart(r)
      BY <1>1
    <2>2. faults' \in Nat /\ happened' \subseteq FaultKinds /\ starts' \in Nat
      BY <2>1, FaultType DEF Restart
    <2>3. StoreTypeOK' /\ RedisConsistent'
      BY <2>1 DEF Restart, TypeOK, StoreTypeOK, RedisConsistent, Registered
    <2>4. /\ agents' \in [Replica -> Listing]
          /\ copies' \in [Replica -> [Thread -> SUBSET Listing]]
      <3>1. registry \in Listing /\ NoCopies \in [Thread -> SUBSET Listing]
        BY DEF TypeOK, StoreTypeOK, Listing, NoCopies
      <3> QED
        BY <2>1, <3>1 DEF Restart, TypeOK
    <2>5. /\ job' \in [Replica -> Job \union {NoJob}]
          /\ cleaner' \in [Replica -> {"sleep", "check", "update"}]
          /\ toCheck' \in [Replica -> SUBSET Url]
          /\ expired' \in [Replica -> SUBSET Url]
      BY <2>1 DEF Restart, TypeOK
    <2> QED
      BY <2>1, <2>2, <2>3, <2>4, <2>5 DEF Restart, TypeOK, agentVars
  <1>2. CASE \E r \in Replica, t \in Thread : Interrupted(r, t)
    <2>1. PICK r \in Replica, t \in Thread : Interrupted(r, t)
      BY <1>2
    <2>2. faults' \in Nat /\ happened' \subseteq FaultKinds /\ starts' \in Nat
      BY <2>1, FaultType DEF Interrupted
    <2>3. StoreTypeOK' /\ RedisConsistent'
      BY <2>1, SameStore DEF Interrupted, TypeOK
    <2>4. copies' \in [Replica -> [Thread -> SUBSET Listing]]
      <3>1. copies' = [copies EXCEPT ![r] = [copies[r] EXCEPT ![t] = {agents[r]}]]
        BY <2>1 DEF Interrupted, TypeOK
      <3>2. [copies[r] EXCEPT ![t] = {agents[r]}] \in [Thread -> SUBSET Listing]
        BY DEF TypeOK
      <3> QED
        BY <3>1, <3>2 DEF TypeOK
    <2> QED
      BY <2>1, <2>2, <2>3, <2>4 DEF Interrupted, TypeOK, agentVars, cleanerVars
  <1>3. CASE \E u \in Url : Age(u) \/ Stall(u)
    <2>1. PICK u \in Url : Age(u) \/ Stall(u)
      BY <1>3
    <2>2. Expire(u) /\ UNCHANGED agentVars /\ AgentUnchanged
      BY <2>1 DEF Age, Stall, Aged
    <2>3. StoreTypeOK' /\ RedisConsistent'
      BY <2>2, BeatStore DEF TypeOK
    <2>4. faults' \in Nat /\ happened' \subseteq FaultKinds /\ starts' \in Nat
      BY <2>1, FaultType DEF Age, Stall, boundVars, TypeOK
    <2> QED
      BY <2>2, <2>3, <2>4 DEF TypeOK, AgentUnchanged, agentVars, listVars, cleanerVars
  <1>4. CASE Wipe
    <2>1. StoreTypeOK' /\ RedisConsistent'
      BY <1>4, WipedStore DEF Wipe, TypeOK
    <2>2. faults' \in Nat /\ happened' \subseteq FaultKinds /\ starts' \in Nat
      BY <1>4, FaultType DEF Wipe
    <2> QED
      BY <1>4, <2>1, <2>2 DEF Wipe, TypeOK, AgentUnchanged, agentVars, listVars, cleanerVars
  <1> QED
    BY <1>1, <1>2, <1>3, <1>4

LEMMA NextTypes ==
    ASSUME TypeOK, RedisConsistent, [Next]_vars
    PROVE  TypeOK' /\ RedisConsistent'
  <1>1. CASE Next
    BY <1>1, AgentTypes, ListenerTypes, CleanerTypes, OtherTypes DEF Next
  <1>2. CASE UNCHANGED vars
    <2>1. UNCHANGED storeVars
      BY <1>2 DEF vars
    <2>2. StoreTypeOK' /\ RedisConsistent'
      BY <2>1, SameStore DEF TypeOK
    <2> QED
      BY <1>2, <2>2 DEF vars, agentVars, listVars, cleanerVars, boundVars, TypeOK
  <1> QED
    BY <1>1, <1>2

\* What has happened stays happened.
LEMMA FaultsLast ==
    ASSUME [Next]_vars
    PROVE  happened \subseteq happened'
  <1>1. ASSUME NEW p \in Process, Agent(p) PROVE happened \subseteq happened'
    BY <1>1 DEF Agent, Start, HeartbeatCheck, HeartbeatRecover, HeartbeatBeat, HeartbeatFails,
                Terminate, Unregister, UnregisterFails, Exit, Crash, Fault, Strike, boundVars
  <1>2. ASSUME NEW r \in Replica, Listener(r) PROVE happened \subseteq happened'
    BY <1>2 DEF Listener, Receive, ReceiveFails, UpdateAgents, Logged, Callback, CallbackFails,
                Disconnect, Connect, Fault, Strike, boundVars
  <1>3. ASSUME NEW r \in Replica, Cleaner(r) PROVE happened \subseteq happened'
    BY <1>3 DEF Cleaner, StartPass, CheckUrl, NothingExpired, RemoveExpired, UpdateList,
                PassFails, Fault, Strike, boundVars
  <1>4. ASSUME NEW r \in Replica, NEW t \in Thread, Restart(r) \/ Interrupted(r, t)
        PROVE  happened \subseteq happened'
    BY <1>4 DEF Restart, Interrupted, Fault, Strike
  <1>5. ASSUME NEW u \in Url, Age(u) \/ Stall(u) PROVE happened \subseteq happened'
    BY <1>5 DEF Age, Stall, Fault, Strike, boundVars
  <1>6. Wipe => happened \subseteq happened'
    BY DEF Wipe, Fault, Strike
  <1>7. UNCHANGED vars => happened \subseteq happened'
    BY DEF vars, boundVars
  <1> QED
    BY <1>1, <1>2, <1>3, <1>4, <1>5, <1>6, <1>7 DEF Next, Thread

(***************************************************************************)
(* What was removed is on its way off the lists                            *)
(***************************************************************************)

LEMMA InitRemovals == Init => Steady /\ RemovalsInv
  BY DEF Init, StoreInit, Steady, RemovalsInv, RemovalComes, Adding, Updating, NoFeed

\* Without the faults that steadiness excludes it lasts.
LEMMA SteadyLasts ==
    ASSUME TypeOK, SteadyFaults', Steady, [Next]_vars
    PROVE  Steady'
  <1>1. /\ \A r \in Replica : ~Disconnect(r) /\ ~Connect(r) /\ ~Restart(r)
        /\ \A r \in Replica, t \in Thread : ~Interrupted(r, t)
        /\ ~Wipe
    BY DEF Disconnect, Connect, Restart, Interrupted, Wipe, Fault, Strike,
           SteadyFaults, Spared, Steady
  <1>2. ASSUME NEW p \in Process, Agent(p) PROVE Steady'
    BY <1>2 DEF Agent, Start, HeartbeatCheck, HeartbeatRecover, HeartbeatBeat, HeartbeatFails,
                Terminate, Unregister, UnregisterFails, Exit, Crash, Down, AgentUnchanged,
                Raised, Register, Remove, Publish, Beat, storeVars, listVars, Steady
  <1>3. ASSUME NEW r \in Replica, NEW t \in Thread, NEW list, Rewrite(r, t, list)
        PROVE  UNCHANGED copies
    <2>1. copies[r] = NoCopies /\ copies[r][t] = {}
      BY DEF Steady, NoCopies
    <2>2. [copies[r] EXCEPT ![t] = {}] = copies[r]
      BY <2>1 DEF NoCopies
    <2>3. copies' = [copies EXCEPT ![r] = [copies[r] EXCEPT ![t] = {}]]
      BY <1>3 DEF Rewrite, TypeOK
    <2> QED
      BY <2>2, <2>3 DEF TypeOK
  <1>4. ASSUME NEW r \in Replica, Listener(r) PROVE Steady'
    <2>1. UNCHANGED listening
      BY <1>1, <1>4 DEF Listener, Receive, ReceiveFails, UpdateAgents, Logged, Callback,
                        CallbackFails, CallbackReturns, storeVars
    <2>2. UNCHANGED copies
      <3>1. CASE UpdateAgents(r)
        BY <3>1, <1>3 DEF UpdateAgents, ListUpdated, listVars, Thread
      <3> QED
        BY <1>1, <1>4, <3>1 DEF Listener, Receive, ReceiveFails, Callback, CallbackFails,
                                CallbackReturns, listVars
    <2> QED
      BY <2>1, <2>2 DEF Steady
  <1>5. ASSUME NEW r \in Replica, Cleaner(r) PROVE Steady'
    <2>1. UNCHANGED listening
      BY <1>5 DEF Cleaner, StartPass, CheckUrl, NothingExpired, RemoveExpired, UpdateList,
                  PassFails, Raised, Remove, Publish, storeVars
    <2>2. UNCHANGED copies
      BY <1>3, <1>5 DEF Cleaner, StartPass, CheckUrl, NothingExpired, RemoveExpired,
                        UpdateList, PassFails, listVars, Thread
    <2> QED
      BY <2>1, <2>2 DEF Steady
  <1>6. ASSUME NEW u \in Url, Age(u) \/ Stall(u) PROVE Steady'
    BY <1>6 DEF Age, Stall, Aged, Expire, AgentUnchanged, listVars, Steady
  <1>7. CASE UNCHANGED vars
    BY <1>7 DEF vars, storeVars, listVars, Steady
  <1> QED
    BY <1>1, <1>2, <1>4, <1>5, <1>6, <1>7 DEF Next

\* A registration makes one url registered and leaves what is to come of the
\* others.
LEMMA RegisterRemovals ==
    ASSUME TypeOK, Steady, RemovalsInv, NEW p \in Process, Register(p),
           UNCHANGED <<agents, job>>
    PROVE  RemovalsInv'
  <1> SUFFICES ASSUME NEW r \in Replica, NEW u \in Url, ~Registered(u)'
               PROVE  RemovalComes(r, u)'
    BY DEF RemovalsInv
  <1>1. UrlOf[p] \in Url /\ p # NoAgent
    BY AgentStoreAssumption
  <1>2. u # UrlOf[p] /\ ~Registered(u)
    BY <1>1 DEF Register, Registered, TypeOK, StoreTypeOK
  <1>3. feed'[r][u] = feed[r][u]
    BY <1>2, PublishFeeds DEF Register, Event, TypeOK
  <1>4. RemovalComes(r, u)
    BY <1>2 DEF RemovalsInv
  <1> QED
    BY <1>3, <1>4 DEF RemovalComes, Removing, Adding, Updating

\* A removal of what was registered is notified to every replica.
LEMMA RemoveRemovals ==
    ASSUME TypeOK, RedisConsistent, Steady, RemovalsInv, NEW urls, Remove(urls),
           UNCHANGED <<agents, job>>
    PROVE  RemovalsInv'
  <1> SUFFICES ASSUME NEW r \in Replica, NEW u \in Url, ~Registered(u)'
               PROVE  RemovalComes(r, u)'
    BY DEF RemovalsInv
  <1>1. feed'[r][u] = IF u \in urls \intersect markers
                      THEN Append(feed[r][u], "remove") ELSE feed[r][u]
    BY PublishFeeds DEF Remove, Event, Steady, TypeOK
  <1>2. CASE u \in urls \intersect markers
    <2>1. feed[r][u] \in Seq(Event) /\ "remove" \in Event
      BY DEF TypeOK, StoreTypeOK, Event
    <2>2. feed'[r][u] # <<>> /\ Last(feed'[r][u]) = "remove"
      BY <1>1, <1>2, <2>1, FeedAppend
    <2> QED
      BY <2>2 DEF RemovalComes
  <1>3. CASE u \notin urls \intersect markers
    <2>1. ~Registered(u)
      BY <1>3 DEF Remove, Registered, RedisConsistent
    <2>2. RemovalComes(r, u) /\ feed'[r][u] = feed[r][u]
      BY <1>1, <1>3, <2>1 DEF RemovalsInv
    <2> QED
      BY <2>2 DEF RemovalComes, Removing, Adding, Updating
  <1> QED
    BY <1>2, <1>3

LEMMA SameRemovals ==
    ASSUME RemovalsInv, UNCHANGED <<registry, feed, agents, job>>
    PROVE  RemovalsInv'
  BY DEF RemovalsInv, RemovalComes, Registered, Removing, Adding, Updating

\* The listener takes a notification: the removal it may have been is now in
\* its hands.
LEMMA ReceiveRemovals ==
    ASSUME TypeOK, RemovalsInv, NEW r \in Replica, NEW u \in Url,
           Receive(r, u) \/ ReceiveFails(r, u)
    PROVE  RemovalsInv'
  <1> SUFFICES ASSUME NEW q \in Replica, NEW v \in Url, ~Registered(v)'
               PROVE  RemovalComes(q, v)'
    BY DEF RemovalsInv
  <1>1. RemovalComes(q, v) /\ UNCHANGED agents
    BY DEF RemovalsInv, Receive, ReceiveFails, Registered, listVars
  <1>2. feed[r][u] \in Seq(Event) /\ feed[r][u] # <<>>
    BY DEF Receive, ReceiveFails, TypeOK, StoreTypeOK
  <1>3. feed'[q][v] = IF q = r /\ v = u THEN Tail(feed[r][u]) ELSE feed[q][v]
    <2>1. feed \in [Replica -> [Url -> Seq(Event)]]
      BY DEF TypeOK, StoreTypeOK
    <2>2. feed' = [feed EXCEPT ![r][u] = Tail(feed[r][u])]
      BY DEF Receive, ReceiveFails
    <2> QED
      BY <2>1, <2>2
  <1>4. job[r] = NoJob /\ (q # r => job'[q] = job[q])
    BY DEF Receive, ReceiveFails, TypeOK
  <1>5. CASE q = r /\ v = u
    <2>1. Last(feed[r][u]) = "remove"
      BY <1>1, <1>2, <1>5 DEF RemovalComes
    <2>2. CASE Tail(feed[r][u]) # <<>>
      BY <1>2, <1>3, <1>5, <2>1, <2>2, FeedTail DEF RemovalComes
    <2>3. CASE Tail(feed[r][u]) = <<>>
      <3>1. Head(feed[r][u]) = "remove"
        BY <1>2, <2>1, <2>3, FeedTail
      <3>2. Receive(r, u)
        BY <3>1 DEF ReceiveFails
      <3>3. job'[r].stage = "update" /\ job'[r].event = "remove" /\ job'[r].url = u
        BY <3>1, <3>2 DEF Receive, TypeOK
      <3>4. job'[r] # NoJob
        BY <3>2, <3>3, ReceivedType, AgentRegistryAssumption DEF Receive, TypeOK, Job, Event, Card,
           StoreTypeOK
      <3> QED
        BY <1>3, <1>5, <2>3, <3>3, <3>4 DEF RemovalComes, Removing, Updating
    <2> QED
      BY <2>2, <2>3
  <1>6. CASE ~(q = r /\ v = u)
    <2>1. feed'[q][v] = feed[q][v]
      BY <1>3, <1>6
    <2>2. CASE q # r
      BY <1>1, <1>4, <2>1, <2>2 DEF RemovalComes, Removing, Adding, Updating
    <2>3. CASE q = r /\ v # u
      <3>1. feed[q][v] = <<>> => agents[q][v] = NoAgent
        BY <1>1, <1>4, <2>3 DEF RemovalComes, Removing, Updating
      <3>2. ~Adding(q, v)'
        BY <1>4, <2>3 DEF Adding, Updating, Receive, ReceiveFails, TypeOK
      <3> QED
        BY <1>1, <2>1, <3>1, <3>2 DEF RemovalComes
    <2> QED
      BY <1>6, <2>2, <2>3
  <1> QED
    BY <1>5, <1>6

\* The listener brings its list up to date.
LEMMA UpdateRemovals ==
    ASSUME TypeOK, RemovalsInv, NEW r \in Replica, UpdateAgents(r), Steady
    PROVE  RemovalsInv'
  <1> SUFFICES ASSUME NEW q \in Replica, NEW v \in Url, ~Registered(v)'
               PROVE  RemovalComes(q, v)'
    BY DEF RemovalsInv
  <1>1. RemovalComes(q, v) /\ UNCHANGED feed
    BY DEF RemovalsInv, UpdateAgents, Logged, Registered, storeVars
  <1>2. job[r] \in Job /\ Updating(r)
    BY DEF UpdateAgents, Updating, TypeOK
  <1>3. ~Updating(r)'
    BY <1>2 DEF UpdateAgents, Logged, Updating, TypeOK, Job
  <1>4. CASE q # r
    <2>1. agents'[q] = agents[q] /\ job'[q] = job[q]
      BY <1>4 DEF UpdateAgents, ListUpdated, Rewrite, Logged, listVars, TypeOK
    <2> QED
      BY <1>1, <2>1 DEF RemovalComes, Removing, Adding, Updating
  <1>5. CASE q = r /\ feed[q][v] = <<>>
    <2>1. Removing(r, v) \/ (agents[r][v] = NoAgent /\ ~Adding(r, v))
      BY <1>1, <1>5 DEF RemovalComes
    <2>2. Base(r, "listener") = agents[r]
      BY DEF Base, Steady, NoCopies, Thread
    <2>3. CASE job[r].event = "remove"
      <3>1. agents'[r] = Without(agents[r], {job[r].url})
        BY <2>2, <2>3 DEF UpdateAgents, ListUpdated, Rewrite, TypeOK
      <3>2. agents'[r][v] = NoAgent
        BY <2>1, <3>1 DEF Removing, Without
      <3> QED
        BY <1>1, <1>3, <1>5, <3>2 DEF RemovalComes, Adding
    <2>4. CASE job[r].event = "add"
      <3>1. agents[r][v] = NoAgent /\ ~Adding(r, v)
        BY <2>1, <2>4 DEF Removing
      <3>2. agents'[r][v] = IF v = job[r].url /\ agents[r][v] = NoAgent
                            THEN job[r].card ELSE agents[r][v]
        BY <2>4, <1>2 DEF UpdateAgents, ListUpdated, listVars, TypeOK, Job, Listing
      <3>3. agents'[r][v] = NoAgent
        BY <1>2, <2>4, <3>1, <3>2 DEF Adding
      <3> QED
        BY <1>1, <1>3, <1>5, <3>3 DEF RemovalComes, Adding
    <2> QED
      BY <1>2, <2>3, <2>4 DEF Job, Event
  <1>6. CASE q = r /\ feed[q][v] # <<>>
    BY <1>1, <1>6 DEF RemovalComes
  <1> QED
    BY <1>4, <1>5, <1>6

\* The callback changes the documents only.
LEMMA CallbackRemovals ==
    ASSUME TypeOK, RemovalsInv, NEW r \in Replica, CallbackReturns(r)
    PROVE  RemovalsInv'
  <1>1. \A q \in Replica, v \in Url :
          (Removing(q, v) <=> Removing(q, v)') /\ (Adding(q, v) <=> Adding(q, v)')
    BY DEF CallbackReturns, Removing, Adding, Updating, TypeOK
  <1>2. UNCHANGED <<registry, feed, agents>>
    BY DEF CallbackReturns, storeVars, listVars
  <1> QED
    BY <1>1, <1>2 DEF RemovalsInv, RemovalComes, Registered

\* The cleaner only takes urls off its list.
LEMMA UpdateListRemovals ==
    ASSUME TypeOK, Steady, RemovalsInv, NEW r \in Replica, UpdateList(r)
    PROVE  RemovalsInv'
  <1>1. Base(r, "cleaner") = agents[r]
    BY DEF Base, Steady, NoCopies, Thread
  <1>2. agents'[r] = Without(agents[r], expired[r])
    BY <1>1 DEF UpdateList, Rewrite, TypeOK
  <1>3. \A q \in Replica, v \in Url : agents[q][v] = NoAgent => agents'[q][v] = NoAgent
    BY <1>2 DEF UpdateList, Rewrite, Without, TypeOK
  <1>4. UNCHANGED <<registry, feed, job>>
    BY DEF UpdateList, CleanerUnchanged, storeVars
  <1> QED
    BY <1>3, <1>4 DEF RemovalsInv, RemovalComes, Registered, Removing, Adding, Updating

LEMMA NextRemovals ==
    ASSUME TypeOK, RedisConsistent, SteadyFaults', Steady, RemovalsInv, [Next]_vars
    PROVE  RemovalsInv'
  <1>1. /\ \A r \in Replica : ~Disconnect(r) /\ ~Connect(r) /\ ~Restart(r)
        /\ \A r \in Replica, t \in Thread : ~Interrupted(r, t)
        /\ ~Wipe
    BY DEF Disconnect, Connect, Restart, Interrupted, Wipe, Fault, Strike,
           SteadyFaults, Spared, Steady
  <1>2. ASSUME NEW p \in Process, Agent(p) PROVE RemovalsInv'
    <2>1. UNCHANGED <<agents, job>>
      BY <1>2 DEF Agent, Start, HeartbeatCheck, HeartbeatRecover, HeartbeatBeat,
                  HeartbeatFails, Terminate, Unregister, UnregisterFails, Exit, Crash, Down,
                  AgentUnchanged, listVars
    <2>2. \/ Register(p) \/ Remove({UrlOf[p]}) \/ UNCHANGED <<registry, feed>>
      BY <1>2 DEF Agent, Start, HeartbeatCheck, HeartbeatRecover, HeartbeatBeat,
                  HeartbeatFails, Terminate, Unregister, UnregisterFails, Exit, Crash, Down,
                  Raised, Beat, storeVars
    <2> QED
      BY <2>1, <2>2, RegisterRemovals, RemoveRemovals, SameRemovals
  <1>3. ASSUME NEW r \in Replica, Listener(r) PROVE RemovalsInv'
    BY <1>1, <1>3, ReceiveRemovals, UpdateRemovals, CallbackRemovals
       DEF Listener, Callback, CallbackFails
  <1>4. ASSUME NEW r \in Replica, Cleaner(r) PROVE RemovalsInv'
    <2>1. CASE UpdateList(r)
      BY <2>1, UpdateListRemovals
    <2>2. CASE ~UpdateList(r)
      <3>1. UNCHANGED <<agents, job>>
        BY <1>4, <2>2 DEF Cleaner, StartPass, CheckUrl, NothingExpired, RemoveExpired,
                          PassFails, CleanerUnchanged, listVars
      <3>2. Remove(expired[r]) \/ UNCHANGED <<registry, feed>>
        BY <1>4, <2>2 DEF Cleaner, StartPass, CheckUrl, NothingExpired, RemoveExpired,
                          PassFails, Raised, storeVars
      <3> QED
        BY <3>1, <3>2, RemoveRemovals, SameRemovals
    <2> QED
      BY <2>1, <2>2
  <1>5. ASSUME NEW u \in Url, Age(u) \/ Stall(u) PROVE RemovalsInv'
    BY <1>5, SameRemovals DEF Age, Stall, Aged, Expire, AgentUnchanged, listVars
  <1>6. CASE UNCHANGED vars
    BY <1>6, SameRemovals DEF vars, storeVars, listVars
  <1> QED
    BY <1>1, <1>2, <1>3, <1>4, <1>5, <1>6 DEF Next

(***************************************************************************)
(* What is registered is on its way into the documents                     *)
(***************************************************************************)

LEMMA InitSearch == Init => listening = Replica /\ SearchInv
  BY DEF Init, StoreInit, SearchInv, LastNews, Indexed, Registered, NoFeed, Writing

\* A registration is the last news for every replica.
LEMMA RegisterSearch ==
    ASSUME TypeOK, listening = Replica, SearchInv, NEW p \in Process, Register(p),
           UNCHANGED <<job, docs>>
    PROVE  SearchInv'
  <1> SUFFICES ASSUME NEW u \in Url
               PROVE  /\ \A r \in Replica : LastNews(r, u)'
                      /\ Indexed(u)' \/ \E r \in Replica : Indexing(r, u)'
    BY DEF SearchInv
  <1>1. UrlOf[p] \in Url /\ p # NoAgent /\ Replica # {}
    BY AgentStoreAssumption
  <1>2. \A r \in Replica : feed'[r][u] = IF u = UrlOf[p] THEN Append(feed[r][u], "add")
                                         ELSE feed[r][u]
    BY PublishFeeds DEF Register, Event, TypeOK
  <1>3. CASE u = UrlOf[p]
    <2>1. Registered(u)'
      BY <1>1, <1>3 DEF Register, Registered, TypeOK, StoreTypeOK
    <2>2. ASSUME NEW r \in Replica
          PROVE  feed'[r][u] # <<>> /\ Last(feed'[r][u]) = "add"
      <3>1. feed[r][u] \in Seq(Event) /\ "add" \in Event
        BY DEF TypeOK, StoreTypeOK, Event
      <3>2. feed'[r][u] = Append(feed[r][u], "add")
        BY <1>2, <1>3
      <3> QED
        BY <3>1, <3>2, FeedAppend
    <2> QED
      BY <1>1, <2>1, <2>2 DEF LastNews, Indexing
  <1>4. CASE u # UrlOf[p]
    <2>1. registry'[u] = registry[u]
      BY <1>4 DEF Register, TypeOK, StoreTypeOK
    <2>2. \A r \in Replica : feed'[r][u] = feed[r][u]
      BY <1>2, <1>4
    <2> QED
      BY <2>1, <2>2 DEF SearchInv, LastNews, Indexed, Indexing, Registered, Deleting, Writing
  <1> QED
    BY <1>3, <1>4

\* So is the removal of what was registered.
LEMMA RemoveSearch ==
    ASSUME TypeOK, RedisConsistent, listening = Replica, SearchInv, NEW urls, Remove(urls),
           UNCHANGED <<job, docs>>
    PROVE  SearchInv'
  <1> SUFFICES ASSUME NEW u \in Url
               PROVE  /\ \A r \in Replica : LastNews(r, u)'
                      /\ Indexed(u)' \/ \E r \in Replica : Indexing(r, u)'
    BY DEF SearchInv
  <1>1. Replica # {}
    BY AgentStoreAssumption
  <1>2. \A r \in Replica : feed'[r][u] = IF u \in urls \intersect markers
                                         THEN Append(feed[r][u], "remove") ELSE feed[r][u]
    BY PublishFeeds DEF Remove, Event, TypeOK
  <1>3. CASE u \in urls \intersect markers
    <2>1. ~Registered(u)'
      BY <1>3 DEF Remove, Registered
    <2>2. ASSUME NEW r \in Replica
          PROVE  feed'[r][u] # <<>> /\ Last(feed'[r][u]) = "remove"
      <3>1. feed[r][u] \in Seq(Event) /\ "remove" \in Event
        BY DEF TypeOK, StoreTypeOK, Event
      <3>2. feed'[r][u] = Append(feed[r][u], "remove")
        BY <1>2, <1>3
      <3> QED
        BY <3>1, <3>2, FeedAppend
    <2> QED
      BY <1>1, <2>1, <2>2 DEF LastNews, Indexing
  <1>4. CASE u \notin urls \intersect markers
    <2>1. registry'[u] = registry[u]
      BY <1>4 DEF Remove, Registered, RedisConsistent
    <2>2. \A r \in Replica : feed'[r][u] = feed[r][u]
      BY <1>2, <1>4
    <2> QED
      BY <2>1, <2>2 DEF SearchInv, LastNews, Indexed, Indexing, Registered, Deleting, Writing
  <1> QED
    BY <1>3, <1>4

LEMMA SameSearch ==
    ASSUME SearchInv, UNCHANGED <<registry, feed, job, docs>>
    PROVE  SearchInv'
  BY DEF SearchInv, LastNews, Indexed, Indexing, Registered, Deleting, Writing

\* The listener takes a notification: if it is the last, it says how the url
\* is registered, and an agent that was added is fetched as it is now.
LEMMA ReceiveSearch ==
    ASSUME TypeOK, SearchInv, NEW r \in Replica, NEW v \in Url, Receive(r, v)
    PROVE  SearchInv'
  <1> SUFFICES ASSUME NEW u \in Url
               PROVE  /\ \A q \in Replica : LastNews(q, u)'
                      /\ Indexed(u)' \/ \E q \in Replica : Indexing(q, u)'
    BY DEF SearchInv
  <1>1. UNCHANGED <<registry, docs>> /\ job[r] = NoJob
    BY DEF Receive
  <1>2. feed[r][v] \in Seq(Event) /\ feed[r][v] # <<>>
    BY DEF Receive, TypeOK, StoreTypeOK
  <1>3. \A q \in Replica :
          feed'[q][u] = IF q = r /\ u = v THEN Tail(feed[r][v]) ELSE feed[q][u]
    <2>1. feed \in [Replica -> [Url -> Seq(Event)]]
      BY DEF TypeOK, StoreTypeOK
    <2>2. feed' = [feed EXCEPT ![r][v] = Tail(feed[r][v])]
      BY DEF Receive
    <2> QED
      BY <2>1, <2>2
  <1>4. /\ job'[r] = [stage |-> "update", event |-> Head(feed[r][v]), url |-> v,
                      card |-> IF Head(feed[r][v]) = "add" THEN registry[v] ELSE NoAgent]
        /\ \A q \in Replica : q # r => job'[q] = job[q]
    BY DEF Receive, TypeOK
  <1>5. job'[r] # NoJob
    <2>1. job'[r] \in Job
      <3>1. Head(feed[r][v]) \in Event
        BY <1>2, FeedTail
      <3>2. registry[v] \in Card /\ NoAgent \in Card
        BY DEF TypeOK, StoreTypeOK, Card
      <3> QED
        BY <1>4, <3>1, <3>2 DEF Job
    <2> QED
      BY <2>1, AgentRegistryAssumption
  <1>6. \A q \in Replica : q # r => /\ LastNews(q, u)' = LastNews(q, u)
                                    /\ Indexing(q, u)' = Indexing(q, u)
    BY <1>1, <1>3, <1>4 DEF LastNews, Indexing, Registered, Deleting, Writing
  <1>7. CASE u # v
    <2>1. ~Deleting(r, u)' /\ ~Writing(r, u)' /\ ~Deleting(r, u) /\ ~Writing(r, u)
      BY <1>1, <1>4, <1>7 DEF Deleting, Writing
    <2>2. feed'[r][u] = feed[r][u]
      BY <1>3, <1>7
    <2>3. LastNews(r, u)' = LastNews(r, u) /\ Indexing(r, u)' = Indexing(r, u)
      BY <1>1, <2>1, <2>2 DEF LastNews, Indexing, Registered
    <2> QED
      BY <1>1, <1>6, <2>3 DEF SearchInv, Indexed, Registered
  <1>8. CASE u = v
    <2>1. LastNews(r, u)
      BY DEF SearchInv
    <2>2. LastNews(r, u)' /\ Indexing(r, u)'
      <3>1. CASE Tail(feed[r][v]) # <<>>
        <4>1. feed'[r][u] # <<>> /\ Last(feed'[r][u]) = Last(feed[r][u])
          BY <1>2, <1>3, <1>8, <3>1, FeedTail
        <4> QED
          BY <1>1, <1>2, <1>8, <2>1, <4>1 DEF LastNews, Indexing, Registered
      <3>2. CASE Tail(feed[r][v]) = <<>>
        <4>1. Head(feed[r][v]) = IF Registered(u) THEN "add" ELSE "remove"
          BY <1>2, <1>8, <2>1, <3>2, FeedTail DEF LastNews
        <4>2. feed'[r][u] = <<>>
          BY <1>3, <1>8, <3>2
        <4>3. CASE Registered(u)
          <5>1. Writing(r, u)' /\ ~Deleting(r, u)' /\ job'[r].card = registry[u]
            BY <1>4, <1>5, <1>8, <4>1, <4>3 DEF Writing, Deleting, Registered
          <5> QED
            BY <1>1, <4>2, <4>3, <5>1 DEF LastNews, Indexing, Registered
        <4>4. CASE ~Registered(u)
          <5>1. Deleting(r, u)' /\ ~Writing(r, u)'
            BY <1>4, <1>5, <1>8, <4>1, <4>4 DEF Writing, Deleting
          <5> QED
            BY <1>1, <4>2, <4>4, <5>1 DEF LastNews, Indexing, Registered
        <4> QED
          BY <4>3, <4>4
      <3> QED
        BY <3>1, <3>2
    <2> QED
      BY <1>6, <2>2 DEF SearchInv
  <1> QED
    BY <1>7, <1>8

\* The list does not matter to the documents; an agent that was found, and a
\* removal, go on to the callback.
LEMMA UpdateSearch ==
    ASSUME TypeOK, SearchInv, NEW r \in Replica, UpdateAgents(r)
    PROVE  SearchInv'
  <1>1. UNCHANGED <<registry, feed, docs>>
    BY DEF UpdateAgents, Logged, storeVars
  <1>2. job[r] \in Job /\ job[r] # NoJob
    BY DEF UpdateAgents, Updating, TypeOK
  <1>3. job' = [job EXCEPT ![r] = IF NamesAgent(r) THEN [job[r] EXCEPT !.stage = "callback"]
                                  ELSE NoJob]
    BY DEF UpdateAgents, Logged
  <1>4. \A q \in Replica : q # r => job'[q] = job[q]
    BY <1>3 DEF TypeOK
  <1>5. CASE NamesAgent(r)
    <2>1. /\ job'[r] = [job[r] EXCEPT !.stage = "callback"]
          /\ [job[r] EXCEPT !.stage = "callback"] \in Job
      BY <1>2, <1>3, <1>5 DEF NamesAgent, Job, TypeOK
    <2>2. /\ job'[r] # NoJob /\ job'[r].url = job[r].url /\ job'[r].event = job[r].event
          /\ job'[r].card = job[r].card
      BY <1>2, <2>1, AgentRegistryAssumption DEF Job
    <2>3. \A q \in Replica, u \in Url :
            /\ Deleting(q, u)' = Deleting(q, u) /\ Writing(q, u)' = Writing(q, u)
            /\ Writing(q, u) => job'[q].card = job[q].card
      BY <1>2, <1>4, <2>2 DEF Deleting, Writing
    <2> QED
      BY <1>1, <2>3 DEF SearchInv, LastNews, Indexed, Indexing, Registered
  <1>6. CASE ~NamesAgent(r)
    <2>1. job'[r] = NoJob
      BY <1>3, <1>6 DEF TypeOK
    <2>2. \A u \in Url : ~Deleting(r, u) /\ ~Writing(r, u)
      BY <1>6 DEF NamesAgent, Deleting, Writing
    <2>3. \A q \in Replica, u \in Url :
            /\ Deleting(q, u)' = Deleting(q, u) /\ Writing(q, u)' = Writing(q, u)
            /\ Writing(q, u) => job'[q].card = job[q].card
      BY <1>4, <2>1, <2>2 DEF Deleting, Writing
    <2> QED
      BY <1>1, <2>3 DEF SearchInv, LastNews, Indexed, Indexing, Registered
  <1> QED
    BY <1>5, <1>6

\* The callback writes the documents.  If it writes what is out of date, there
\* is news to read for this replica.
LEMMA CallbackSearch ==
    ASSUME TypeOK, SearchInv, NEW r \in Replica, Callback(r)
    PROVE  SearchInv'
  <1> SUFFICES ASSUME NEW u \in Url
               PROVE  /\ \A q \in Replica : LastNews(q, u)'
                      /\ Indexed(u)' \/ \E q \in Replica : Indexing(q, u)'
    BY DEF SearchInv
  <1>1. UNCHANGED <<registry, feed>>
    BY DEF Callback, CallbackReturns, storeVars
  <1>2. job[r] \in Job /\ job[r] # NoJob /\ job[r].stage = "callback"
    BY DEF Callback, CallbackReturns, TypeOK
  <1>3. job'[r] = NoJob /\ \A q \in Replica : q # r => job'[q] = job[q]
    BY DEF Callback, CallbackReturns, TypeOK
  <1>4. /\ ~Deleting(r, u)' /\ ~Writing(r, u)'
        /\ \A q \in Replica : q # r => /\ Deleting(q, u)' = Deleting(q, u)
                                       /\ Writing(q, u)' = Writing(q, u)
    BY <1>3 DEF Deleting, Writing
  <1>5. \A q \in Replica : LastNews(q, u)'
    BY <1>1, <1>4 DEF SearchInv, LastNews, Registered
  <1>6. docs'[u] = IF u # job[r].url THEN docs[u]
                   ELSE IF job[r].event = "remove" THEN {} ELSE docs[u] \union {job[r].card}
    BY ZenonT(60) DEF Callback, CallbackWrites, add_agent_to_vector_db, remove_agent_from_vector_db,
           add_documents_with_vector, delete_by_metadata_field, TypeOK
  <1>7. LastNews(r, u) /\ (Indexed(u) \/ \E q \in Replica : Indexing(q, u))
    BY DEF SearchInv
  <1>8. CASE feed[r][u] # <<>>
    BY <1>1, <1>5, <1>8 DEF Indexing
  <1>9. CASE feed[r][u] = <<>> /\ u = job[r].url
    <2>1. CASE Registered(u)
      <3>1. ~Deleting(r, u)
        BY <1>7, <1>9, <2>1 DEF LastNews
      <3>2. job[r].event = "add"
        BY <1>2, <1>9, <3>1 DEF Deleting, Job, Event
      <3>3. docs'[u] = docs[u] \union {job[r].card}
        BY <1>6, <1>9, <3>2
      <3>4. Indexed(u) => Indexed(u)'
        BY <1>1, <2>1, <3>3 DEF Indexed, Registered
      <3>5. Indexing(r, u) => Indexed(u)'
        BY <1>1, <1>9, <2>1, <3>3 DEF Indexing, Indexed, Registered
      <3>6. \A q \in Replica : q # r /\ Indexing(q, u) => Indexing(q, u)'
        BY <1>1, <1>3, <1>4 DEF Indexing, Registered
      <3> QED
        BY <1>5, <1>7, <3>4, <3>5, <3>6
    <2>2. CASE ~Registered(u)
      <3>1. ~Writing(r, u)
        BY <1>7, <1>9, <2>2 DEF LastNews
      <3>2. job[r].event = "remove"
        BY <1>2, <1>9, <3>1 DEF Writing, Job, Event
      <3>3. docs'[u] = {}
        BY <1>6, <1>9, <3>2
      <3> QED
        BY <1>1, <1>5, <2>2, <3>3 DEF Indexed, Registered
    <2> QED
      BY <2>1, <2>2
  <1>10. CASE feed[r][u] = <<>> /\ u # job[r].url
    <2>1. docs'[u] = docs[u] /\ ~Indexing(r, u)
      BY <1>6, <1>10 DEF Indexing, Deleting, Writing
    <2>2. \A q \in Replica : q # r /\ Indexing(q, u) => Indexing(q, u)'
      BY <1>1, <1>3, <1>4 DEF Indexing, Registered
    <2>3. Indexed(u) => Indexed(u)'
      BY <1>1, <2>1 DEF Indexed, Registered
    <2> QED
      BY <1>5, <1>7, <2>1, <2>2, <2>3
  <1> QED
    BY <1>8, <1>9, <1>10

LEMMA NextSearch ==
    ASSUME TypeOK, RedisConsistent, AllNotified', listening = Replica, SearchInv, [Next]_vars
    PROVE  listening' = Replica /\ SearchInv'
  <1>1. /\ \A r \in Replica : ~Disconnect(r) /\ ~Connect(r) /\ ~Restart(r) /\ ~CallbackFails(r)
        /\ \A r \in Replica, u \in Url : ~ReceiveFails(r, u)
        /\ ~Wipe
    BY DEF Disconnect, Connect, Restart, CallbackFails, ReceiveFails, Wipe, Fault, Strike,
           AllNotified, Spared
  <1>2. ASSUME NEW p \in Process, Agent(p) PROVE listening' = Replica /\ SearchInv'
    <2>1. UNCHANGED <<job, docs>>
      BY <1>2 DEF Agent, Start, HeartbeatCheck, HeartbeatRecover, HeartbeatBeat,
                  HeartbeatFails, Terminate, Unregister, UnregisterFails, Exit, Crash, Down,
                  AgentUnchanged
    <2>2. Register(p) \/ Remove({UrlOf[p]}) \/ UNCHANGED <<registry, feed, listening>>
      BY <1>2 DEF Agent, Start, HeartbeatCheck, HeartbeatRecover, HeartbeatBeat,
                  HeartbeatFails, Terminate, Unregister, UnregisterFails, Exit, Crash, Down,
                  Raised, Beat, storeVars
    <2>3. UNCHANGED listening
      BY <2>2 DEF Register, Remove, Publish
    <2> QED
      BY <2>1, <2>2, <2>3, RegisterSearch, RemoveSearch, SameSearch
  <1>3. ASSUME NEW r \in Replica, Listener(r) PROVE listening' = Replica /\ SearchInv'
    <2>1. UNCHANGED listening
      BY <1>1, <1>3 DEF Listener, Receive, UpdateAgents, Logged, Callback, CallbackReturns,
                        storeVars
    <2> QED
      BY <1>1, <1>3, <2>1, ReceiveSearch, UpdateSearch, CallbackSearch DEF Listener
  <1>4. ASSUME NEW r \in Replica, Cleaner(r) PROVE listening' = Replica /\ SearchInv'
    <2>1. UNCHANGED <<job, docs>>
      BY <1>4 DEF Cleaner, StartPass, CheckUrl, NothingExpired, RemoveExpired, UpdateList,
                  PassFails, CleanerUnchanged
    <2>2. Remove(expired[r]) \/ UNCHANGED <<registry, feed, listening>>
      BY <1>4 DEF Cleaner, StartPass, CheckUrl, NothingExpired, RemoveExpired, UpdateList,
                  PassFails, Raised, storeVars
    <2>3. UNCHANGED listening
      BY <2>2 DEF Remove, Publish
    <2> QED
      BY <2>1, <2>2, <2>3, RemoveSearch, SameSearch
  <1>5. ASSUME NEW u \in Url, Age(u) \/ Stall(u) PROVE listening' = Replica /\ SearchInv'
    BY <1>5, SameSearch DEF Age, Stall, Aged, Expire, AgentUnchanged
  <1>6. ASSUME NEW r \in Replica, NEW t \in Thread, Interrupted(r, t)
        PROVE  listening' = Replica /\ SearchInv'
    BY <1>6, SameSearch DEF Interrupted, storeVars
  <1>7. CASE UNCHANGED vars
    BY <1>7, SameSearch DEF vars, storeVars
  <1> QED
    BY <1>1, <1>2, <1>3, <1>4, <1>5, <1>6, <1>7 DEF Next

(***************************************************************************)
(* Theorems                                                                *)
(***************************************************************************)

\* The inductive invariant: types, the agreement of the structures in Redis,
\* where the subscriptions last, a notification for every removal, and, where
\* every notification is processed, one for every change of a registration.
THEOREM RegistryInvariant == Spec => []IInv
  <1>1. Init => IInv
    BY InitTypes, InitRemovals, InitSearch DEF IInv
  <1>2. IInv /\ [Next]_vars => IInv'
    <2> SUFFICES ASSUME IInv, [Next]_vars PROVE IInv'
      OBVIOUS
    <2>1. TypeOK' /\ RedisConsistent'
      BY NextTypes DEF IInv
    <2>2. ASSUME SteadyFaults' PROVE Steady' /\ RemovalsInv'
      <3>1. SteadyFaults
        BY <2>2, FaultsLast DEF IInv, SteadyFaults, Spared
      <3> QED
        BY <2>2, <3>1, SteadyLasts, NextRemovals DEF IInv
    <2>3. ASSUME AllNotified' PROVE listening' = Replica /\ SearchInv'
      <3>1. AllNotified
        BY <2>3, FaultsLast DEF IInv, AllNotified, Spared
      <3> QED
        BY <2>3, <3>1, NextSearch DEF IInv
    <2> QED
      BY <2>1, <2>2, <2>3 DEF IInv
  <1> QED
    BY <1>1, <1>2, PTL DEF Spec

\* Every variable of the registry and of Redis keeps its type: the callback
\* never writes a document for an agent that was not found.
THEOREM RegistryTypes == Spec => []TypeOK
  <1>1. IInv => TypeOK
    BY DEF IInv
  <1> QED
    BY <1>1, RegistryInvariant, PTL

\* Hash, heartbeats and markers agree, so no url blocks the cleaner for ever.
THEOREM RedisAgrees == Spec => []RedisConsistent
  <1>1. IInv => RedisConsistent
    BY DEF IInv
  <1> QED
    BY <1>1, RegistryInvariant, PTL

\* A registry at rest lists no agent that is not registered.
THEOREM ListHasNoGhosts == Spec => []NoGhosts
  <1>1. IInv => NoGhosts
    <2> SUFFICES ASSUME IInv, SteadyFaults, NEW r \in Replica, AtRest(r),
                        NEW u \in Url, ~Registered(u)
                 PROVE  agents[r][u] = NoAgent
      BY DEF NoGhosts
    <2>1. RemovalComes(r, u) /\ feed[r][u] = <<>> /\ job[r] = NoJob
      BY DEF IInv, RemovalsInv, AtRest, NoFeed
    <2> QED
      BY <2>1 DEF RemovalComes, Removing, Updating
  <1> QED
    BY <1>1, RegistryInvariant, PTL

\* When all registries are at rest, search finds exactly the registered
\* agents, whichever registries wrote which documents in which order.
THEOREM SearchMatchesRegistry == Spec => []SearchMatches
  <1>1. IInv => SearchMatches
    <2> SUFFICES ASSUME IInv, AllNotified, \A r \in Replica : AtRest(r), NEW u \in Url
                 PROVE  Indexed(u)
      BY DEF SearchMatches
    <2>1. \A r \in Replica : ~Indexing(r, u)
      BY DEF AtRest, NoFeed, Indexing, Writing, Deleting
    <2> QED
      BY <2>1 DEF IInv, SearchInv
  <1> QED
    BY <1>1, RegistryInvariant, PTL

=============================================================================
