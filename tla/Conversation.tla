----------------------------- MODULE Conversation -----------------------------
(***************************************************************************)
(* A conversation: a client of dac-apiserver asks Turns questions one      *)
(* after the other, each travels to the routing agent and on to an         *)
(* orchestrator, and the answer comes back chunk by chunk through two      *)
(* event streams, a goroutine, a channel and the handler.                  *)
(*                                                                         *)
(* The client waits for the end of an answer; the agents need not have     *)
(* finished then, so what they do for one turn meets the next one.         *)
(***************************************************************************)
EXTENDS RoutingAgent

CONSTANTS
    Clients,    \* the kinds of client there may be
    ChanCap,    \* capacity of the channel of chunks
    MaxFaults   \* bound on calls that fail, links that break and experts that never answer

ASSUME ConversationAssumption ==
    /\ Clients \subseteq {"whole", "tui"}
    /\ ChanCap \in Nat \ {0} /\ MaxFaults \in Nat

VARIABLES
    client,   \* whole: asks for whole answers; tui: dactl chat, which streams them
    named,    \* the run id the client sends
    runs,     \* the number of runs created
    chat,     \* chat[t]: the request of turn t
    stored    \* stored[t]: the turns in the history when t was asked (history)

chatVars == <<client, named, runs, chat, stored>>
vars == <<orchestratorVars, routingVars, chatVars>>

NoRun == 0     \* the empty run id
OwnRun == -1   \* the run id dactl chat makes up
IsEnd == -1    \* the item that ends the channel's stream

\* end: how the client's request ended; converter: convertStreamResponse;
\* out: the channel; got: what the client was sent, or the handler collected.
NotAsked == [end |-> "not asked", converter |-> "off", out |-> <<>>, got |-> <<>>]
Ended(t) == chat[t].end \in {"stop", "error", "left"}

Init ==
    /\ OrchestratorInit /\ RoutingInit
    /\ faults = 0
    /\ client \in Clients
    /\ named = IF client = "tui" THEN OwnRun ELSE NoRun
    /\ runs = 0
    /\ chat = [t \in Turn |-> NotAsked]
    /\ stored = [t \in Turn |-> {}]

Fault == faults < MaxFaults /\ faults' = faults + 1

-----------------------------------------------------------------------------
\* Variant: a run is created for every question.
GetNewRun(id) == runs + 1

\* The run of that id, or the next one.
GetOrCreateRun(id) == IF id \in 1 .. runs THEN id ELSE runs + 1

MayAsk(t) == chat[t].end = "not asked" /\ \A s \in 1 .. t - 1 : Ended(s)

\* Chat, ChatStreaming: the run is looked up or created, the message sent.
ChatStreaming(t) ==
    /\ MayAsk(t)
    /\ run_id' = [run_id EXCEPT ![t] = GetOrCreateRun(named)]
    /\ runs' = IF run_id'[t] > runs THEN run_id'[t] ELSE runs
    /\ stored' = [stored EXCEPT ![t] = {history[i].turn : i \in DOMAIN history}]
    /\ chat' = [chat EXCEPT ![t].end = "waiting", ![t].converter = "on"]
    /\ routing' = [routing EXCEPT ![t] = "plan"]
    /\ UNCHANGED <<orch, up, knew, faults, history, memories, down, client, named>>

\* The database or the routing agent refuses; in the latter case the run stays.
ChatRefused(t) ==
    /\ MayAsk(t) /\ Fault
    /\ \/ UNCHANGED <<runs, run_id>>
       \/ /\ run_id' = [run_id EXCEPT ![t] = GetOrCreateRun(named)]
          /\ runs' = IF run_id'[t] > runs THEN run_id'[t] ELSE runs
    /\ chat' = [chat EXCEPT ![t].end = "error"]
    /\ UNCHANGED <<orch, up, knew, history, memories, routingVars, client, named, stored>>

\* Variant: only a completed task ends the stream.
TaskCompleted(wire) == wire.end = "complete"

\* A completed task, or a stream that ends without: for the client it is one.
StreamOver(wire) == wire.end # "open"

\* The goroutine waits for room in the channel.
convertStreamResponse(t) ==
    LET wire == down[t]
    IN  /\ chat[t].converter = "on" /\ Len(chat[t].out) < ChanCap
        /\ IF wire.events # <<>>
           THEN /\ down' = [down EXCEPT ![t].events = Tail(@)]
                /\ chat' = [chat EXCEPT ![t].out = Append(@, Head(wire.events))]
           ELSE /\ StreamOver(wire)
                /\ chat' = [chat EXCEPT ![t].out = Append(@, IsEnd), ![t].converter = "returned"]
                /\ UNCHANGED down
    /\ UNCHANGED <<orchestratorVars, routing, client, named, runs, stored>>

\* Variant: the first chunk is for the run id and the role only.
TextAfterFirst(item) == IF item \in {IsEnd, 1} THEN <<>> ELSE <<item>>

TextOf(item) == IF item = IsEnd THEN <<>> ELSE <<item>>

\* Each chunk is written as it comes; the last says stop.  The first names the
\* run id of the request, which is the one the client sent.
handleStreaming(t) ==
    /\ client # "whole" /\ chat[t].end = "waiting" /\ chat[t].out # <<>>
    /\ LET item == Head(chat[t].out)
       IN  chat' = [chat EXCEPT ![t].out = Tail(@),
                                ![t].got = @ \o TextOf(item),
                                ![t].end = IF item = IsEnd THEN "stop" ELSE @]
    /\ UNCHANGED <<orchestratorVars, routingVars, client, named, runs, stored>>

\* A chunk cannot be written: the client has gone, the handler returns.
ClientLeft(t) ==
    /\ client # "whole" /\ chat[t].end = "waiting" /\ chat[t].out # <<>>
    /\ Fault
    /\ chat' = [chat EXCEPT ![t].out = Tail(@), ![t].end = "left"]
    /\ UNCHANGED <<orch, up, run_id, knew, history, memories, routingVars, client, named, runs, stored>>

\* Chunks are collected until the channel is closed; the response names the run.
handleNonStreaming(t) ==
    /\ client = "whole" /\ chat[t].end = "waiting"
    /\ IF chat[t].out # <<>>
       THEN /\ LET item == Head(chat[t].out)
               IN  chat' = [chat EXCEPT ![t].out = Tail(@),
                                        ![t].got = @ \o TextOf(item)]
            /\ UNCHANGED named
       ELSE /\ chat[t].converter = "returned"
            /\ chat' = [chat EXCEPT ![t].end = "stop"]
            /\ named' = run_id[t]
    /\ UNCHANGED <<orchestratorVars, routingVars, client, runs, stored>>

ChatStep(t) == convertStreamResponse(t) \/ handleStreaming(t) \/ handleNonStreaming(t)

\* A connection breaks; what was under way on it is still read.
LinkBreaks(t) ==
    /\ Fault
    /\ \/ /\ routing[t] = "relay" /\ up[t].end = "open"
          /\ up' = [up EXCEPT ![t].end = "broken"] /\ UNCHANGED down
       \/ /\ chat[t].end = "waiting" /\ down[t].end = "open"
          /\ down' = [down EXCEPT ![t].end = "broken"] /\ UNCHANGED up
    /\ UNCHANGED <<orch, run_id, knew, history, memories, routing, chatVars>>

AgentFault(t) ==
    /\ Fault
    /\ \/ /\ Raise(t) \/ HistoryRefused(t) \/ HistoryMasked(t) \/ MemoriesMasked(t) \/ MemoryMasked(t)
          /\ UNCHANGED <<routingVars, chatVars>>
       \/ RoutingRaise(t) /\ UNCHANGED chatVars

AgentStep(t) ==
    \/ OrchestratorStep(t) /\ UNCHANGED <<faults, routingVars, chatVars>>
    \/ RoutingStep(t) /\ UNCHANGED <<faults, chatVars>>

Next ==
    \E t \in Turn :
        \/ ChatStreaming(t) \/ ChatRefused(t) \/ ChatStep(t) \/ ClientLeft(t)
        \/ AgentStep(t) \/ AgentFault(t) \/ LinkBreaks(t)

\* An expert may never answer.  It is a fault like others, counted when it breaks
\* the connection, and nothing has to come once that is broken.
Stalls(t) == AwaitsExpert(t) /\ (faults < MaxFaults \/ down[t].end # "open")

GoesOn(t) == AgentStep(t) /\ (Stalls(t) => UNCHANGED orch)

\* The time-out that NewClient is given: it ends a request however long it waits.
TimeOut(t) == Stalls(t) /\ LinkBreaks(t) /\ down' # down

\* As long as the server or an agent can go on with a turn, or a question is to be
\* timed out, one of these happens; a turn has an end, so that none is passed
\* over for ever.
Spec ==
    /\ Init /\ [][Next]_vars
    /\ WF_vars(\E t \in Turn : ChatStep(t) \/ GoesOn(t) \/ TimeOut(t))

-----------------------------------------------------------------------------
Ends == {"open", "complete", "closed", "broken"}
Agent ==
    [at : {"off", "cards", "plan", "tasks", "recall", "stream", "store", "remember", "done"},
     plan : Plans \union {<<>>}, tasks_status : Seq(Statuses), next : Nat,
     retry_count : 0 .. MaxLoops, sent : Nat, text : 0 .. MaxText]
Wire == [events : Seq(Nat), end : Ends]
Request ==
    [end : {"not asked", "waiting", "stop", "error", "left"},
     converter : {"off", "on", "returned"}, out : Seq(Int), got : Seq(Nat)]
Row == [run : 0 .. Turns, turn : Turn, text : Nat]
Item == [run : 0 .. Turns, turn : Turn]

\* The variables have these types; a turn has at most one row of history.
TypeOK ==
    /\ HistoryTypeOK(0 .. Turns, Turn)
    /\ orch \in [Turn -> Agent] /\ up \in [Turn -> Wire] /\ down \in [Turn -> Wire]
    /\ run_id \in [Turn -> 0 .. runs]
    /\ knew \in [Turn -> [rows : SUBSET Row, items : SUBSET Item]]
    /\ stored \in [Turn -> SUBSET Turn]
    /\ routing \in [Turn -> {"off", "plan", "relay", "done"}]
    /\ chat \in [Turn -> Request]
    /\ \A t \in Turn :
         /\ Len(orch[t].tasks_status) = Len(orch[t].plan)
         /\ orch[t].next \in 1 .. Len(orch[t].plan) + 1
         /\ Len(up[t].events) <= WireCap /\ Len(down[t].events) <= WireCap
         /\ Len(chat[t].out) <= ChanCap
         /\ stored[t] \subseteq 1 .. t - 1
    /\ client \in Clients /\ named \in {NoRun, OwnRun} \union 1 .. runs
    /\ runs \in 0 .. Turns /\ faults \in 0 .. MaxFaults

\* What a client is given of an answer is its beginning, in order and without
\* gaps, whatever broke on the way; of a task the routing agent completed, it
\* is everything the orchestrator published, even when that one failed.
AnswerRelayed ==
    \A t \in Turn : chat[t].got # <<Apology>> =>
        /\ \A i \in DOMAIN chat[t].got : chat[t].got[i] = i
        /\ Len(chat[t].got) <= orch[t].sent
        /\ chat[t].end = "stop" /\ down[t].end = "complete" => Len(chat[t].got) = orch[t].sent

\* A client that sends the run id it was given has its follow-up question
\* planned and answered with every answer of the session that was stored when
\* it asked, or with as many later ones as are taken; unless the query failed.
FollowUpSeesStoredAnswers ==
    \A t \in Turn :
        client = "whole" /\ EnableHistory /\ orch[t].at \in {"tasks", "stream"} =>
            LET rows == knew[t].rows
                turns == {row.turn : row \in rows}
            IN  \/ rows = FailedSearch /\ faults > 0
                \/ \A s \in stored[t] \ turns :
                     /\ Cardinality(rows) = IF At(t, "tasks") THEN PlannerLimit ELSE AnswerLimit
                     /\ \A i, j \in DOMAIN history :
                          history[i].turn = s /\ history[j].turn \in turns => i < j

\* The history holds whole answers only: no answer whose stream ended before
\* its task did is in it, and each is under the run its question was asked in.
\* What is remembered is in the history, if there is one.  A plan or answer is
\* made with other turns of its run, and with later ones only when a connection
\* broke: then the client may have asked again before the agents had finished.
HistoryOfWholeAnswers ==
    /\ \A i \in DOMAIN history :
         LET t == history[i].turn
         IN  /\ up[t].end # "closed" /\ orch[t].at \in {"remember", "done"}
             /\ history[i].text = orch[t].text /\ history[i].run = run_id[t]
    /\ EnableHistory =>
         \A item \in memories : \E i \in DOMAIN history :
             history[i].turn = item.turn /\ history[i].run = item.run
    /\ \A t \in Turn :
         \A item \in knew[t].items \union knew[t].rows :
             /\ item.run = run_id[t] /\ item.turn # t
             /\ item.turn > t => faults > 0

\* An answer is composed from a plan with a failure only when no planning is
\* left; an exception is a failure too.  (Of a plan with one id twice it is
\* false: the status of the second task overwrites the first one's.)
FailuresReplanned ==
    [][\A t \in Turn :
         LET o == orch[t]
             p == orch'[t]
         IN  o.at = "tasks" /\ p.at = "recall" /\ (\A i, j \in DOMAIN o.plan : o.plan[i].id = o.plan[j].id => i = j)
             => p.retry_count = MaxLoops \/ \A i \in DOMAIN p.plan : p.tasks_status[i] = "complete"]_vars

-----------------------------------------------------------------------------
\* How the parts of a turn, and the turns, fit together: the inductive
\* invariant of the proofs.  Of a turn: r is its place in the routing agent,
\* q its request, o its agent, u and d are the streams up and down.

\* Where request, streams and agents of a turn can be.
Fits(r, q, o, u, d) ==
    /\ r = "off" <=> q.end \in {"not asked", "error"}
    /\ r = "off" <=> q.converter = "off"
    /\ r = "off" => q.out = <<>> /\ d = Open
    /\ r \in {"off", "plan"} =>
         o.at = "off" /\ d.events = <<>> /\ q.got = <<>> /\ \A i \in DOMAIN q.out : q.out[i] = IsEnd
    /\ o.at = "off" => o = Off /\ u = Open
    /\ r = "relay" => o.at # "off"
    /\ r \in {"plan", "relay"} => d.end \in {"open", "broken"}
    /\ u.end \in {"complete", "closed"} => o.at \in {"store", "remember", "done"}
    /\ o.at \in {"store", "remember"} => u.end \in {"complete", "broken"}
    /\ o.at = "done" => u.end # "open"
    /\ q.end = "stop" => q.converter = "returned" /\ q.out = <<>>
    /\ q.converter = "returned" => d.events = <<>> /\ d.end # "open"
    /\ o.at = "tasks" => o.next <= Len(o.plan)

\* The chunks of a turn are numbered from 1; the routing agent's own is 0.
Nth(o, n) == IF o.at = "off" THEN Apology + n - 1 ELSE n

Ending(q) == IF q.out # <<>> /\ q.out[Len(q.out)] = IsEnd THEN 1 ELSE 0
Relayed(q, d) == Len(q.got) + Len(q.out) - Ending(q) + Len(d.events)

\* What is on its way to the client is the next chunks, in order, the end last;
\* none is missing unless a connection broke, or the client has left.
UnderWay(r, q, o, u, d) ==
    /\ \A i \in 1 .. Len(q.out) :
         IF q.out[i] = IsEnd THEN i = Len(q.out) /\ q.converter = "returned"
         ELSE q.out[i] = Nth(o, Len(q.got) + i)
    /\ \A i \in 1 .. Len(d.events) : d.events[i] = Nth(o, Len(q.got) + Len(q.out) + i)
    /\ Relayed(q, d) <= IF o.at = "off" THEN 1 ELSE o.sent
    /\ r = "relay" /\ d.end = "open" =>
         /\ \A i \in 1 .. Len(u.events) : u.events[i] = Relayed(q, d) + i
         /\ Relayed(q, d) + Len(u.events) <= o.sent
         /\ u.end # "broken" => Relayed(q, d) + Len(u.events) = o.sent
    /\ d.end = "complete" /\ o.at # "off" =>
         Relayed(q, d) = o.sent /\ o.at \in {"store", "remember", "done"}
InOrder(r, q, o, u, d) ==
    /\ \A i \in 1 .. Len(q.got) : q.got[i] = Nth(o, i)
    /\ Len(q.got) <= IF o.at = "off" THEN 1 ELSE o.sent
    /\ q.end # "left" => UnderWay(r, q, o, u, d)

TurnsInv ==
    \A t \in Turn :
        /\ Fits(routing[t], chat[t], orch[t], up[t], down[t])
        /\ InOrder(routing[t], chat[t], orch[t], up[t], down[t])

\* Only a fault closes or breaks a stream, and only then a client leaves.
FaultsInv ==
    \A t \in Turn :
        \/ up[t].end \in {"closed", "broken"} \/ down[t].end \in {"closed", "broken"}
        \/ chat[t].end = "left"
        => faults > 0

\* Turns are asked one after the other, and each makes at most one run.
TurnOrder ==
    /\ \A s, t \in Turn : s < t /\ chat[t].end # "not asked" => Ended(s)
    /\ \A t \in Turn : chat[t].end = "not asked" => runs <= t - 1

\* Of a plan without duplicates, every task that was run has a result.
ResultsInv ==
    \A t \in Turn :
        LET o == orch[t]
        IN  At(t, "tasks") /\ (\A i, j \in DOMAIN o.plan : o.plan[i].id = o.plan[j].id => i = j) =>
                \A i \in 1 .. o.next - 1 : o.tasks_status[i] \in {"complete", "fail"}

\* What is remembered, and what is known, was stored by agents that are done.
StoredTurns == {history[i].turn : i \in DOMAIN history}
MemoryInv ==
    /\ \A item \in memories : At(item.turn, "done") /\ item.run = run_id[item.turn]
    /\ \A t \in Turn :
         /\ EnableHistory /\ At(t, "remember") => t \in StoredTurns
         /\ knew[t].rows \subseteq {history[i] : i \in DOMAIN history} /\ knew[t].items \subseteq memories
         /\ orch[t].at \notin {"tasks", "stream"} => knew[t] = Nothing
         /\ stored[t] \subseteq StoredTurns

\* A query finds as many rows as there are, up to its limit.
LimitsInv ==
    \A run \in 0 .. Turns, limit \in 0 .. PlannerLimit + AnswerLimit :
        Cardinality(LastOf(RowsOf(run), limit)) =
            IF Cardinality(RowsOf(run)) < limit THEN Cardinality(RowsOf(run)) ELSE limit

\* The questions of a client that asks for whole answers are one run.
SessionInv ==
    client = "whole" =>
        /\ \A s, t \in Turn : routing[s] # "off" /\ routing[t] # "off" => run_id[s] = run_id[t]
        /\ \A t \in Turn : routing[t] # "off" =>
             run_id[t] \in 1 .. runs /\ (Ended(t) => named = run_id[t])

IInv ==
    /\ TypeOK /\ TurnsInv /\ FaultsInv /\ TurnOrder
    /\ ResultsInv /\ MemoryInv /\ HistoryOfWholeAnswers
    /\ LimitsInv /\ SessionInv /\ FollowUpSeesStoredAnswers

\* Every question comes to an end for the client, however the agents fail and
\* though an expert never answers, and the goroutine that converts its stream has
\* returned, unless nobody read it: again and again there is none that waits.
QuestionEnds ==
    []<>\A t \in Turn :
            /\ chat[t].end # "waiting"
            /\ chat[t].converter = "on" => chat[t].end = "left"

\* "Multi-turn conversation context": a session of dactl chat is one run.
SessionStaysInOneRun ==
    \A s, t \in Turn :
        client = "tui" /\ chat[s].converter # "off" /\ chat[t].converter # "off" => run_id[s] = run_id[t]
=============================================================================
