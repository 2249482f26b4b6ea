--------------------------- MODULE OrchestratorAgent ---------------------------
(***************************************************************************)
(* The orchestrator agent, for one turn of a conversation at a time: it    *)
(* plans, has the experts run the tasks of the plan, plans again when one  *)
(* failed, streams an answer and stores it - in this order, the storing    *)
(* after the completion is published.                                      *)
(*                                                                         *)
(* Every turn has an agent object of its own; turns meet in the history.   *)
(* What an expert streams, if it ends, is one of the ends AgentAnswers     *)
(* allows, which ExpertAgent is shown to implement.                        *)
(***************************************************************************)
EXTENDS History, AgentSearch

CONSTANTS
    Turns,         \* questions asked
    EnableHistory, \* --enable-history
    MaxLoops,      \* --max-loops
    PlannerLimit,  \* rows of history a plan is made with
    AnswerLimit,   \* and an answer
    MaxText,       \* bound on the chunks of an answer
    WireCap,       \* events a stream holds before its producer waits
    Plans          \* the plans the model may make

Turn == 1 .. Turns

\* A task: the id the model gave it, and whether its agent is a registered one.
Task == [id : Nat, known : BOOLEAN]
Statuses == {"not_started", "complete", "fail"}

ASSUME OrchestratorAssumption ==
    /\ EnableHistory \in BOOLEAN
    /\ {Turns, MaxLoops, MaxText} \subseteq Nat
    /\ {PlannerLimit, AnswerLimit, WireCap} \subseteq Nat \ {0}
    /\ Plans \subseteq Seq(Task)

VARIABLES
    orch,             \* orch[t]: the agent of turn t
    up,               \* up[t]: its event stream to the routing agent
    run_id,           \* run_id[t]: the run in the request's metadata
    knew,             \* knew[t]: what the plan or the answer under way is made with
    faults            \* calls that failed and links that broke so far

orchestratorVars == <<orch, up, run_id, knew, faults, history, memories>>

\* sent: chunks published, text: those that are of the answer.
Off == [at |-> "off", plan |-> <<>>, tasks_status |-> <<>>, next |-> 1, retry_count |-> 0,
        sent |-> 0, text |-> 0]
\* A stream: events under way, and how it ended, if it has.
Open == [events |-> <<>>, end |-> "open"]
Nothing == [rows |-> {}, items |-> {}]

OrchestratorInit ==
    /\ HistoryInit
    /\ orch = [t \in Turn |-> Off]
    /\ up = [t \in Turn |-> Open]
    /\ run_id = [t \in Turn |-> 0]
    /\ knew = [t \in Turn |-> Nothing]

-----------------------------------------------------------------------------
\* Streams.  What is published on a broken stream is lost.
Room(wire) == wire.end # "open" \/ Len(wire.events) < WireCap
Publish(wire, chunk) == IF wire.end = "open" THEN [wire EXCEPT !.events = Append(@, chunk)] ELSE wire
End(wire, how) == IF wire.end = "open" THEN [wire EXCEPT !.end = how] ELSE wire

At(t, place) == orch[t].at = place

\* The agent of t goes on as o, having published a chunk.
Emit(t, o) ==
    /\ Room(up[t])
    /\ up' = [up EXCEPT ![t] = Publish(@, orch[t].sent + 1)]
    /\ orch' = [orch EXCEPT ![t] = [o EXCEPT !.sent = @ + 1]]

ToAnswer(o) == [o EXCEPT !.at = "recall"]

\* The plan is forgotten.
Forget(o) == [o EXCEPT !.plan = <<>>, !.tasks_status = <<>>, !.next = 1, !.retry_count = 0]

\* The exception leaves execute: the stream ends without the task having ended,
\* or, if it has, it may still be open and break.
Fails(wire) ==
    CASE wire.end = "open" -> {[wire EXCEPT !.end = how] : how \in {"closed", "broken"}}
      [] wire.end = "complete" -> {wire, [wire EXCEPT !.end = "broken"]}
      [] OTHER -> {wire}
\* Variant: whatever was streamed is stored.
AbortStoring(t) ==
    /\ orch' = [orch EXCEPT ![t] = [Forget(@) EXCEPT !.at = IF @ = "stream" THEN "store" ELSE "done"]]
    /\ \E wire \in Fails(up[t]) : up' = [up EXCEPT ![t] = wire]
    /\ knew' = [knew EXCEPT ![t] = Nothing]

Abort(t) ==
    /\ orch' = [orch EXCEPT ![t] = [Forget(orch[t]) EXCEPT !.at = "done"]]
    /\ \E wire \in Fails(up[t]) : up' = [up EXCEPT ![t] = wire]
    /\ knew' = [knew EXCEPT ![t] = Nothing]

-----------------------------------------------------------------------------
\* get_plan, and a2a_tasks when it plans again.
list_agent_cards(t) ==
    /\ At(t, "cards")
    /\ \/ /\ "cards" \in asearch
          /\ orch' = [orch EXCEPT ![t].at = "plan"]
          /\ UNCHANGED up
       \/ /\ "none" \in asearch
          /\ IF orch[t].retry_count = 0
             THEN /\ Room(up[t])
                  /\ orch' = [orch EXCEPT ![t].at = "done", ![t].sent = @ + 1]
                  /\ up' = [up EXCEPT ![t] = End(Publish(@, orch[t].sent + 1), "complete")]
             ELSE Emit(t, ToAnswer(orch[t]))
    /\ UNCHANGED <<knew, history, memories>>

\* PlannerAgent.get_history: nothing is awaited between it and the planning.
planner_get_history(t) ==
    IF EnableHistory THEN search_history_records(run_id[t], PlannerLimit) ELSE {}

\* The plan may be empty: then nothing is asked, or asked again.
PlanKnowing(t, rows) ==
    /\ At(t, "plan")
    /\ \E plan \in Plans :
         IF plan = <<>> THEN Emit(t, ToAnswer(orch[t])) /\ UNCHANGED knew
         ELSE /\ knew' = [knew EXCEPT ![t].rows = rows]
              /\ orch' = [orch EXCEPT ![t] = [@ EXCEPT !.at = "tasks", !.plan = plan, !.next = 1,
                             !.tasks_status = [i \in DOMAIN plan |-> "not_started"]]]
              /\ UNCHANGED up
    /\ UNCHANGED <<history, memories>>

make_plan(t) == PlanKnowing(t, planner_get_history(t))

\* The stream of an expert is waited for, and no time-out is given with it.
AwaitsExpert(t) == At(t, "tasks") /\ orch[t].plan[orch[t].next].known

\* How the stream of an expert can end: as AgentAnswers says, an exception of
\* its being seen as the end, as an error or as a broken connection.
AgentEnd ==
    {e \in [said : {"nothing", "other", "marked"}, end : {"complete", "closed", "error", "broken"}] :
        e.said = "marked" => e.end \notin {"closed", "error"}}

\* The answer's last chunk decides; an error is a chunk without text, which
\* joining the chunks stumbles over.
get_last_step_status(e) ==
    CASE e.end = "error" -> "exception"
      [] e.end = "broken" -> "fail"
      [] OTHER -> IF e.said = "marked" THEN "complete" ELSE "fail"
a2a_stream(task) ==
    IF task.known THEN {get_last_step_status(e) : e \in AgentEnd} ELSE {"fail"}

\* Only the first task with that id.
_update_task_status(o, status) ==
    LET id == o.plan[o.next].id
        first == CHOOSE i \in DOMAIN o.plan :
                    o.plan[i].id = id /\ \A j \in 1 .. i - 1 : o.plan[j].id # id
    IN  [o.tasks_status EXCEPT ![first] = status]

should_retry_planning(tasks_status) == \E i \in DOMAIN tasks_status : tasks_status[i] = "fail"

Replans(o) == should_retry_planning(o.tasks_status) /\ o.retry_count < MaxLoops

\* Variant: an exception is logged, and that is all.
StatusUnlessRaised(result) == IF result = "exception" THEN "not_started" ELSE result

StatusOf(result) == IF result = "exception" THEN "fail" ELSE result

\* The next task is run.  A failed one is the last of its plan, one that raised
\* is not; a plan with a failure is followed by another, MaxLoops times.  What
\* is said of a plan and its tasks is one chunk, when the plan is over.
a2a_tasks(t) ==
    /\ At(t, "tasks")
    /\ \E result \in a2a_stream(orch[t].plan[orch[t].next]) :
         LET o == orch[t]
             after == [o EXCEPT !.tasks_status = _update_task_status(o, StatusOf(result)), !.next = @ + 1]
         IN  IF result # "fail" /\ o.next < Len(o.plan)
             THEN orch' = [orch EXCEPT ![t] = after] /\ UNCHANGED <<up, knew>>
             ELSE /\ Emit(t, IF Replans(after)
                             THEN [after EXCEPT !.at = "cards", !.retry_count = @ + 1, !.next = 1]
                             ELSE ToAnswer(after))
                  /\ knew' = [knew EXCEPT ![t] = Nothing]
    /\ UNCHANGED <<history, memories>>

-----------------------------------------------------------------------------
\* OrchestratorAgent.get_history and get_memory.
get_history(t) == IF EnableHistory THEN search_history_records(run_id[t], AnswerLimit) ELSE {}

get_memory(t) == search_memory_items(run_id[t])

\* stream: memories and history are recalled, the answer streamed,
RecallKnowing(t, rows, items) ==
    /\ At(t, "recall")
    /\ orch' = [orch EXCEPT ![t] = [Forget(@) EXCEPT !.at = "stream"]]
    /\ knew' = [knew EXCEPT ![t] = [rows |-> rows, items |-> items]]
    /\ UNCHANGED <<up, history, memories>>

recall(t) == RecallKnowing(t, get_history(t), get_memory(t))

stream(t) ==
    /\ At(t, "stream")
    /\ \/ orch[t].text < MaxText /\ Emit(t, [orch[t] EXCEPT !.text = @ + 1]) /\ UNCHANGED knew
       \/ /\ orch' = [orch EXCEPT ![t].at = "store"]
          /\ up' = [up EXCEPT ![t] = End(@, "complete")]
          /\ knew' = [knew EXCEPT ![t] = Nothing]
    /\ UNCHANGED <<history, memories>>

\* and only then stored: the history, if it is kept,
add_history(t) ==
    /\ At(t, "store")
    /\ IF EnableHistory
       THEN create_history_record(run_id[t], t, orch[t].text)
       ELSE UNCHANGED <<history, memories>>
    /\ orch' = [orch EXCEPT ![t].at = "remember"]
    /\ UNCHANGED <<up, knew>>

\* and the memory.
Remember(t, stores) ==
    /\ At(t, "remember")
    /\ IF stores THEN add_memory_item(run_id[t], t) ELSE UNCHANGED <<history, memories>>
    /\ orch' = [orch EXCEPT ![t].at = "done"]
    /\ UNCHANGED <<up, knew>>

add_memory(t) == Remember(t, TRUE)

OrchestratorStep(t) ==
    /\ \/ list_agent_cards(t) \/ make_plan(t) \/ a2a_tasks(t)
       \/ recall(t) \/ stream(t) \/ add_history(t) \/ add_memory(t)
    /\ UNCHANGED run_id

\* A call raises where the code has no handler.  The model's first plan is a
\* call like any other,
Raise(t) ==
    /\ orch[t].at \in {"cards", "plan", "stream"}
    /\ At(t, "cards") => "raised" \in asearch
    /\ Abort(t)
    /\ UNCHANGED <<run_id, history, memories>>

\* and so are the queries of the history that data-services refuses.
HistoryRefused(t) ==
    /\ EnableHistory /\ orch[t].at \in {"plan", "recall", "store"}
    /\ Abort(t)
    /\ UNCHANGED <<run_id, history, memories>>

\* A query that fails in the database is an empty one.
HistoryMasked(t) ==
    /\ EnableHistory
    /\ PlanKnowing(t, FailedSearch) \/ RecallKnowing(t, FailedSearch, get_memory(t))
    /\ UNCHANGED run_id

\* Of the memories, whatever fails: the client logs an error.
MemoriesMasked(t) == RecallKnowing(t, get_history(t), {}) /\ UNCHANGED run_id

\* A turn that could not be remembered is not missed either.
MemoryMasked(t) == Remember(t, FALSE) /\ UNCHANGED run_id
=============================================================================
