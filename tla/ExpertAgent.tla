----------------------------- MODULE ExpertAgent -----------------------------
(***************************************************************************)
(* One question put to an expert agent: the loop of run, its steps, and    *)
(* the chunks it streams.                                                  *)
(*                                                                         *)
(* A step is a chain of awaited calls - to the model, to data-services, to *)
(* the user's database - each of which may raise; `at` is the call the     *)
(* chain has come to.  A query is named by the step that worded it, 0 for  *)
(* the user's.  What the model writes is abstracted to what the code       *)
(* branches on.                                                            *)
(***************************************************************************)
EXTENDS Integers, Sequences

CONSTANT MaxSteps  \* --max-steps

ASSUME ExpertAssumption == MaxSteps \in Nat \ {0}

VARIABLES
    agent_type,        \* what descriptor_types amount to
    dictionary,        \* SQL_PROCESS_MODE is "dictionary"
    at,                \* the next call
    state, current_step, query, step_status_list,
    description,       \* of the task being answered, as observers are shown it
    llm_result,        \* of the current step
    spoken, said, ended

control == <<state, current_step, query, step_status_list, description>>
stream == <<spoken, said, ended>>
vars == <<agent_type, dictionary, at, control, llm_result, stream>>

NoQuery == -1  \* None

-----------------------------------------------------------------------------
\* What the calls may give.  A field of the answer may be null or empty; an
\* answer no parser accepts becomes the conclusion "error", which also stands
\* for any other word the model may use.
Text == {"none", "empty", "text"}
format_llm_ouput == {"terminate", "continue", "error"}
LLMResult == [conclusion : format_llm_ouput, answer : Text, requery : Text]
RequeryResult == [conclusion : format_llm_ouput, requery : Text]

invoke_unstructured == LLMResult
invoke_common == LLMResult
invoke_structured == LLMResult
invoke_structured_dictionary_mode == LLMResult
\* An unparsable answer lacks the key requery, and is raised as invalid.
invoke_requery == {r \in RequeryResult : r.conclusion # "error" \/ r.requery # "none"}
invoke_requery_sql == invoke_requery
invoke_structured_task_analyze == {"sql", "nosql", "error"}
execute_db_query == {"rows", "not found records", "error"}
observe_sql == format_llm_ouput
observe_common == format_llm_ouput
observe_unstructured == format_llm_ouput

\* The calls whose exceptions step catches; get_knowledge has its own.
Fallible ==
    {"unstructured", "task_analyze", "table_selector", "dimension_selector",
     "structured", "common", "source_metadata", "requery_error", "observe_sql",
     "requery_sql", "observe", "requery"}

Init ==
    /\ agent_type \in {"unstructured", "structured", "unknown"}
    /\ dictionary \in BOOLEAN
    /\ at = "loop"
    /\ state = "RUNNING" /\ current_step = 0 /\ query = 0 /\ step_status_list = <<>>
    /\ description = 0
    /\ llm_result = [conclusion |-> "error", answer |-> "none", requery |-> "none"]
    /\ spoken = 0 /\ said = "nothing" /\ ended = "running"

-----------------------------------------------------------------------------
\* The exception leaves run: the executor never completes the task, and the
\* context manager restores the state it found.
Die ==
    /\ at' = "ended" /\ ended' = "raised" /\ state' = "IDLE"
    /\ UNCHANGED <<agent_type, dictionary, current_step, query, step_status_list,
                   description, llm_result, spoken, said>>

Go(place) == at' = place /\ UNCHANGED <<agent_type, dictionary, stream>>

\* The step returns and run yields what it returned.
Yield(chunk) ==
    /\ at' = "loop"
    /\ spoken' = spoken + 1 /\ said' = chunk
    /\ UNCHANGED <<agent_type, dictionary, current_step, ended>>

\* Query and answer are strings or the entry is refused.
save_step_status == step_status_list' = Append(step_status_list, [id |-> current_step, query |-> query])

_update_task_description(q) == description' = q

-----------------------------------------------------------------------------
\* Variant: the last step is one too many.
BeginOneMore ==
    /\ at = "loop" /\ current_step <= MaxSteps /\ state # "FINISHED"
    /\ current_step' = current_step + 1
    /\ IF agent_type = "unknown"
       THEN at' = "ended" /\ ended' = "raised" /\ state' = "IDLE"
       ELSE /\ at' = IF agent_type = "unstructured" THEN "unstructured" ELSE "task_analyze"
            /\ UNCHANGED <<ended, state>>
    /\ UNCHANGED <<agent_type, dictionary, query, step_status_list, description,
                   llm_result, spoken, said>>

BeginStep ==
    /\ at = "loop" /\ current_step < MaxSteps /\ state # "FINISHED"
    /\ current_step' = current_step + 1
    /\ IF agent_type = "unknown"
       THEN at' = "ended" /\ ended' = "raised" /\ state' = "IDLE"
       ELSE /\ at' = IF agent_type = "unstructured" THEN "unstructured" ELSE "task_analyze"
            /\ UNCHANGED <<ended, state>>
    /\ UNCHANGED <<agent_type, dictionary, query, step_status_list, description,
                   llm_result, spoken, said>>

EndRun ==
    /\ at = "loop" /\ ~(current_step < MaxSteps /\ state # "FINISHED")
    /\ at' = "ended" /\ ended' = "complete" /\ state' = "IDLE"
    /\ current_step' = IF current_step >= MaxSteps THEN 0 ELSE current_step
    /\ UNCHANGED <<agent_type, dictionary, query, step_status_list, description,
                   llm_result, spoken, said>>

\* Unstructured data, and tasks that need no SQL.
Answer ==
    /\ \/ at = "unstructured" /\ llm_result' \in invoke_unstructured
       \/ at = "common" /\ llm_result' \in invoke_common
    /\ Go(IF llm_result'.conclusion = "terminate" THEN "observe" ELSE "conclude")
    /\ UNCHANGED control

Observe ==
    /\ at = "observe"
    /\ \E verdict \in observe_common \union observe_unstructured :
         IF verdict = "continue"
         THEN /\ llm_result' = [llm_result EXCEPT !.conclusion = "continue"]
              /\ state' = "IDLE"
              /\ Go("requery")
         ELSE /\ llm_result' = [llm_result EXCEPT !.answer = "marked"]
              /\ Go("conclude")
              /\ UNCHANGED state
    /\ UNCHANGED <<current_step, query, step_status_list, description>>

Usable(r) == r.conclusion = "terminate" /\ r.requery = "text"

Requery ==
    /\ at = "requery"
    /\ \E r \in invoke_requery :
         llm_result' = [llm_result EXCEPT !.answer = "text",
                                          !.requery = IF Usable(r) THEN "text" ELSE @]
    /\ Go("conclude")
    /\ UNCHANGED control

-----------------------------------------------------------------------------
\* Structured data.
TaskAnalyze ==
    /\ at = "task_analyze"
    /\ \E conclusion \in invoke_structured_task_analyze :
         Go(IF conclusion # "sql" THEN "common"
            ELSE IF dictionary THEN "table_selector" ELSE "structured")
    /\ UNCHANGED <<control, llm_result>>

\* Nothing but its exceptions matters here of what they select.
invoke_structured_with_table_selector ==
    /\ at = "table_selector" /\ Go("dimension_selector") /\ UNCHANGED <<control, llm_result>>
invoke_structured_with_dimension_selector ==
    /\ at = "dimension_selector" /\ Go("structured") /\ UNCHANGED <<control, llm_result>>

\* The run is finished before the SQL it was finished for has run.
Generate ==
    /\ at = "structured"
    /\ llm_result' \in IF dictionary THEN invoke_structured_dictionary_mode ELSE invoke_structured
    /\ IF llm_result'.conclusion = "terminate"
       THEN state' = "FINISHED" /\ Go("source_metadata")
       ELSE Go("conclude") /\ UNCHANGED state
    /\ UNCHANGED <<current_step, query, step_status_list, description>>

\* The SQL runs; it may fail, and does when there is none.
Execute ==
    /\ at = "source_metadata"
    /\ \E found \in execute_db_query :
         /\ llm_result.answer # "text" => found = "error"
         /\ IF found = "error"
            THEN /\ llm_result' = [llm_result EXCEPT !.conclusion = "continue"]
                 /\ Go("requery_error")
            ELSE Go("observe_sql") /\ UNCHANGED llm_result
    /\ UNCHANGED control

\* Variant: the SQL is run again until it runs.
RequeryAfterErrorRetrying ==
    /\ at = "requery_error"
    /\ \E r \in invoke_requery_sql :
         IF Usable(r)
         THEN /\ llm_result' = [llm_result EXCEPT !.requery = "text", !.answer = "text"]
              /\ state' = "IDLE"
         ELSE UNCHANGED <<llm_result, state>>
    /\ Go("source_metadata")
    /\ UNCHANGED <<current_step, query, step_status_list, description>>

\* The query is reworded, and what comes next is judged as if nothing was found.
RequeryAfterError ==
    /\ at = "requery_error"
    /\ \E r \in invoke_requery_sql :
         IF Usable(r)
         THEN /\ llm_result' = [llm_result EXCEPT !.requery = "text", !.answer = "text"]
              /\ state' = "IDLE"
         ELSE UNCHANGED <<llm_result, state>>
    /\ Go("observe_sql")
    /\ UNCHANGED <<current_step, query, step_status_list, description>>

\* Variant: the state is left to what the rephrasing made of it.
ObserveSqlLeavingState ==
    /\ at = "observe_sql"
    /\ \E verdict \in observe_sql :
         IF verdict = "terminate"
         THEN llm_result' = [llm_result EXCEPT !.answer = "marked"] /\ Go("conclude")
         ELSE /\ llm_result' = [llm_result EXCEPT !.conclusion = "continue"]
              /\ Go("requery_sql")
    /\ UNCHANGED control

ObserveSql ==
    /\ at = "observe_sql"
    /\ \E verdict \in observe_sql :
         IF verdict = "terminate"
         THEN /\ state' = "FINISHED"
              /\ llm_result' = [llm_result EXCEPT !.answer = "marked"]
              /\ Go("conclude")
         ELSE /\ llm_result' = [llm_result EXCEPT !.conclusion = "continue"]
              /\ Go("requery_sql")
              /\ UNCHANGED state
    /\ UNCHANGED <<current_step, query, step_status_list, description>>

RequerySql ==
    /\ at = "requery_sql"
    /\ \E r \in invoke_requery_sql :
         IF Usable(r)
         THEN /\ llm_result' = [llm_result EXCEPT !.requery = "text", !.answer = "text"]
              /\ state' = "IDLE"
         ELSE UNCHANGED <<llm_result, state>>
    /\ Go("conclude")
    /\ UNCHANGED <<current_step, query, step_status_list, description>>

-----------------------------------------------------------------------------
\* A call of the step raised.
Raise == at \in Fallible /\ Go("failed") /\ UNCHANGED <<control, llm_result>>

\* Variant: without making the run able to go on.
StepFailedStillFinished ==
    /\ at = "failed"
    /\ IF query = NoQuery
       THEN Die
       ELSE save_step_status /\ Go("rephrase")
            /\ UNCHANGED <<state, current_step, query, description, llm_result>>

\* Its handler records the step, and has the query reworded.
StepFailed ==
    /\ at = "failed"
    /\ IF query = NoQuery
       THEN Die
       ELSE /\ state' = "IDLE"
            /\ save_step_status
            /\ Go("rephrase")
            /\ UNCHANGED <<current_step, query, description, llm_result>>

Rephrase ==
    /\ at = "rephrase"
    /\ \/ Die
       \/ \E r \in invoke_requery :
            /\ IF r.conclusion = "terminate"
               THEN /\ query' = IF r.requery = "none" THEN NoQuery ELSE current_step
                    /\ _update_task_description(query')
               ELSE UNCHANGED <<query, description>>
            /\ Yield("apology")
            /\ UNCHANGED <<state, step_status_list, llm_result>>

Said == CASE llm_result.answer = "marked" -> "marked"
          [] llm_result.answer = "text" -> "answer"
          [] OTHER -> "apology"

Unsaveable == query = NoQuery \/ llm_result.answer = "none"

\* Variant: the step is saved with the query of the next one.
ConcludeSavingLate ==
    /\ at = "conclude"
    /\ LET saved == llm_result.conclusion \in {"terminate", "continue"}
           reworded == llm_result.conclusion = "continue" /\ llm_result.requery = "text"
       IN  IF saved /\ Unsaveable
           THEN Die
           ELSE /\ state' = IF llm_result.conclusion = "terminate" THEN "FINISHED" ELSE state
                /\ query' = IF reworded THEN current_step ELSE query
                /\ step_status_list' = IF saved THEN Append(step_status_list, [id |-> current_step, query |-> query'])
                                       ELSE step_status_list
                /\ description' = IF reworded THEN current_step ELSE description
                /\ Yield(Said)
                /\ UNCHANGED llm_result

\* The end of step.
Conclude ==
    /\ at = "conclude"
    /\ LET saved == llm_result.conclusion \in {"terminate", "continue"}
           reworded == llm_result.conclusion = "continue" /\ llm_result.requery = "text"
       IN  IF saved /\ Unsaveable
           THEN Die
           ELSE /\ state' = IF llm_result.conclusion = "terminate" THEN "FINISHED" ELSE state
                /\ IF saved THEN save_step_status ELSE UNCHANGED step_status_list
                /\ IF reworded
                   THEN query' = current_step /\ _update_task_description(current_step)
                   ELSE UNCHANGED <<query, description>>
                /\ Yield(Said)
                /\ UNCHANGED llm_result

step ==
    \/ Answer \/ Observe \/ Requery
    \/ TaskAnalyze \/ invoke_structured_with_table_selector
    \/ invoke_structured_with_dimension_selector
    \/ Generate \/ Execute \/ RequeryAfterError \/ ObserveSql \/ RequerySql
    \/ Raise \/ StepFailed \/ Rephrase \/ Conclude

Done == at = "ended" /\ UNCHANGED vars

Next == BeginStep \/ step \/ EndRun \/ Done

\* The calls that read the user's database: a connection of its pool is waited
\* for without a time-out, and the pool may never have one again (SqlReaders).
Querying == at \in {"table_selector", "dimension_selector", "source_metadata"}

\* Every other call returns or raises: the clients of the model and of
\* data-services time out.
Spec == Init /\ [][Next]_vars /\ WF_vars(BeginStep \/ (step /\ ~Querying) \/ EndRun)

-----------------------------------------------------------------------------
(* Type correctness of the run's state. *)
TypeOK ==
    /\ at \in Fallible \union {"loop", "failed", "rephrase", "conclude", "ended"}
    /\ state \in {"IDLE", "RUNNING", "FINISHED"}
    /\ current_step \in 0 .. MaxSteps
    /\ {query, description} \subseteq -1 .. MaxSteps
    /\ step_status_list \in Seq([id : 1 .. MaxSteps, query : 0 .. MaxSteps])
    /\ Len(step_status_list) <= MaxSteps
    /\ llm_result \in [conclusion : format_llm_ouput, answer : Text \union {"marked"}, requery : Text]

(* The history the rephrasing is made from (get_step_history_for_requery)    *)
(* pairs each answer with the query it answers: one worded before that step, *)
(* never the one worded because that answer was bad.                         *)
HistoryKeepsQuery ==
    \A i \in DOMAIN step_status_list :
        /\ step_status_list[i].query < step_status_list[i].id
        /\ \A j \in 1 .. i - 1 : step_status_list[j].id < step_status_list[i].id

(* The task list the observers judge by describes the question being asked,  *)
(* whichever of the two ways of rewording it was taken.                      *)
TaskDescribesQuery == description = query

(* run ends before its last step only over an answer: over the mark of       *)
(* success, or, after SQL was run, over one that could not be reworded.  A   *)
(* step that raised is followed by another ("regenerate the question and     *)
(* proceed to the next step loop", server.py).  The one apology it can end   *)
(* with is for SQL the model left empty.                                     *)
EndsEarlyOverAnAnswer ==
    [][ended' = "complete" /\ ended = "running" /\ current_step < MaxSteps =>
         \/ said = "marked"
         \/ /\ agent_type = "structured"
            /\ said = "apology" => llm_result.answer = "empty"]_vars

(* A run ends, whatever the model answers and whichever calls raise, unless  *)
(* it is left waiting in a query of the user's database: no rewording, no    *)
(* observer and no handler sends it round without a step being counted.      *)
RunEnds == <>[](at = "ended" \/ Querying)

-----------------------------------------------------------------------------
\* What the calls of the chain rely on: the inductive invariant of the proofs.

StreamTypes ==
    /\ agent_type \in {"unstructured", "structured", "unknown"} /\ dictionary \in BOOLEAN
    /\ spoken \in 0 .. MaxSteps
    /\ said \in {"nothing", "apology", "answer", "marked"}
    /\ ended \in {"running", "complete", "raised"}
    /\ ended = "running" <=> at # "ended"

\* Each step behind the loop has said one chunk and saved one answer at most.
StepsCounted ==
    /\ at = "loop" => spoken = current_step /\ query <= current_step
    /\ at \notin {"loop", "ended"} => spoken = current_step - 1 /\ query < current_step
    /\ at \in {"loop", "rephrase"} => Len(step_status_list) <= current_step
    /\ at \notin {"loop", "rephrase", "ended"} => Len(step_status_list) < current_step

SavedBefore ==
    \A i \in DOMAIN step_status_list :
        /\ at \in {"loop", "rephrase"} => step_status_list[i].id <= current_step
        /\ at \notin {"loop", "rephrase", "ended"} => step_status_list[i].id < current_step

\* Where the run may be finished already, and which answers are marked there.
Sql == {"source_metadata", "requery_error", "observe_sql", "requery_sql"}

Verdicts ==
    /\ at \in (Fallible \ Sql) \union {"rephrase"} => state # "FINISHED"
    /\ at \in Sql \union {"task_analyze", "table_selector", "dimension_selector", "structured"} =>
         agent_type = "structured"
    /\ at \in Sql \union {"observe", "requery"} => llm_result.answer # "marked"
    /\ at \in Sql => llm_result.conclusion \in {"terminate", "continue"}
    /\ at = "observe" => llm_result.conclusion = "terminate"
    /\ at \in {"requery", "requery_error", "requery_sql"} => llm_result.conclusion = "continue"
    /\ at = "conclude" =>
         /\ llm_result.conclusion = "terminate" => llm_result.answer = "marked"
         /\ llm_result.answer = "marked" => state = "FINISHED" \/ llm_result.conclusion = "terminate"
         /\ state = "FINISHED" => llm_result.conclusion # "error"
         /\ state = "FINISHED" => llm_result.answer = "marked" \/ agent_type = "structured"

Finishing ==
    /\ at \notin {"loop", "ended"} => said # "marked"
    /\ at = "loop" /\ said = "marked" => state = "FINISHED"
    /\ at = "loop" /\ state = "FINISHED" =>
         \/ said = "marked"
         \/ agent_type = "structured" /\ (said = "apology" => llm_result.answer = "empty")

IInv ==
    /\ TypeOK /\ HistoryKeepsQuery /\ TaskDescribesQuery
    /\ StreamTypes /\ StepsCounted /\ SavedBefore /\ Verdicts /\ Finishing

(* The run is what AgentAnswers promises: at most one chunk a step, nothing  *)
(* after the mark of success, and no end but completion after the mark.      *)
Answers == INSTANCE AgentAnswers WITH MaxChunks <- MaxSteps
ImplementsAgentAnswers == Answers!Spec
=============================================================================
