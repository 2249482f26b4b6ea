-------------------------- MODULE ExpertAgentProofs --------------------------
(***************************************************************************)
(* Proofs about ExpertAgent, for any number of steps: the inductive        *)
(* invariant, the action property that rests on it, and that a run         *)
(* implements AgentAnswers.                                                *)
(***************************************************************************)
EXTENDS ExpertAgent, TLAPS

\* Where a step is under way and has saved nothing.
Underway == Fallible \union {"failed", "conclude"}

LLMRecord == [conclusion : format_llm_ouput, answer : Text \union {"marked"}, requery : Text]

LEMMA Places ==
    /\ \A place \in Underway : place \notin {"loop", "rephrase", "ended"}
    /\ Fallible \subseteq Underway
  BY DEF Underway, Fallible

LEMMA EntriesTyped ==
    ASSUME NEW S, NEW s \in Seq(S)
    PROVE  \A i \in DOMAIN s : s[i] \in S
  OBVIOUS

LEMMA Unchanged ==
    ASSUME IInv, UNCHANGED vars
    PROVE  IInv'
  BY DEF IInv, TypeOK, HistoryKeepsQuery, TaskDescribesQuery, StreamTypes, StepsCounted,
         SavedBefore, Verdicts, Finishing, vars, control, stream

LEMMA InitInv == Init => IInv
  <1> SUFFICES ASSUME Init PROVE IInv
    OBVIOUS
  <1>1. MaxSteps \in Nat \ {0}
    BY ExpertAssumption
  <1>2. TypeOK
    BY <1>1 DEF Init, TypeOK, Text, format_llm_ouput
  <1>3. HistoryKeepsQuery /\ TaskDescribesQuery /\ SavedBefore
    BY DEF Init, HistoryKeepsQuery, TaskDescribesQuery, SavedBefore
  <1>4. StreamTypes /\ StepsCounted /\ Finishing
    BY <1>1 DEF Init, StreamTypes, StepsCounted, Finishing
  <1>5. Verdicts
    BY DEF Init, Verdicts, Fallible, Sql
  <1> QED
    BY <1>2, <1>3, <1>4, <1>5 DEF IInv

(***************************************************************************)
(* Within a step                                                           *)
(***************************************************************************)

\* A call that returns moves the chain on and touches neither query nor history.
LEMMA Within ==
    ASSUME IInv, at \in Underway, at' \in Underway,
           state' \in {"IDLE", "RUNNING", "FINISHED"},
           llm_result' \in [conclusion : format_llm_ouput, answer : Text \union {"marked"}, requery : Text],
           UNCHANGED <<agent_type, dictionary, stream, current_step, query, step_status_list,
                       description>>,
           Verdicts'
    PROVE  IInv'
  <1>1. at \notin {"loop", "rephrase", "ended"} /\ at' \notin {"loop", "rephrase", "ended"}
    BY Places
  <1>2. TypeOK'
    BY DEF IInv, TypeOK, Underway
  <1>3. HistoryKeepsQuery' /\ TaskDescribesQuery'
    BY DEF IInv, HistoryKeepsQuery, TaskDescribesQuery
  <1>4. StreamTypes' /\ Finishing'
    BY <1>1 DEF IInv, StreamTypes, Finishing, stream
  <1>5. StepsCounted' /\ SavedBefore'
    BY <1>1 DEF IInv, StepsCounted, SavedBefore, stream
  <1> QED
    BY <1>2, <1>3, <1>4, <1>5 DEF IInv

LEMMA AnswerInv == IInv /\ Answer => IInv'
  <1> SUFFICES ASSUME IInv, Answer PROVE IInv'
    OBVIOUS
  <1>1. /\ at \in Underway /\ at' \in Underway /\ at \in {"unstructured", "common"}
        /\ llm_result' \in LLMResult
        /\ at' = IF llm_result'.conclusion = "terminate" THEN "observe" ELSE "conclude"
        /\ UNCHANGED <<agent_type, dictionary, stream, control>>
    BY DEF Answer, Go, Underway, Fallible, invoke_unstructured, invoke_common
  <1>2. state # "FINISHED"
    BY <1>1 DEF IInv, Verdicts, Fallible, Sql
  <1>3. Verdicts'
    BY <1>1, <1>2 DEF Verdicts, Fallible, Sql, LLMResult, Text, control
  <1>4. llm_result' \in [conclusion : format_llm_ouput, answer : Text \union {"marked"}, requery : Text]
    BY <1>1 DEF LLMResult
  <1> QED
    BY <1>1, <1>3, <1>4, Within DEF IInv, TypeOK, control

LEMMA ObserveInv == IInv /\ Observe => IInv'
  <1> SUFFICES ASSUME IInv, Observe PROVE IInv'
    OBVIOUS
  <1>1. at = "observe" /\ state # "FINISHED" /\ llm_result.answer # "marked"
    BY DEF Observe, IInv, Verdicts, Fallible, Sql
  <1>2. UNCHANGED <<agent_type, dictionary, stream, current_step, query, step_status_list, description>>
    BY DEF Observe, Go
  <1>3. \/ /\ llm_result' = [llm_result EXCEPT !.conclusion = "continue"]
           /\ state' = "IDLE" /\ at' = "requery"
        \/ /\ llm_result' = [llm_result EXCEPT !.answer = "marked"]
           /\ state' = state /\ at' = "conclude"
    BY DEF Observe, Go
  <1>4. /\ llm_result \in [conclusion : format_llm_ouput, answer : Text \union {"marked"}, requery : Text]
        /\ state \in {"IDLE", "RUNNING", "FINISHED"}
    BY DEF IInv, TypeOK
  <1>5. llm_result.conclusion = "terminate"
    BY <1>1 DEF IInv, Verdicts
  <1>6. Verdicts'
    BY <1>1, <1>2, <1>3, <1>4, <1>5 DEF Verdicts, Fallible, Sql
  <1> QED
    BY <1>1, <1>2, <1>3, <1>4, <1>6, Within DEF Underway, Fallible, format_llm_ouput, Text

LEMMA RequeryInv == IInv /\ Requery => IInv'
  <1> SUFFICES ASSUME IInv, Requery PROVE IInv'
    OBVIOUS
  <1>1. /\ at = "requery" /\ at' = "conclude"
        /\ UNCHANGED <<agent_type, dictionary, stream, control>>
    BY DEF Requery, Go
  <1>2. PICK r \in invoke_requery :
          llm_result' = [llm_result EXCEPT !.answer = "text",
                                           !.requery = IF Usable(r) THEN "text" ELSE @]
    BY DEF Requery
  <1>3. /\ llm_result \in LLMRecord
        /\ llm_result.conclusion = "continue" /\ state # "FINISHED"
    BY <1>1 DEF IInv, TypeOK, Verdicts, Fallible, Sql, LLMRecord
  <1>4. /\ llm_result' \in LLMRecord
        /\ llm_result'.conclusion = "continue" /\ llm_result'.answer = "text"
    BY <1>2, <1>3 DEF LLMRecord, Text
  <1>5. Verdicts'
    BY <1>1, <1>3, <1>4 DEF Verdicts, Fallible, Sql, control
  <1> QED
    BY <1>1, <1>4, <1>5, Within DEF IInv, TypeOK, control, Underway, Fallible, LLMRecord

LEMMA AnalyzeInv ==
    ASSUME IInv,
           \/ TaskAnalyze \/ invoke_structured_with_table_selector
           \/ invoke_structured_with_dimension_selector
    PROVE  IInv'
  <1>1. /\ at \in {"task_analyze", "table_selector", "dimension_selector"}
        /\ at' \in {"common", "table_selector", "dimension_selector", "structured"}
        /\ UNCHANGED <<agent_type, dictionary, stream, control, llm_result>>
    BY DEF TaskAnalyze, invoke_structured_with_table_selector,
           invoke_structured_with_dimension_selector, Go
  <1>2. state # "FINISHED" /\ agent_type = "structured"
    BY <1>1 DEF IInv, Verdicts, Fallible, Sql
  <1>3. Verdicts'
    BY <1>1, <1>2 DEF Verdicts, Fallible, Sql, control
  <1> QED
    BY <1>1, <1>3, Within DEF IInv, TypeOK, control, Underway, Fallible

LEMMA GenerateInv == IInv /\ Generate => IInv'
  <1> SUFFICES ASSUME IInv, Generate PROVE IInv'
    OBVIOUS
  <1>1. /\ at = "structured" /\ state # "FINISHED" /\ agent_type = "structured"
        /\ llm_result' \in LLMResult
        /\ UNCHANGED <<agent_type, dictionary, stream, current_step, query, step_status_list,
                       description>>
    BY DEF Generate, Go, IInv, Verdicts, Fallible, Sql, invoke_structured,
           invoke_structured_dictionary_mode
  <1>2. \/ llm_result'.conclusion = "terminate" /\ state' = "FINISHED" /\ at' = "source_metadata"
        \/ llm_result'.conclusion # "terminate" /\ state' = state /\ at' = "conclude"
    BY DEF Generate, Go
  <1>3. llm_result'.answer # "marked" /\ llm_result' \in LLMRecord
    BY <1>1 DEF LLMResult, LLMRecord, Text
  <1>4. Verdicts'
    BY <1>1, <1>2, <1>3 DEF Verdicts, Fallible, Sql
  <1> QED
    BY <1>1, <1>2, <1>3, <1>4, Within DEF IInv, TypeOK, Underway, Fallible, LLMRecord

LEMMA ExecuteInv == IInv /\ Execute => IInv'
  <1> SUFFICES ASSUME IInv, Execute PROVE IInv'
    OBVIOUS
  <1>1. /\ at = "source_metadata" /\ UNCHANGED <<agent_type, dictionary, stream, control>>
        /\ \/ /\ llm_result' = [llm_result EXCEPT !.conclusion = "continue"]
              /\ at' = "requery_error"
           \/ llm_result' = llm_result /\ at' = "observe_sql"
    BY DEF Execute, Go
  <1>2. /\ llm_result \in LLMRecord /\ llm_result.answer # "marked" /\ agent_type = "structured"
        /\ llm_result.conclusion \in {"terminate", "continue"}
    BY <1>1 DEF IInv, TypeOK, Verdicts, Sql, LLMRecord
  <1>3. /\ llm_result' \in LLMRecord /\ llm_result'.answer # "marked"
        /\ llm_result'.conclusion \in {"terminate", "continue"}
        /\ at' = "requery_error" => llm_result'.conclusion = "continue"
    BY <1>1, <1>2 DEF LLMRecord, format_llm_ouput
  <1>4. Verdicts'
    BY <1>1, <1>2, <1>3 DEF Verdicts, Fallible, Sql, control
  <1> QED
    BY <1>1, <1>3, <1>4, Within DEF IInv, TypeOK, control, Underway, Fallible, LLMRecord

\* Rewording after SQL, whether it failed or was judged wanting.
LEMMA RequerySqlInv == IInv /\ (RequeryAfterError \/ RequerySql) => IInv'
  <1> SUFFICES ASSUME IInv, RequeryAfterError \/ RequerySql PROVE IInv'
    OBVIOUS
  <1>1. /\ at \in {"requery_error", "requery_sql"}
        /\ at' = IF at = "requery_error" THEN "observe_sql" ELSE "conclude"
        /\ UNCHANGED <<agent_type, dictionary, stream, current_step, query, step_status_list,
                       description>>
        /\ \/ /\ llm_result' = [llm_result EXCEPT !.requery = "text", !.answer = "text"]
              /\ state' = "IDLE"
           \/ UNCHANGED <<llm_result, state>>
    BY DEF RequeryAfterError, RequerySql, Go
  <1>2. /\ llm_result \in LLMRecord /\ llm_result.answer # "marked" /\ agent_type = "structured"
        /\ llm_result.conclusion = "continue" /\ state \in {"IDLE", "RUNNING", "FINISHED"}
    BY <1>1 DEF IInv, TypeOK, Verdicts, Sql, LLMRecord
  <1>3. /\ llm_result' \in LLMRecord /\ llm_result'.answer # "marked"
        /\ llm_result'.conclusion = "continue" /\ state' \in {"IDLE", "RUNNING", "FINISHED"}
    <2>1. CASE llm_result' = [llm_result EXCEPT !.requery = "text", !.answer = "text"] /\ state' = "IDLE"
      BY <2>1, <1>2 DEF LLMRecord, Text
    <2>2. CASE UNCHANGED <<llm_result, state>>
      BY <2>2, <1>2
    <2> QED
      BY <1>1, <2>1, <2>2
  <1>4. Verdicts'
    BY <1>1, <1>2, <1>3 DEF Verdicts, Fallible, Sql
  <1> QED
    BY <1>1, <1>3, <1>4, Within DEF Underway, Fallible, LLMRecord

LEMMA ObserveSqlInv == IInv /\ ObserveSql => IInv'
  <1> SUFFICES ASSUME IInv, ObserveSql PROVE IInv'
    OBVIOUS
  <1>1. /\ at = "observe_sql"
        /\ UNCHANGED <<agent_type, dictionary, stream, current_step, query, step_status_list,
                       description>>
        /\ \/ /\ llm_result' = [llm_result EXCEPT !.answer = "marked"]
              /\ state' = "FINISHED" /\ at' = "conclude"
           \/ /\ llm_result' = [llm_result EXCEPT !.conclusion = "continue"]
              /\ state' = state /\ at' = "requery_sql"
    BY DEF ObserveSql, Go
  <1>2. /\ llm_result \in LLMRecord /\ llm_result.answer # "marked" /\ agent_type = "structured"
        /\ llm_result.conclusion \in {"terminate", "continue"}
        /\ state \in {"IDLE", "RUNNING", "FINISHED"}
    BY <1>1 DEF IInv, TypeOK, Verdicts, Sql, LLMRecord
  <1>3. /\ llm_result' \in LLMRecord
        /\ llm_result'.conclusion \in {"terminate", "continue"}
        /\ at' = "conclude" => llm_result'.answer = "marked" /\ state' = "FINISHED"
        /\ at' = "requery_sql" => llm_result'.answer # "marked" /\ llm_result'.conclusion = "continue"
    BY <1>1, <1>2 DEF LLMRecord, format_llm_ouput
  <1>4. Verdicts'
    BY <1>1, <1>2, <1>3 DEF Verdicts, Fallible, Sql
  <1> QED
    BY <1>1, <1>2, <1>3, <1>4, Within DEF Underway, Fallible, LLMRecord

LEMMA RaiseInv == IInv /\ Raise => IInv'
  <1> SUFFICES ASSUME IInv, Raise PROVE IInv'
    OBVIOUS
  <1>1. at \in Underway /\ at' = "failed" /\ UNCHANGED <<agent_type, dictionary, stream, control, llm_result>>
    BY Places DEF Raise, Go
  <1>2. Verdicts'
    BY <1>1 DEF Verdicts, Fallible, Sql
  <1> QED
    BY <1>1, <1>2, Within DEF IInv, TypeOK, control, Underway

(***************************************************************************)
(* Where a step begins, fails and ends                                     *)
(***************************************************************************)

LEMMA DieInv == ASSUME IInv, at # "ended", Die PROVE IInv'
  <1>1. TypeOK'
    BY DEF Die, IInv, TypeOK
  <1>2. HistoryKeepsQuery' /\ TaskDescribesQuery'
    BY DEF Die, IInv, HistoryKeepsQuery, TaskDescribesQuery
  <1>3. StreamTypes' /\ Finishing'
    BY DEF Die, IInv, StreamTypes, Finishing
  <1>4. StepsCounted' /\ SavedBefore'
    BY DEF Die, StepsCounted, SavedBefore
  <1>5. Verdicts'
    BY DEF Die, Verdicts, Fallible, Sql
  <1> QED
    BY <1>1, <1>2, <1>3, <1>4, <1>5 DEF IInv

LEMMA BeginStepInv == IInv /\ BeginStep => IInv'
  <1> SUFFICES ASSUME IInv, BeginStep PROVE IInv'
    OBVIOUS
  <1>1. /\ at = "loop" /\ state # "FINISHED" /\ current_step < MaxSteps
        /\ current_step' = current_step + 1
        /\ UNCHANGED <<agent_type, dictionary, query, step_status_list, description, llm_result,
                       spoken, said>>
    BY DEF BeginStep
  <1>2. \/ at' = "ended" /\ ended' = "raised" /\ state' = "IDLE"
        \/ /\ agent_type \in {"unstructured", "structured"}
           /\ at' = IF agent_type = "unstructured" THEN "unstructured" ELSE "task_analyze"
           /\ UNCHANGED <<ended, state>>
    BY DEF BeginStep, IInv, StreamTypes
  <1>3. MaxSteps \in Nat /\ current_step \in 0 .. MaxSteps
    BY ExpertAssumption DEF IInv, TypeOK
  <1>4. TypeOK'
    BY <1>1, <1>2, <1>3 DEF IInv, TypeOK, Fallible
  <1>5. HistoryKeepsQuery' /\ TaskDescribesQuery'
    BY <1>1 DEF IInv, HistoryKeepsQuery, TaskDescribesQuery
  <1>6. StreamTypes'
    BY <1>1, <1>2 DEF IInv, StreamTypes
  <1>7. StepsCounted'
    BY <1>1, <1>2, <1>3 DEF IInv, StepsCounted, TypeOK, StreamTypes
  <1>8. SavedBefore'
    <2>1. \A i \in DOMAIN step_status_list : step_status_list[i] \in [id : 1 .. MaxSteps, query : 0 .. MaxSteps]
      BY EntriesTyped DEF IInv, TypeOK
    <2>2. \A i \in DOMAIN step_status_list :
            step_status_list[i].id <= current_step /\ step_status_list[i].id \in 1 .. MaxSteps
      BY <1>1, <2>1 DEF IInv, SavedBefore
    <2> QED
      BY <1>1, <1>3, <2>2 DEF SavedBefore
  <1>9. Verdicts'
    BY <1>1, <1>2 DEF IInv, Verdicts, Fallible, Sql
  <1>10. Finishing'
    BY <1>1, <1>2 DEF IInv, Finishing
  <1> QED
    BY <1>4, <1>5, <1>6, <1>7, <1>8, <1>9, <1>10 DEF IInv

LEMMA EndRunInv == IInv /\ EndRun => IInv'
  <1> SUFFICES ASSUME IInv, EndRun PROVE IInv'
    OBVIOUS
  <1>1. /\ at' = "ended" /\ ended' = "complete" /\ state' = "IDLE"
        /\ current_step' \in {0, current_step}
        /\ UNCHANGED <<agent_type, dictionary, query, step_status_list, description, llm_result,
                       spoken, said>>
    BY DEF EndRun
  <1>2. TypeOK'
    BY <1>1, ExpertAssumption DEF IInv, TypeOK
  <1>3. HistoryKeepsQuery' /\ TaskDescribesQuery'
    BY <1>1 DEF IInv, HistoryKeepsQuery, TaskDescribesQuery
  <1>4. StreamTypes' /\ Finishing'
    BY <1>1 DEF IInv, StreamTypes, Finishing
  <1>5. StepsCounted' /\ SavedBefore' /\ Verdicts'
    BY <1>1 DEF StepsCounted, SavedBefore, Verdicts, Fallible, Sql
  <1> QED
    BY <1>2, <1>3, <1>4, <1>5 DEF IInv

\* What a saved step adds to the history: a later id, over an earlier query.
LEMMA SaveHistory ==
    ASSUME IInv, at \in Underway, query # NoQuery, save_step_status
    PROVE  /\ step_status_list' \in Seq([id : 1 .. MaxSteps, query : 0 .. MaxSteps])
           /\ Len(step_status_list') <= current_step
           /\ \A i \in DOMAIN step_status_list' : step_status_list'[i].id <= current_step
           /\ HistoryKeepsQuery'
  <1> DEFINE entry == [id |-> current_step, query |-> query]
  <1>1. /\ current_step \in 0 .. MaxSteps /\ MaxSteps \in Nat
        /\ query \in -1 .. MaxSteps /\ spoken \in 0 .. MaxSteps
        /\ spoken < current_step /\ query < current_step
        /\ Len(step_status_list) < current_step
        /\ step_status_list \in Seq([id : 1 .. MaxSteps, query : 0 .. MaxSteps])
    BY Places, ExpertAssumption DEF IInv, TypeOK, StreamTypes, StepsCounted
  <1>2. entry \in [id : 1 .. MaxSteps, query : 0 .. MaxSteps]
    BY <1>1 DEF NoQuery
  <1>3. step_status_list' = Append(step_status_list, entry)
    BY DEF save_step_status
  <1>4. \A i \in DOMAIN step_status_list : step_status_list[i].id < current_step
    BY Places DEF IInv, SavedBefore
  <1> HIDE DEF entry
  <1>5. /\ step_status_list' \in Seq([id : 1 .. MaxSteps, query : 0 .. MaxSteps])
        /\ Len(step_status_list') = Len(step_status_list) + 1
        /\ \A i \in 1 .. Len(step_status_list) : step_status_list'[i] = step_status_list[i]
        /\ step_status_list'[Len(step_status_list) + 1] = entry
    BY <1>1, <1>2, <1>3
  <1>6. entry.id = current_step /\ entry.query = query
    BY DEF entry
  <1>7. \A i \in DOMAIN step_status_list' :
           \/ /\ i \in DOMAIN step_status_list
              /\ step_status_list'[i] = step_status_list[i]
           \/ i = Len(step_status_list) + 1 /\ step_status_list'[i] = entry
    <2>1. /\ DOMAIN step_status_list' = 1 .. Len(step_status_list')
          /\ DOMAIN step_status_list = 1 .. Len(step_status_list)
          /\ Len(step_status_list) \in Nat
      BY <1>1, <1>5
    <2> QED
      BY <1>5, <2>1
  <1>8. \A i \in DOMAIN step_status_list' : step_status_list'[i].id <= current_step
    <2>1. \A i \in DOMAIN step_status_list : step_status_list[i] \in [id : 1 .. MaxSteps, query : 0 .. MaxSteps]
      BY <1>1, EntriesTyped
    <2>2. \A i \in DOMAIN step_status_list : step_status_list[i].id <= current_step
      BY <1>1, <1>4, <2>1
    <2> QED
      BY <1>1, <1>6, <1>7, <2>2
  <1>9. HistoryKeepsQuery'
    <2> SUFFICES ASSUME NEW i \in DOMAIN step_status_list'
                 PROVE  /\ step_status_list'[i].query < step_status_list'[i].id
                        /\ \A j \in 1 .. i - 1 : step_status_list'[j].id < step_status_list'[i].id
      BY DEF HistoryKeepsQuery
    <2>1. CASE i \in DOMAIN step_status_list /\ step_status_list'[i] = step_status_list[i]
      <3>1. i \in 1 .. Len(step_status_list)
        BY <2>1, <1>1
      <3>2. \A j \in 1 .. i - 1 : step_status_list'[j] = step_status_list[j]
        BY <3>1, <1>5, <1>1
      <3> QED
        BY <2>1, <3>2 DEF IInv, HistoryKeepsQuery
    <2>2. CASE i = Len(step_status_list) + 1 /\ step_status_list'[i] = entry
      <3>1. \A j \in 1 .. i - 1 : j \in DOMAIN step_status_list /\ step_status_list'[j] = step_status_list[j]
        <4>1. /\ DOMAIN step_status_list = 1 .. Len(step_status_list)
              /\ Len(step_status_list) \in Nat /\ i - 1 = Len(step_status_list)
          BY <2>2, <1>1
        <4> QED
          BY <4>1, <1>5
      <3> QED
        BY <2>2, <3>1, <1>1, <1>4, <1>6
    <2> QED
      BY <2>1, <2>2, <1>7
  <1> QED
    BY <1>1, <1>5, <1>8, <1>9

LEMMA StepFailedInv == IInv /\ StepFailed => IInv'
  <1> SUFFICES ASSUME IInv, StepFailed PROVE IInv'
    OBVIOUS
  <1>1. at = "failed" /\ at \in Underway
    BY DEF StepFailed, Underway
  <1>2. CASE query = NoQuery
    BY <1>1, <1>2, DieInv DEF StepFailed
  <1>3. CASE query # NoQuery
    <2>1. /\ state' = "IDLE" /\ save_step_status /\ at' = "rephrase"
          /\ UNCHANGED <<agent_type, dictionary, spoken, said, ended, current_step, query,
                         description, llm_result>>
      BY <1>3 DEF StepFailed, Go, stream
    <2>2. /\ step_status_list' \in Seq([id : 1 .. MaxSteps, query : 0 .. MaxSteps])
          /\ Len(step_status_list') <= current_step
          /\ \A i \in DOMAIN step_status_list' : step_status_list'[i].id <= current_step
          /\ HistoryKeepsQuery'
      BY <1>1, <1>3, <2>1, SaveHistory
    <2>3. TypeOK'
      <3>1. Len(step_status_list') <= MaxSteps
        BY <2>2, ExpertAssumption DEF IInv, TypeOK
      <3> QED
        BY <2>1, <2>2, <3>1 DEF IInv, TypeOK
    <2>4. TaskDescribesQuery' /\ StreamTypes' /\ Finishing'
      BY <1>1, <2>1 DEF IInv, TaskDescribesQuery, StreamTypes, Finishing
    <2>5. StepsCounted' /\ SavedBefore'
      BY <1>1, <2>1, <2>2 DEF IInv, StepsCounted, SavedBefore
    <2>6. Verdicts'
      BY <2>1 DEF Verdicts, Fallible, Sql
    <2> QED
      BY <2>2, <2>3, <2>4, <2>5, <2>6 DEF IInv
  <1> QED
    BY <1>2, <1>3

\* The step returns: its chunk is one more, and the loop is entered again.
LEMMA YieldInv ==
    ASSUME IInv, at \in {"rephrase", "conclude"},
           NEW chunk \in {"apology", "answer", "marked"}, Yield(chunk),
           state' \in {"IDLE", "RUNNING", "FINISHED"}, UNCHANGED llm_result,
           \/ UNCHANGED <<query, description>>
           \/ query' = NoQuery /\ description' = NoQuery
           \/ query' = current_step /\ description' = current_step,
           step_status_list' \in Seq([id : 1 .. MaxSteps, query : 0 .. MaxSteps]),
           Len(step_status_list') <= current_step,
           \A i \in DOMAIN step_status_list' : step_status_list'[i].id <= current_step,
           HistoryKeepsQuery',
           Finishing'
    PROVE  IInv'
  <1>1. /\ at' = "loop" /\ spoken' = spoken + 1 /\ said' = chunk
        /\ UNCHANGED <<agent_type, dictionary, current_step, ended>>
    BY DEF Yield
  <1>2. /\ MaxSteps \in Nat /\ current_step \in 0 .. MaxSteps /\ spoken \in 0 .. MaxSteps
        /\ spoken + 1 = current_step /\ query \in -1 .. MaxSteps /\ query < current_step
        /\ description = query
    BY ExpertAssumption DEF IInv, TypeOK, StreamTypes, StepsCounted, TaskDescribesQuery
  <1>3. query' = description' /\ query' \in -1 .. MaxSteps /\ query' <= current_step
    BY <1>2 DEF NoQuery
  <1>4. TypeOK'
    BY <1>1, <1>2, <1>3 DEF IInv, TypeOK
  <1>5. TaskDescribesQuery'
    BY <1>3 DEF TaskDescribesQuery
  <1>6. StreamTypes'
    BY <1>1, <1>2 DEF IInv, StreamTypes
  <1>7. StepsCounted' /\ SavedBefore'
    BY <1>1, <1>2, <1>3 DEF StepsCounted, SavedBefore
  <1>8. Verdicts'
    BY <1>1 DEF Verdicts, Fallible, Sql
  <1> QED
    BY <1>4, <1>5, <1>6, <1>7, <1>8 DEF IInv

LEMMA RephraseInv == IInv /\ Rephrase => IInv'
  <1> SUFFICES ASSUME IInv, Rephrase, ~ Die PROVE IInv'
    BY DieInv DEF Rephrase
  <1>1. /\ at = "rephrase" /\ Yield("apology") /\ UNCHANGED <<state, step_status_list, llm_result>>
        /\ \/ UNCHANGED <<query, description>>
           \/ query' = NoQuery /\ description' = NoQuery
           \/ query' = current_step /\ description' = current_step
    BY DEF Rephrase, _update_task_description
  <1>2. Finishing'
    BY <1>1 DEF Yield, Finishing, IInv, Verdicts
  <1>3. /\ step_status_list' \in Seq([id : 1 .. MaxSteps, query : 0 .. MaxSteps])
        /\ Len(step_status_list') <= current_step
        /\ \A i \in DOMAIN step_status_list' : step_status_list'[i].id <= current_step
        /\ HistoryKeepsQuery'
    BY <1>1 DEF IInv, TypeOK, StepsCounted, SavedBefore, HistoryKeepsQuery
  <1> QED
    BY <1>1, <1>2, <1>3, YieldInv DEF IInv, TypeOK

LEMMA ConcludeInv == IInv /\ Conclude => IInv'
  <1> SUFFICES ASSUME IInv, Conclude, ~ Die PROVE IInv'
    BY DieInv DEF Conclude
  <1> DEFINE saved == llm_result.conclusion \in {"terminate", "continue"}
  <1>1. /\ at = "conclude" /\ at \in Underway
        /\ ~ (saved /\ Unsaveable)
        /\ state' = IF llm_result.conclusion = "terminate" THEN "FINISHED" ELSE state
        /\ IF saved THEN save_step_status ELSE UNCHANGED step_status_list
        /\ Yield(Said) /\ UNCHANGED llm_result
        /\ \/ UNCHANGED <<query, description>>
           \/ query' = current_step /\ description' = current_step
    BY DEF Conclude, Underway, _update_task_description
  <1>2. /\ state \in {"IDLE", "RUNNING", "FINISHED"} /\ llm_result \in LLMRecord
        /\ llm_result.answer \in {"none", "empty", "text", "marked"}
        /\ llm_result.conclusion \in {"terminate", "continue", "error"}
    BY DEF IInv, TypeOK, LLMRecord, Text, format_llm_ouput
  <1>3. Said \in {"apology", "answer", "marked"}
    BY DEF Said
  <1>4. /\ step_status_list' \in Seq([id : 1 .. MaxSteps, query : 0 .. MaxSteps])
        /\ Len(step_status_list') <= current_step
        /\ \A i \in DOMAIN step_status_list' : step_status_list'[i].id <= current_step
        /\ HistoryKeepsQuery'
    <2>1. CASE saved
      BY <1>1, <2>1, SaveHistory DEF Unsaveable
    <2>2. CASE ~ saved
      <3>1. step_status_list' = step_status_list
        BY <1>1, <2>2
      <3>2. /\ step_status_list \in Seq([id : 1 .. MaxSteps, query : 0 .. MaxSteps])
            /\ Len(step_status_list) < current_step /\ current_step \in 0 .. MaxSteps
        BY <1>1 DEF IInv, TypeOK, StepsCounted
      <3>3. /\ Len(step_status_list) \in Nat
            /\ \A i \in DOMAIN step_status_list :
                 step_status_list[i] \in [id : 1 .. MaxSteps, query : 0 .. MaxSteps]
        <4>1. Len(step_status_list) \in Nat
          BY <3>2
        <4> QED
          BY <3>2, <4>1, EntriesTyped
      <3>4. \A i \in DOMAIN step_status_list : step_status_list[i].id < current_step
        BY <1>1 DEF IInv, SavedBefore
      <3>5. \A i \in DOMAIN step_status_list : step_status_list[i].id <= current_step
        BY <3>2, <3>3, <3>4, ExpertAssumption
      <3> QED
        BY <3>1, <3>2, <3>3, <3>5, ExpertAssumption DEF IInv, HistoryKeepsQuery
    <2> QED
      BY <2>1, <2>2
  <1>5. Finishing'
    <2>1. at' = "loop" /\ said' = Said /\ agent_type' = agent_type
      BY <1>1 DEF Yield
    <2>2. llm_result.answer = "marked" <=> Said = "marked"
      BY DEF Said
    <2>3. state' = "FINISHED" <=> state = "FINISHED" \/ llm_result.conclusion = "terminate"
      BY <1>1
    <2>4. /\ llm_result.conclusion = "terminate" => llm_result.answer = "marked"
          /\ llm_result.answer = "marked" => state = "FINISHED" \/ llm_result.conclusion = "terminate"
          /\ state = "FINISHED" => llm_result.conclusion # "error"
          /\ state = "FINISHED" => llm_result.answer = "marked" \/ agent_type = "structured"
      BY <1>1 DEF IInv, Verdicts
    <2>5. state = "FINISHED" /\ Said = "apology" => llm_result.answer = "empty"
      BY <1>1, <1>2, <2>4 DEF Said, Unsaveable
    <2> QED
      BY <1>1, <2>1, <2>2, <2>3, <2>4, <2>5 DEF Finishing
  <1> QED
    BY <1>1, <1>2, <1>3, <1>4, <1>5, YieldInv

LEMMA NextInv == IInv /\ [Next]_vars => IInv'
  <1> SUFFICES ASSUME IInv, Next PROVE IInv'
    BY Unchanged
  <1>1. CASE BeginStep \/ EndRun
    BY <1>1, BeginStepInv, EndRunInv
  <1>2. CASE step
    BY <1>2, AnswerInv, ObserveInv, RequeryInv, AnalyzeInv, GenerateInv, ExecuteInv,
       RequerySqlInv, ObserveSqlInv, RaiseInv, StepFailedInv, RephraseInv, ConcludeInv DEF step
  <1>3. CASE Done
    BY <1>3, Unchanged DEF Done
  <1> QED
    BY <1>1, <1>2, <1>3 DEF Next

(***************************************************************************)
(* Theorems                                                                *)
(***************************************************************************)

(* Whatever the model answers and whichever calls raise (step and run,       *)
(* server.py), the invariant holds.                                          *)
THEOREM RunInvariant == Spec => []IInv
  BY InitInv, NextInv, PTL DEF Spec

(* The history the rephrasing reads pairs each answer with a query worded    *)
(* before it (save_step_status, get_step_history_for_requery).               *)
THEOREM HistoryKeepsItsQuery == Spec => []HistoryKeepsQuery
  <1>1. IInv => HistoryKeepsQuery
    BY DEF IInv
  <1> QED
    BY <1>1, RunInvariant, PTL

(* The task the observers are shown is the query being answered              *)
(* (_update_task_description).                                               *)
THEOREM TaskDescribesItsQuery == Spec => []TaskDescribesQuery
  <1>1. IInv => TaskDescribesQuery
    BY DEF IInv
  <1> QED
    BY <1>1, RunInvariant, PTL

(* run leaves its loop before the last step only over an answer.             *)
THEOREM EndsEarly == Spec => EndsEarlyOverAnAnswer
  <1>1. ASSUME IInv, [Next]_vars, ended' = "complete", ended = "running", current_step < MaxSteps
        PROVE  \/ said = "marked"
               \/ /\ agent_type = "structured"
                  /\ said = "apology" => llm_result.answer = "empty"
    <2>1. EndRun
      BY <1>1 DEF Next, BeginStep, step, Answer, Observe, Requery, TaskAnalyze,
         invoke_structured_with_table_selector, invoke_structured_with_dimension_selector,
         Generate, Execute, RequeryAfterError, ObserveSql, RequerySql, Raise, StepFailed, Rephrase,
         Conclude, Done, Die, Go, Yield, vars, stream
    <2> QED
      BY <1>1, <2>1 DEF EndRun, IInv, Finishing
  <1> QED
    BY <1>1, RunInvariant, PTL DEF EndsEarlyOverAnAnswer, Spec

(* The stream of a run is one that AgentAnswers allows: every step of the    *)
(* run is one of its steps, or leaves the stream alone.                      *)
THEOREM StreamAsPromised == Spec => ImplementsAgentAnswers
  <1>1. Init => Answers!Init
    BY DEF Init, Answers!Init
  <1>2. IInv /\ [Next]_vars => [Answers!Next]_(Answers!vars)
    <2> SUFFICES ASSUME IInv, [Next]_vars PROVE Answers!Next \/ UNCHANGED stream
      BY DEF Answers!vars, stream
    <2>1. CASE UNCHANGED vars
      BY <2>1 DEF vars
    <2>2. ASSUME at # "ended", said # "marked", Die PROVE Answers!Next
      BY <2>2 DEF Die, IInv, StreamTypes, Answers!Next, Answers!Break
    <2>3. ASSUME at \notin {"loop", "ended"}, NEW chunk \in {"apology", "answer", "marked"}, Yield(chunk)
          PROVE  Answers!Next
      <3>1. /\ ended = "running" /\ said # "marked" /\ spoken < MaxSteps
        BY <2>3, ExpertAssumption DEF IInv, StreamTypes, StepsCounted, Finishing, TypeOK
      <3> QED
        BY <2>3, <3>1 DEF Yield, Answers!Next, Answers!Say, Answers!Chunk
    <2>4. CASE BeginStep
      <3>1. ended = "running" /\ said # "marked"
        BY <2>4 DEF BeginStep, IInv, StreamTypes, Finishing
      <3> QED
        BY <2>4, <3>1 DEF BeginStep, stream, Answers!Next, Answers!Break
    <2>5. CASE EndRun
      BY <2>5 DEF EndRun, IInv, StreamTypes, Answers!Next, Answers!Complete
    <2>6. CASE \/ Answer \/ Observe \/ Requery \/ TaskAnalyze \/ invoke_structured_with_table_selector
               \/ invoke_structured_with_dimension_selector \/ Generate \/ Execute
               \/ RequeryAfterError \/ ObserveSql \/ RequerySql \/ Raise
      BY <2>6 DEF Answer, Observe, Requery, TaskAnalyze, invoke_structured_with_table_selector,
         invoke_structured_with_dimension_selector, Generate, Execute, RequeryAfterError,
         ObserveSql, RequerySql, Raise, Go
    <2>7. CASE StepFailed
      <3>1. at # "ended" /\ said # "marked"
        BY <2>7 DEF StepFailed, IInv, Finishing
      <3> QED
        BY <2>2, <2>7, <3>1 DEF StepFailed, Go
    <2>8. CASE Rephrase
      <3>1. at \notin {"loop", "ended"} /\ said # "marked"
        BY <2>8 DEF Rephrase, IInv, Finishing
      <3> QED
        BY <2>2, <2>3, <2>8, <3>1 DEF Rephrase
    <2>9. CASE Conclude
      <3>1. at \notin {"loop", "ended"} /\ said # "marked"
        BY <2>9 DEF Conclude, IInv, Finishing
      <3>2. Said \in {"apology", "answer", "marked"}
        BY DEF Said
      <3> QED
        BY <2>2, <2>3, <2>9, <3>1, <3>2 DEF Conclude
    <2>10. CASE Done
      BY <2>10 DEF Done, vars
    <2> QED
      BY <2>1, <2>4, <2>5, <2>6, <2>7, <2>8, <2>9, <2>10 DEF Next, step
  <1> QED
    BY <1>1, <1>2, RunInvariant, PTL DEF Spec, ImplementsAgentAnswers, Answers!Spec
=============================================================================
