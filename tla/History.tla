-------------------------------- MODULE History --------------------------------
(***************************************************************************)
(* What data-services keeps of a conversation: its history, a table of     *)
(* answered turns, each under the run it belongs to, and what mem0 was     *)
(* given to remember.  One user and one agent, so a run is all a query     *)
(* selects by.  Rows are in the order of their creation, which decides      *)
(* what a query finds, and not the order it returns that in; ties of the   *)
(* one-second timestamp are not modelled.                                  *)
(***************************************************************************)
EXTENDS Integers, Sequences, FiniteSets

VARIABLES
    history,  \* the rows: run, turn, and how much of its answer
    memories  \* the turns mem0 was given, and under which run

HistoryInit == history = <<>> /\ memories = {}

HistoryTypeOK(Run, Turn) ==
    /\ history \in Seq([run : Run, turn : Turn, text : Nat])
    /\ \A i, j \in DOMAIN history : history[i].turn = history[j].turn => i = j
    /\ memories \subseteq [run : Run, turn : Turn]

RowsOf(run) == {i \in DOMAIN history : history[i].run = run}

\* Of the indices in own, the last ones.
LastOf(own, limit) == {i \in own : Cardinality({j \in own : j > i}) < limit}

\* The last rows of the run.
get_by_user_agent_run(run, limit) == {history[i] : i \in LastOf(RowsOf(run), limit)}

create(row) == history' = Append(history, row) /\ UNCHANGED memories

create_history_record(run, turn, text) == create([run |-> run, turn |-> turn, text |-> text])

search_history_records(run, limit) == get_by_user_agent_run(run, limit)

\* A query that fails is logged, and answered like one that finds nothing.
FailedSearch == {}

\* What mem0 makes of a turn is not modelled.
add_memory_item(run, turn) == memories' = memories \union {[run |-> run, turn |-> turn]} /\ UNCHANGED history

search_memory_items(run) == {item \in memories : item.run = run}
=============================================================================
