----------------------------- MODULE AgentAnswers -----------------------------
(***************************************************************************)
(* What an agent promises whoever reads its stream: a bounded number of    *)
(* chunks, and an end that is either the completion of the task or a       *)
(* broken stream.  A chunk that carries the mark of success is the last    *)
(* one, and the task completes after it.  The orchestrator relies on this  *)
(* when it judges a task by the last chunk alone.                          *)
(*                                                                         *)
(* That the end comes is not promised: an agent may wait for ever in a     *)
(* query of the user's database (RunEnds of ExpertAgent).                  *)
(***************************************************************************)
EXTENDS Naturals

CONSTANT MaxChunks  \* a natural number

VARIABLES
    spoken,   \* number of chunks sent
    said,     \* what the last one was
    ended     \* how the stream ended, or "running"

vars == <<spoken, said, ended>>

Chunk == {"apology", "answer", "marked"}

TypeOK ==
    /\ spoken \in 0 .. MaxChunks
    /\ said \in Chunk \union {"nothing"}
    /\ ended \in {"running", "complete", "raised"}

Init == spoken = 0 /\ said = "nothing" /\ ended = "running"

Say ==
    /\ ended = "running" /\ said # "marked" /\ spoken < MaxChunks
    /\ spoken' = spoken + 1
    /\ said' \in Chunk
    /\ UNCHANGED ended

Complete == ended = "running" /\ ended' = "complete" /\ UNCHANGED <<spoken, said>>

Break ==
    /\ ended = "running" /\ said # "marked"
    /\ ended' = "raised"
    /\ UNCHANGED <<spoken, said>>

Next == Say \/ Complete \/ Break

Spec == Init /\ [][Next]_vars
=============================================================================
