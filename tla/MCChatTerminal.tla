---------------------------- MODULE MCChatTerminal ----------------------------
(***************************************************************************)
(* ChatTerminal with the chunks of the model checker: one token each, so   *)
(* that a line is cut within, a line each, so that there are several, and  *)
(* one that ends a line and another and begins a third.                    *)
(***************************************************************************)
EXTENDS ChatTerminal

SomeDeltas ==
    {<<token>> : token \in {"nl", "text", "answer", "word", "result"}}
    \union {<<token, "nl">> : token \in Token \ {"nl", "word"}}
    \union {<<"nl", "text", "nl", "answer">>}
=============================================================================
