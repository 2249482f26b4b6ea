---------------------------- MODULE MCConversation ----------------------------
(***************************************************************************)
(* Conversation with the plans of the model checker: an empty one, two     *)
(* tasks, and one task for an agent nobody has registered.                 *)
(***************************************************************************)
EXTENDS Conversation

Ask(n) == [id |-> n, known |-> TRUE]

SomePlans == {<<>>, <<Ask(1), Ask(2)>>, <<[id |-> 1, known |-> FALSE]>>}
=============================================================================
