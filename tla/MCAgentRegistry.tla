--------------------------- MODULE MCAgentRegistry ---------------------------
(***************************************************************************)
(* Instances of AgentRegistry for TLC: either every process has an url of  *)
(* its own, or all serve the first url, as the pods of a rolling update.   *)
(***************************************************************************)
EXTENDS AgentRegistry, TLC

CONSTANTS u1, u2, p1, p2

OwnUrl == [p \in Process |-> IF p = p1 THEN u1 ELSE u2]
SharedUrl == [p \in Process |-> u1]

=============================================================================
