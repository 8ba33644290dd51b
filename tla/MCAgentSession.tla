--------------------------- MODULE MCAgentSession ---------------------------
(* Small instances of AgentSession for TLC. *)
EXTENDS AgentSession

MCAgentBounds ==
  { [calls |-> 3, ops |-> {"commit"}, others |-> 1, failures |-> 1],
    [calls |-> 2, ops |-> Ops, others |-> 1, failures |-> 1] }
=============================================================================
