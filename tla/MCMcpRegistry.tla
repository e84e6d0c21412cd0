--------------------------- MODULE MCMcpRegistry ---------------------------
(* Two threads on either store.  They and the agents are interchangeable.  *)
EXTENDS McpRegistry, TLC

MCSymmetry == Permutations(Agent) \cup Permutations(Worker)
=============================================================================
