--------------------------- MODULE MCAgentControl ---------------------------
(* Instances of AgentControl for TLC: all links are of one agent.          *)
EXTENDS AgentControl, TLC

MCAgentOf == [l \in Link |-> CHOOSE a \in Agent : TRUE]

\* The links differ in nothing.
LinkSymmetry == Permutations(Link)
=============================================================================
