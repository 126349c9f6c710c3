--------------------------- MODULE MCAgentVersions --------------------------
(* Two configurations, one set of schemas, two requests under way and a     *)
(* few versions; none of them is special.                                   *)
EXTENDS AgentVersions, TLC

Symmetry == Permutations(Configs) \cup Permutations(Contracts) \cup Permutations(Clients)
=============================================================================
