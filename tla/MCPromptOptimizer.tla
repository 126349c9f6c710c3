------------------------- MODULE MCPromptOptimizer --------------------------
(* One or two optimization runs of the agent and an evaluation by its user. *)
EXTENDS PromptOptimizer
=============================================================================
