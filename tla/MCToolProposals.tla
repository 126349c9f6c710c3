----------------------------- MODULE MCToolProposals -----------------------------
(* Two proposals, of one tool or of two, under one key or two. *)
EXTENDS ToolProposals, TLC
Alike == Permutations(Names) \cup Permutations(Proposals) \cup Permutations(Keys)
==================================================================================
