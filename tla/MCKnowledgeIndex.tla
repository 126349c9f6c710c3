------------------------- MODULE MCKnowledgeIndex ---------------------------
(* Two requests, which are alike, and two texts, which are alike.           *)
EXTENDS KnowledgeIndex, TLC
Alike == Permutations(Requests) \cup Permutations(Texts)
=============================================================================
