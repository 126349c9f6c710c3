---------------------------- MODULE MCMigration ----------------------------
(* Two names, two models and one agent; the schema varies one table or column at  *)
(* a time.                                                                        *)
EXTENDS Migration
CONSTANTS n1, n2, m1, m2, a1
TwoNames == {n1, n2}
TwoModels == {m1, m2}
OneAgent == {a1}
Alike == Permutations(TwoNames) \cup Permutations(TwoModels)
=============================================================================
