------------------------------ MODULE TopoValidate ------------------------------
(* topological_validate: the three-colour depth-first search that refuses a     *)
(* workflow whose steps depend on each other in a circle.  The outer loop goes  *)
(* over a Python set and the inner one over a list of the workflow: both take   *)
(* their elements in any order here.                                            *)
EXTENDS Naturals, Sequences

CONSTANT Id   \* step ids, those a depends_on may name without a step included

VARIABLES
    nodes,   \* node_ids
    deps,    \* adj
    colour,  \* of each node
    stack,   \* the calls of dfs under way, the innermost last
    left,    \* what each call of dfs has not looked at yet
    verdict  \* "searching", "valid" or "cycle"

vars == <<nodes, deps, colour, stack, left, verdict>>

Colours == {"white", "grey", "black"}

TypeOK ==
    /\ nodes \subseteq Id
    /\ deps \in [nodes -> SUBSET Id]
    /\ colour \in [nodes -> Colours]
    /\ stack \in Seq(nodes)
    /\ left \in [nodes -> SUBSET Id]
    /\ verdict \in {"searching", "valid", "cycle"}

Init ==
    /\ nodes \in SUBSET Id
    /\ deps \in [nodes -> SUBSET Id]
    /\ colour = [n \in nodes |-> "white"]
    /\ stack = <<>>
    /\ left = deps
    /\ verdict = "searching"

Top == stack[Len(stack)]

\* A call of dfs begins.
Enter(n) ==
    /\ colour' = [colour EXCEPT ![n] = "grey"]
    /\ stack' = Append(stack, n)

MayStart(n) == colour[n] = "white"

\* The loop at the end of the function.
Start(n) ==
    /\ verdict = "searching" /\ stack = <<>> /\ MayStart(n)
    /\ Enter(n)
    /\ UNCHANGED <<nodes, deps, left, verdict>>

\* Mutant: every visited step closes a cycle.
ClosesCycle_Seen(d) == colour[d] # "white"

ClosesCycle(d) == colour[d] = "grey"

\* One turn of `for dep in adj.get(node)`.
Look(d) ==
    /\ verdict = "searching" /\ stack # <<>> /\ d \in left[Top]
    /\ left' = [left EXCEPT ![Top] = @ \ {d}]
    /\ CASE d \notin nodes -> UNCHANGED <<colour, stack, verdict>>
         [] d \in nodes /\ ClosesCycle(d) -> verdict' = "cycle" /\ UNCHANGED <<colour, stack>>
         [] d \in nodes /\ ~ClosesCycle(d) /\ colour[d] = "white" -> Enter(d) /\ UNCHANGED verdict
         [] OTHER -> UNCHANGED <<colour, stack, verdict>>
    /\ UNCHANGED <<nodes, deps>>

\* dfs returns.
Leave ==
    /\ verdict = "searching" /\ stack # <<>> /\ left[Top] = {}
    /\ colour' = [colour EXCEPT ![Top] = "black"]
    /\ stack' = SubSeq(stack, 1, Len(stack) - 1)
    /\ UNCHANGED <<nodes, deps, left, verdict>>

\* The function returns without an exception.
Return ==
    /\ verdict = "searching" /\ stack = <<>>
    /\ \A n \in nodes : ~MayStart(n)
    /\ verdict' = "valid"
    /\ UNCHANGED <<nodes, deps, colour, stack, left>>

Done == verdict # "searching" /\ UNCHANGED vars

Next ==
    \/ \E n \in nodes : Start(n)
    \/ \E d \in Id : Look(d)
    \/ Leave
    \/ Return
    \/ Done

Spec == Init /\ [][Next]_vars

--------------------------------------------------------------------------------
\* The reference: some steps each of which depends on one of them.
HasCycle == \E S \in SUBSET nodes : S # {} /\ \A n \in S : deps[n] \cap S # {}

\* What topological_validate lets pass has no cycle: a fan-in on a cycle would
\* wait for itself.
AcceptedIsAcyclic == verdict = "valid" => ~HasCycle

\* What it refuses has one: no workflow is turned away for a step that two paths
\* lead to or for a dependency that does not exist.
RefusedIsCyclic == verdict = "cycle" => HasCycle

\* topological_validate refuses exactly the workflows with a cycle.
ValidatesExactly == AcceptedIsAcyclic /\ RefusedIsCyclic
================================================================================
