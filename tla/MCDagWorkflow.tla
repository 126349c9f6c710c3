------------------------------ MODULE MCDagWorkflow ------------------------------
(* Small workflows: one of each shape, and every graph over three steps, self-loops *)
(* and a dependency on a step that is not there included.                           *)
EXTENDS DagWorkflow

Step(kind, deps) == [kind |-> kind, deps |-> deps, branch |-> NoBranch, branches |-> <<>>]
Target(kind, deps, b) == [Step(kind, deps) EXCEPT !.branch = b]
Condition(deps) == [Step("condition", deps) EXCEPT !.branches = <<"Yes", "No">>]

Start == Step("start", {})

Chain == <<Start, Step("work", {1}), Step("work", {2}), Step("end", {3})>>
Diamond == <<Start, Step("work", {1}), Step("work", {1}), Step("end", {2, 3})>>
\* A join that is also a source of a later join, next to a short cut.
Ladder == <<Start, Step("work", {1}), Step("work", {1}), Step("work", {2, 3}), Step("end", {3, 4})>>
\* No End node: nothing yields an output.
Open == <<Start, Step("work", {1}), Step("work", {1})>>

\* test_condition_executor_switch_case_routing
YesNo == <<Start, Condition({1}), Target("work", {2}, "Yes"), Target("work", {2}, "No"),
           Step("end", {3, 4})>>
\* Branch "No" has no step of its own: the default leads to the end.
YesOrEnd == <<Start, Condition({1}), Target("work", {2}, "Yes"), Step("end", {2, 3})>>
\* A step of no branch is the default.
Fallback == <<Start, Condition({1}), Target("work", {2}, "Yes"), Step("work", {2}),
              Step("end", {3, 4})>>
\* A branch of two steps.
LongBranch == <<Start, Condition({1}), Target("work", {2}, "Yes"), Step("work", {3}),
                Target("work", {2}, "No"), Step("end", {4, 5})>>
\* A condition without branches.
NoChoiceLeft == <<Start, [Condition({1}) EXCEPT !.branches = <<>>], Step("work", {2}),
                  Target("work", {2}, "Yes"), Step("end", {3})>>
Flows == {Chain, Diamond, Ladder, Open, YesNo, YesOrEnd, Fallback, LongBranch, NoChoiceLeft}
Graphs3 == {<<Step("work", a), Step("work", b), Step("work", c)>> :
               a \in SUBSET (1..3), b \in SUBSET (1..3), c \in SUBSET (1..4)}
AllFlows == Flows \cup Graphs3
================================================================================
