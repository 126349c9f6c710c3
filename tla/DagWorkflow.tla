------------------------------- MODULE DagWorkflow -------------------------------
(* A DAG run from its beginning: execute_dag builds the workflow, the first thing  *)
(* build_maf_workflow does is the search of TopoValidate on the run's own steps,   *)
(* and only a graph that passed it gets an engine (DagRun).  A graph that cannot   *)
(* be built ends the run at once.  A user runs a workflow, which is recorded, or   *)
(* an agent does with its tool execute_workflow, which is not: "run" is then the   *)
(* status that execute_dag arrives at.                                             *)
EXTENDS DagRun

CONSTANT Ids    \* step ids, those a depends_on may name without a step included

VARIABLES
    colour, stack, left, verdict,    \* the search
    by,                              \* who runs the workflow: "user" or "agent"
    answer                           \* what the tool told the agent, if it has

\* adj, without leaving out what no step is called.
Adjacent == [n \in Nodes |-> steps[n].deps]

Search == INSTANCE TopoValidate WITH Id <- Ids, nodes <- Nodes, deps <- Adjacent

searchVars == <<colour, stack, left, verdict>>
callVars == <<by, answer>>
allVars == <<vars, searchVars, callVars>>

WorkflowInit == Init /\ Search!Init /\ by = "user" /\ answer = "none"

\* The tool gives a step without dependencies the step before it as one.
Chained(flow) ==
    [i \in DOMAIN flow |-> IF i > 1 /\ flow[i].deps = {} THEN [flow[i] EXCEPT !.deps = {i - 1}]
                           ELSE flow[i]]

AgentRuns ==
    /\ Init /\ Search!Init
    /\ steps \in {Chained(flow) : flow \in Workflows}
    /\ by = "agent" /\ answer = "none"

\* topological_validate, without an await: nobody else moves meanwhile.
Validate ==
    /\ UNCHANGED <<vars, callVars>>
    /\ \/ \E n \in Nodes : Search!Start(n)
       \/ \E d \in Ids : Search!Look(d)
       \/ Search!Leave \/ Search!Return

\* The handler around build_maf_workflow: workflow_done "failed".  The framework's
\* builder may refuse a graph some step of which the start does not reach.
Unbuildable == verdict = "cycle" \/ (verdict = "valid" /\ ~Connected)
BuildFails ==
    /\ Unbuildable /\ reader = "reading" /\ execs = <<Execution(StartNode, {}, 1)>>
    /\ run' = "failed" /\ reader' = "finished" /\ engine' = "raised"
    /\ UNCHANGED <<steps, execs, heap, sent, buffer, rounds, result, yielded, queue, seen>>
    /\ UNCHANGED <<searchVars, callVars>>

Built(A) == verdict = "valid" /\ A /\ UNCHANGED <<searchVars, callVars>>

\* The tool answers "completed" once the events are over, whatever their last one says.
Answers ==
    /\ by = "agent" /\ answer = "none" /\ reader = "finished"
    /\ answer' = "completed"
    /\ UNCHANGED <<vars, searchVars, by>>

WorkflowNext ==
    \/ Validate
    \/ BuildFails
    \/ Built(Next)
    \/ Answers
    \/ Over /\ UNCHANGED <<searchVars, callVars>>

WorkflowSpec == (WorkflowInit \/ AgentRuns) /\ [][WorkflowNext]_allVars

\* As in DagRun, and the build returns or raises.
FairWorkflowSpec ==
    /\ WorkflowSpec
    /\ WF_allVars(Validate) /\ WF_allVars(BuildFails)
    /\ WF_allVars(Built(Execute \/ Deliver \/ Converge \/ GiveUp))
    /\ WF_allVars(Built(ReadEvent \/ Finish))

--------------------------------------------------------------------------------
\* What execute_dag runs has no cycle, and it runs everything that has none.
ValidatesExactly == Search!ValidatesExactly
================================================================================
