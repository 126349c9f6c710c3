--------------------------------- MODULE DagRun ---------------------------------
(* A DAG run of a workflow: build_maf_workflow turns the steps into edge groups *)
(* of the Microsoft Agent Framework, whose runner executes them in supersteps:  *)
(* the messages sent in one round are all delivered at the start of the next,   *)
(* the executions of a round overlap, and a round ends when all of them have.   *)
(* execute_dag reads the executors' events from a queue while the runner works, *)
(* keeps the run's database row up to date and computes the final status.       *)
(*                                                                              *)
(* Steps are numbered in the order of the workflow.  A "work" step stands for   *)
(* agent, map and approval nodes: they complete or fail.  Messages are mutable  *)
(* and shared: a sender passes the object it received on to all its receivers,  *)
(* and only a fan-in (handle_list) makes a new one.                             *)
EXTENDS Naturals, FiniteSets, Sequences, FiniteSetsExt, SequencesExt

CONSTANTS
    Workflows,     \* the step lists a run may be started with
    MaxSupersteps, \* MAX_WORKFLOW_SUPERSTEPS
    NoBranch       \* a step without input_branch, a condition without a choice

ASSUME MaxSuperstepsAssumption == MaxSupersteps \in Nat \ {0}

\* Whoever starts a run refuses a workflow without steps.
ASSUME WorkflowsAssumption ==
    \A flow \in Workflows : flow # <<>> /\ flow \in Seq(ToSet(flow))

VARIABLES
    steps,    \* the steps of this run: [kind, deps, branch, branches]
    execs,    \* the executions of handlers so far: [node, from, obj, state]
    heap,     \* the WorkflowStateMessage objects: [done, failed, skipped, choice]
    sent,     \* the executions whose message is not delivered yet
    buffer,   \* the executions whose message waits in the fan-in of a node
    rounds,   \* supersteps done
    engine,   \* run_task: "running", "converged" or "raised"
    result,   \* step_results_by_id: the status of each step
    yielded,  \* executions of End nodes in the order of their outputs
    queue,    \* sse_queue: [event, node]
    seen,     \* completed_ids and failed_ids of execute_dag
    run,      \* status column of the workflow run
    reader    \* execute_dag: "reading", "finished" or "gone"

engineVars == <<execs, heap, sent, buffer, rounds, engine, result, yielded>>
readerVars == <<seen, run, reader>>
vars == <<steps, execs, heap, sent, buffer, rounds, engine, result, yielded,
          queue, seen, run, reader>>

--------------------------------------------------------------------------------
(* build_maf_workflow *)

Nodes == DOMAIN steps
Kind(n) == steps[n].kind
Deps(n) == steps[n].deps \cap Nodes      \* a dependency on a step that is not there is ignored
Downstream(n) == {m \in Nodes : n \in Deps(m)}

StartNode ==
    LET starts == {n \in Nodes : Kind(n) = "start"}
    IN  IF starts = {} THEN 1 ELSE Min(starts)

\* Steps with several dependencies wait for all of them, unless one of those is
\* itself the target of a branch: they get a plain edge from each instead.
IsFanIn(n) ==
    Cardinality(Deps(n)) > 1 /\ \A d \in Deps(n) : steps[d].branch = NoBranch

\* output_executors[0]
FirstOutput == Min({n \in Nodes : Kind(n) = "end"} \cup {Len(steps)})

\* The cases of a condition's switch, by branch in step order.
CaseTargets(c, b) == {n \in Downstream(c) : b # NoBranch /\ steps[n].branch = b /\ ~IsFanIn(n)}

DefaultTarget(c) ==
    LET grouped == UNION {CaseTargets(c, b) : b \in ToSet(steps[c].branches)}
    IN  IF Downstream(c) \subseteq grouped THEN FirstOutput
        ELSE Min(Downstream(c) \ grouped)

\* Mutant: the lambdas of all cases compare with the last branch.
SwitchTarget_LateBound(c, b) ==
    IF b = Last(steps[c].branches) THEN Min(CaseTargets(c, Head(steps[c].branches)))
    ELSE DefaultTarget(c)

\* The first case that matches gets the message and no other.
SwitchTarget(c, b) ==
    IF CaseTargets(c, b) # {} THEN Min(CaseTargets(c, b)) ELSE DefaultTarget(c)

\* Mutant: a fan-in gets the single messages as well.
Receivers_All(n, o) ==
    IF Kind(n) = "condition" THEN {SwitchTarget(n, heap[o].choice[n])}
    ELSE Downstream(n)

\* Who gets the message that n sent with object o, outside the fan-ins.
Receivers(n, o) ==
    IF Kind(n) = "condition" THEN {SwitchTarget(n, heap[o].choice[n])}
    ELSE {m \in Downstream(n) : ~IsFanIn(m)}

--------------------------------------------------------------------------------
Message(done, failed, skipped, choice) ==
    [done |-> done, failed |-> failed, skipped |-> skipped, choice |-> choice]

NoChoice == [n \in Nodes |-> NoBranch]

Execution(n, from, o) == [node |-> n, from |-> from, obj |-> o, state |-> "ready"]

Init ==
    /\ steps \in Workflows
    /\ execs = <<Execution(StartNode, {}, 1)>>
    /\ heap = <<Message({}, {}, {}, NoChoice)>>
    /\ sent = {}
    /\ buffer = [n \in Nodes |-> {}]
    /\ rounds = 0
    /\ engine = "running"
    /\ result = [n \in Nodes |-> "pending"]
    /\ yielded = <<>>
    /\ queue = <<>>
    /\ seen = [done |-> {}, failed |-> {}]
    /\ run = "running"
    /\ reader = "reading"

--------------------------------------------------------------------------------
(* The executors *)

\* _merge_messages
Merged(objs) ==
    Message(UNION {heap[o].done : o \in objs},
            UNION {heap[o].failed : o \in objs},
            UNION {heap[o].skipped : o \in objs},
            [n \in Nodes |->
                LET choices == {heap[o].choice[n] : o \in objs} \ {NoBranch}
                IN  IF choices = {} THEN NoBranch ELSE CHOOSE c \in choices : TRUE])

\* handle_single works on the object it is given, handle_list on a merged copy.
Begin(x) ==
    /\ engine = "running" /\ execs[x].state = "ready"
    /\ IF execs[x].obj = 0
       THEN /\ heap' = Append(heap, Merged({execs[y].obj : y \in execs[x].from}))
            /\ execs' = [execs EXCEPT ![x].state = "running", ![x].obj = Len(heap) + 1]
       ELSE /\ execs' = [execs EXCEPT ![x].state = "running"]
            /\ UNCHANGED heap
    /\ UNCHANGED <<steps, sent, buffer, rounds, engine, result, yielded, queue>>
    /\ UNCHANGED readerVars

Running(x, kinds) ==
    engine = "running" /\ execs[x].state = "running" /\ Kind(execs[x].node) \in kinds

\* ctx.send_message or, in an End node, ctx.yield_output.
Close(x) ==
    /\ execs' = [execs EXCEPT ![x].state = "done"]
    /\ IF Kind(execs[x].node) = "end"
       THEN yielded' = Append(yielded, x) /\ UNCHANGED sent
       ELSE sent' = sent \cup {x} /\ UNCHANGED yielded
    /\ UNCHANGED <<steps, buffer, rounds, engine>>
    /\ UNCHANGED readerVars

Emit(event, n) == queue' = Append(queue, [event |-> event, node |-> n])

Complete(x) ==
    LET n == execs[x].node
    IN  /\ Running(x, {"start", "work", "end"})
        /\ heap' = [heap EXCEPT ![execs[x].obj].done = @ \cup {n}]
        /\ result' = [result EXCEPT ![n] = "completed"]
        /\ Emit("node_complete", n)
        /\ Close(x)

\* _mark_failed, after which the handler sends its message all the same.
Fail(x) ==
    LET n == execs[x].node
    IN  /\ Running(x, {"work"})
        /\ heap' = [heap EXCEPT ![execs[x].obj].failed = @ \cup {n}]
        /\ result' = [result EXCEPT ![n] = "failed"]
        /\ Emit("node_error", n)
        /\ Close(x)

\* The direct targets of the other branches.
Untaken(c, chosen) ==
    {n \in Downstream(c) : steps[n].branch \notin {NoBranch, chosen}}

\* _evaluate_condition: the model is asked for a label and any of them may come back, the
\* first if it names none, if it fails or if there is no provider; without labels there is no
\* choice, and every branch target is left out.
Labels(n) == IF steps[n].branches = <<>> THEN {NoBranch} ELSE ToSet(steps[n].branches)

Choose(x, chosen) ==
    LET n == execs[x].node
        m == heap[execs[x].obj]
        skip == Untaken(n, chosen) \ (m.done \cup {n} \cup m.skipped)
    IN  /\ Running(x, {"condition"})
        /\ chosen \in Labels(n)
        /\ heap' = [heap EXCEPT ![execs[x].obj] =
                       Message(m.done \cup {n}, m.failed, m.skipped \cup skip,
                               [m.choice EXCEPT ![n] = chosen])]
        /\ result' = [k \in Nodes |-> CASE k = n -> "completed"
                                        [] k \in skip -> "skipped"
                                        [] OTHER -> result[k]]
        /\ Emit("node_complete", n)
        /\ Close(x)

\* An exception leaves a handler (an agent id that is no number): run() raises.
Raise(x) ==
    /\ Running(x, {"work"})
    /\ engine' = "raised"
    /\ UNCHANGED <<steps, execs, heap, sent, buffer, rounds, result, yielded, queue>>
    /\ UNCHANGED readerVars

--------------------------------------------------------------------------------
(* The runner *)

RoundOver == engine = "running" /\ \A x \in DOMAIN execs : execs[x].state = "done"

\* Mutant: the runner never gives up.
MayContinue_Always == TRUE

MayContinue == rounds < MaxSupersteps

\* Mutant: a fan-in forgets what came in earlier rounds.
Gathered_Fresh(n) == {x \in sent : execs[x].node \in Deps(n)}

\* Fan-ins whose every source has sent, with what is delivered now.
Gathered(n) == buffer[n] \cup {x \in sent : execs[x].node \in Deps(n)}

\* Mutant: one source is enough.
Full_Any(n) == IsFanIn(n) /\ Gathered(n) # {}
Full(n) == IsFanIn(n) /\ {execs[x].node : x \in Gathered(n)} = Deps(n)

Deliver ==
    /\ RoundOver /\ sent # {} /\ MayContinue
    /\ LET single == {p \in sent \X Nodes : p[2] \in Receivers(execs[p[1]].node, execs[p[1]].obj)}
           joins == {n \in Nodes : Full(n) /\ Gathered(n) # buffer[n]}
       IN  /\ execs' = execs
                 \o SetToSeq({Execution(p[2], {p[1]}, execs[p[1]].obj) : p \in single})
                 \o SetToSeq({Execution(n, Gathered(n), 0) : n \in joins})
           /\ buffer' = [n \in Nodes |-> IF ~IsFanIn(n) \/ n \in joins THEN {} ELSE Gathered(n)]
    /\ sent' = {}
    /\ rounds' = rounds + 1
    /\ UNCHANGED <<steps, heap, engine, result, yielded, queue>>
    /\ UNCHANGED readerVars

Converge ==
    /\ RoundOver /\ sent = {}
    /\ engine' = "converged"
    /\ UNCHANGED <<steps, execs, heap, sent, buffer, rounds, result, yielded, queue>>
    /\ UNCHANGED readerVars

\* Messages are left after the last superstep that is allowed.
GiveUp ==
    /\ RoundOver /\ sent # {} /\ ~MayContinue
    /\ engine' = "raised"
    /\ UNCHANGED <<steps, execs, heap, sent, buffer, rounds, result, yielded, queue>>
    /\ UNCHANGED readerVars

--------------------------------------------------------------------------------
(* execute_dag *)

\* Mutant: only errors are counted.
Noted_Errors(e) ==
    IF e.event = "node_complete" THEN seen ELSE [seen EXCEPT !.failed = @ \cup {e.node}]

Noted(e) ==
    IF e.event = "node_complete" THEN [seen EXCEPT !.done = @ \cup {e.node}]
    ELSE [seen EXCEPT !.failed = @ \cup {e.node}]

\* One event of the queue: count it and write the row, which says "failed" from
\* the first node_error on.
ReadEvent ==
    /\ reader = "reading" /\ queue # <<>>
    /\ queue' = Tail(queue)
    /\ seen' = Noted(Head(queue))
    /\ run' = IF Head(queue).event = "node_error" THEN "failed" ELSE run
    /\ UNCHANGED <<steps, reader>>
    /\ UNCHANGED engineVars

\* What the first output of an End node adds; nothing if run() raised.
FinalMessage ==
    IF engine = "converged" /\ yielded # <<>>
    THEN heap[execs[yielded[1]].obj]
    ELSE Message({}, {}, {}, NoChoice)

\* Mutant: without `len(failed_ids) == 0`.
AllOk_Count ==
    /\ engine = "converged"
    /\ LET failed == seen.failed \cup FinalMessage.failed
           done == seen.done \cup FinalMessage.done \cup FinalMessage.skipped
       IN  Cardinality(done) >= Cardinality(Nodes) - Cardinality(failed)

\* all_ok: with no failure the count of the code means every node.
AllOk ==
    /\ engine = "converged"
    /\ seen.failed \cup FinalMessage.failed = {}
    /\ seen.done \cup FinalMessage.done \cup FinalMessage.skipped = Nodes

\* Mutant: the reader waits for a run that raised.
RunTaskDone_NotRaised == engine = "converged"

RunTaskDone == engine # "running"

\* Run over and queue drained: workflow_done, and the row's final status.
Finish ==
    /\ reader = "reading" /\ RunTaskDone /\ queue = <<>>
    /\ run' = IF AllOk THEN "completed" ELSE "failed"
    /\ reader' = "finished"
    /\ UNCHANGED <<steps, queue, seen>>
    /\ UNCHANGED engineVars

\* The client of the event stream goes away: the generator is closed and nobody
\* reads or writes the row any more; run_task is left running.
Disconnect ==
    /\ reader = "reading"
    /\ reader' = "gone"
    /\ UNCHANGED <<steps, queue, seen, run>>
    /\ UNCHANGED engineVars

Over ==
    /\ engine # "running" /\ reader # "reading"
    /\ UNCHANGED vars

--------------------------------------------------------------------------------
Outcome(x) ==
    \/ Complete(x) \/ Fail(x) \/ Raise(x)
    \/ \E b \in Labels(execs[x].node) : Choose(x, b)

Execute == \E x \in DOMAIN execs : Begin(x) \/ Outcome(x)

Next ==
    \/ Execute
    \/ Deliver \/ Converge \/ GiveUp
    \/ ReadEvent \/ Finish
    \/ Disconnect
    \/ Over

Spec == Init /\ [][Next]_vars

\* The event loop serves the runner and the reader; every node has an end (model
\* calls return or time out, approvals have a timeout).
FairSpec ==
    /\ Spec
    /\ WF_vars(Execute \/ Deliver \/ Converge \/ GiveUp)
    /\ WF_vars(ReadEvent \/ Finish)

--------------------------------------------------------------------------------
(* Properties *)

Executions(n) == {x \in DOMAIN execs : execs[x].node = n}
Conditions == {n \in Nodes : Kind(n) = "condition"}
Unconditional == Conditions = {} /\ \A n \in Nodes : steps[n].branch = NoBranch
Connected == \A S \in SUBSET (Nodes \ {StartNode}) :
                 S # {} => \E n \in S : Deps(n) \ S # {}   \* every step is reached from the start
EndsAreLast == \A n \in Nodes : Kind(n) = "end" => Downstream(n) = {}
Settled(n) == result[n] \in {"completed", "failed"}

\* One type invariant for engine and reader.
TypeOK ==
    /\ steps \in Workflows
    /\ \A x \in DOMAIN execs :
          /\ execs[x].node \in Nodes
          /\ execs[x].from \subseteq 1..(x - 1)
          /\ execs[x].obj \in 0..Len(heap)
          /\ execs[x].state \in {"ready", "running", "done"}
    /\ \A o \in DOMAIN heap :
          heap[o].done \cup heap[o].failed \cup heap[o].skipped \subseteq Nodes
    /\ sent \subseteq DOMAIN execs
    /\ buffer \in [Nodes -> SUBSET (DOMAIN execs)]
    /\ rounds \in 0..MaxSupersteps
    /\ engine \in {"running", "converged", "raised"}
    /\ result \in [Nodes -> {"pending", "completed", "failed", "skipped"}]
    /\ seen.done \cup seen.failed \subseteq Nodes
    /\ run \in {"running", "completed", "failed"}
    /\ reader \in {"reading", "finished", "gone"}

\* A step with several dependencies none of which is a branch target starts only
\* when every one of them has completed or failed, however their executions
\* overlapped.  The step the run starts with is not asked, nor is one that a switch
\* falls back on: the condition starts it without the others.
JoinWaitsForAll ==
    \A n \in Nodes \ ({StartNode} \cup {DefaultTarget(c) : c \in Conditions}) :
        IsFanIn(n) /\ Executions(n) # {} => \A d \in Deps(n) : Settled(d)

\* A branch target whose only dependency is the condition runs only if the
\* condition, evaluated once, chose its branch; the first output is what any switch
\* without another default falls back on.
BranchRespected ==
    \A x \in DOMAIN execs : \A c \in Conditions :
        LET n == execs[x].node
        IN  Deps(n) = {c} /\ steps[n].branch \in Labels(c) \ {NoBranch}
            /\ n \notin {StartNode, FirstOutput} /\ Cardinality(Executions(c)) <= 1
               => heap[execs[x].obj].choice[c] = steps[n].branch

\* No step runs before its turn: a join (build_maf_workflow gives it a fan-in)
\* waits for all its dependencies and a branch target for its condition.
RunsWhenDue == JoinWaitsForAll /\ BranchRespected

\* Where no step mixes branch targets with other dependencies, no step runs more
\* than once; without conditions a run that converges has executed every step, if
\* all are reached from the start and none depends on an End (which sends nothing on),
\* so that no join is left with a part of its messages.
RunsOnce ==
    /\ \A n \in Nodes : Cardinality(Executions(n)) <= 1
    /\ Unconditional /\ Connected /\ EndsAreLast /\ engine = "converged" => \A n \in Nodes : Executions(n) # {}

\* The final status of execute_dag: "completed" only if nothing failed and every
\* step either completed or was left out by a condition; without conditions and
\* exceptions, exactly if every step completed.
VerdictHonest ==
    /\ run = "completed" => \A n \in Nodes : result[n] \in {"completed", "skipped"}
    /\ Unconditional /\ reader = "finished" /\ engine = "converged" =>
          (run = "completed" <=> \A n \in Nodes : result[n] = "completed")

\* The row that said "failed" while the run went on never turns "completed".
FailedStays == [][run = "failed" => run' = "failed"]_vars

\* A client that keeps reading sees the run end.
RunEnds == (reader = "reading") ~> (reader \in {"finished", "gone"})
================================================================================
