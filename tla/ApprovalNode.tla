------------------------------ MODULE ApprovalNode ------------------------------
(* The 'approval' node of a workflow run: ApprovalStepExecutor._process waits   *)
(* on an asyncio.Event it put into the process-wide dictionary                  *)
(* workflow_hitl_events under "<run>:<node>", while the approve and deny        *)
(* endpoints check the approval record, write it and set the event they find    *)
(* under that key.  One run is modelled: the keys of two runs never meet.       *)
(* Scheduled runs bring no approval callbacks: there the node fails at once and  *)
(* leaves no record (DagRun!Fail).                                              *)
(*                                                                              *)
(* With the SQLite store the database calls are synchronous, so that everything *)
(* between two waits of a handler is one step of the event loop; with the Mongo *)
(* store each database call suspends its handler and is a step of its own.      *)
EXTENDS Naturals, FiniteSets

CONSTANTS
    Exec,        \* executions of approval nodes, each with its own record
    Node,        \* the approval nodes of the run
    NodeOf,      \* NodeOf[e]: the node that e executes
    AutoApprove, \* the nodes whose config says on_timeout = auto_approve
    Req,         \* approve and deny requests
    NoExec       \* no entry in workflow_hitl_events

ASSUME NodeOfAssumption == NodeOf \in [Exec -> Node]
ASSUME AutoApproveAssumption == AutoApprove \subseteq Node
ASSUME NoExecAssumption == NoExec \notin Exec

Votes == {"approved", "denied"}
Statuses == {"none", "pending", "approved", "denied", "expired"}
Verdicts == {"none", "approved", "denied", "timed_out"}
ExecStates == {"idle", "waiting", "reading", "expiring", "done", "gone"}
\* "cut" and "unheard" requests died with the process: before, after the write.
ReqStates == {"new", "checked", "written", "acked", "refused", "cut", "unheard"}

VARIABLES
    pc,        \* where each execution of _process is
    record,    \* status column of the approval record of each execution
    waiter,    \* workflow_hitl_events: whose event each key holds
    signalled, \* is the event of this execution set
    verdict,   \* `decision` at the end of _process
    reqState,  \* where each request is
    target,    \* the approval id in its URL
    vote,      \* which of the two endpoints it calls
    store      \* DATABASE_TYPE, which never changes

execVars == <<pc, record, waiter, signalled, verdict>>
reqVars == <<reqState, target, vote, store>>
vars == <<pc, record, waiter, signalled, verdict, reqState, target, vote, store>>

TypeOK ==
    /\ pc \in [Exec -> ExecStates]
    /\ record \in [Exec -> Statuses]
    /\ waiter \in [Node -> Exec \cup {NoExec}]
    /\ signalled \in [Exec -> BOOLEAN]
    /\ verdict \in [Exec -> Verdicts]
    /\ reqState \in [Req -> ReqStates]
    /\ target \in [Req -> Exec]
    /\ vote \in [Req -> Votes]
    /\ store \in {"sqlite", "mongo"}

Init ==
    /\ pc = [e \in Exec |-> "idle"]
    /\ record = [e \in Exec |-> "none"]
    /\ waiter = [n \in Node |-> NoExec]
    /\ signalled = [e \in Exec |-> FALSE]
    /\ verdict = [e \in Exec |-> "none"]
    /\ reqState = [r \in Req |-> "new"]
    /\ target \in [Req -> Exec]
    /\ vote \in [Req -> Votes]
    /\ store \in {"sqlite", "mongo"}

--------------------------------------------------------------------------------
(* The executor *)

\* Create the pending record, put a fresh event under the node's key and tell
\* the client (node_paused).  Nobody knows the record's id before that, so that
\* the suspension of the Mongo insert in between cannot be observed.
Pause(e) ==
    /\ pc[e] = "idle"
    /\ pc' = [pc EXCEPT ![e] = "waiting"]
    /\ record' = [record EXCEPT ![e] = "pending"]
    /\ waiter' = [waiter EXCEPT ![NodeOf[e]] = e]
    /\ UNCHANGED <<signalled, verdict>>
    /\ UNCHANGED reqVars

\* `finally: workflow_hitl_events.pop(event_key)`, then complete or _mark_failed.
Conclude(e, decision) ==
    /\ pc' = [pc EXCEPT ![e] = "done"]
    /\ verdict' = [verdict EXCEPT ![e] = decision]
    /\ waiter' = [waiter EXCEPT ![NodeOf[e]] = NoExec]
    /\ UNCHANGED signalled
    /\ UNCHANGED reqVars

\* Mutant: whoever wakes is approved.
DecisionOf_Woken(status) == "approved"

\* What the executor makes of the status it reads after waking.
DecisionOf(status) == IF status \in Votes THEN status ELSE "timed_out"

\* on_timeout of the node.
TimeoutDecision(e) ==
    IF NodeOf[e] \in AutoApprove THEN "approved" ELSE "timed_out"

\* Mutant: the record is forgotten on a timeout.
MarkExpired_Not(e) == UNCHANGED record

\* resolve_approval(approval_id, "expired"), whatever the record says.
MarkExpired(e) == record' = [record EXCEPT ![e] = "expired"]

\* The event was set: read the status (SQLite: without a suspension).
WakeAndDecide(e) ==
    /\ store = "sqlite" /\ pc[e] = "waiting" /\ signalled[e]
    /\ Conclude(e, DecisionOf(record[e]))
    /\ UNCHANGED record

Wake(e) ==
    /\ store = "mongo" /\ pc[e] = "waiting" /\ signalled[e]
    /\ pc' = [pc EXCEPT ![e] = "reading"]
    /\ UNCHANGED <<record, waiter, signalled, verdict>>
    /\ UNCHANGED reqVars

Decide(e) ==
    /\ pc[e] = "reading"
    /\ Conclude(e, DecisionOf(record[e]))
    /\ UNCHANGED record

\* wait_for gives up.  Its timer may run in the very iteration of the event
\* loop in which a request has set the event, and then wins (Python 3.12).
TimeOutAtOnce(e) ==
    /\ store = "sqlite" /\ pc[e] = "waiting"
    /\ MarkExpired(e)
    /\ Conclude(e, TimeoutDecision(e))

TimeOut(e) ==
    /\ store = "mongo" /\ pc[e] = "waiting"
    /\ pc' = [pc EXCEPT ![e] = "expiring"]
    /\ UNCHANGED <<record, waiter, signalled, verdict>>
    /\ UNCHANGED reqVars

Expire(e) ==
    /\ pc[e] = "expiring"
    /\ MarkExpired(e)
    /\ Conclude(e, TimeoutDecision(e))

--------------------------------------------------------------------------------
(* The endpoints *)

\* Mutant: the record is resolved and nobody is woken.
SignalKeyOf_Not(e) == UNCHANGED signalled

\* event = workflow_hitl_events.get(key); if event: event.set()
SignalKeyOf(e) ==
    signalled' = [x \in Exec |-> signalled[x] \/ x = waiter[NodeOf[e]]]

Answer(r, s) == reqState' = [reqState EXCEPT ![r] = s]

\* A client knows the id of a record from the node_paused event.
Sendable(r) == reqState[r] = "new" /\ pc[target[r]] # "idle"

\* Mutant: the endpoints do not look at the status.
IsPending_Any(r) == TRUE

IsPending(r) == record[target[r]] = "pending"

\* 404 "Approval not found or already resolved"
Refuse(r) ==
    /\ Sendable(r) /\ ~IsPending(r)
    /\ Answer(r, "refused")
    /\ UNCHANGED <<target, vote, store>>
    /\ UNCHANGED execVars

\* SQLite: query, commit and event.set() in one step.
Resolve(r) ==
    /\ store = "sqlite" /\ Sendable(r) /\ IsPending(r)
    /\ record' = [record EXCEPT ![target[r]] = vote[r]]
    /\ SignalKeyOf(target[r])
    /\ Answer(r, "acked")
    /\ UNCHANGED <<pc, waiter, verdict, target, vote, store>>

\* Mongo: find_by_id, update_status and event.set() with a wait in between; the
\* update does not look at the status again.
Check(r) ==
    /\ store = "mongo" /\ Sendable(r) /\ IsPending(r)
    /\ Answer(r, "checked")
    /\ UNCHANGED <<target, vote, store>>
    /\ UNCHANGED execVars

Write(r) ==
    /\ reqState[r] = "checked"
    /\ record' = [record EXCEPT ![target[r]] = vote[r]]
    /\ Answer(r, "written")
    /\ UNCHANGED <<pc, waiter, signalled, verdict, target, vote, store>>

Signal(r) ==
    /\ reqState[r] = "written"
    /\ SignalKeyOf(target[r])
    /\ Answer(r, "acked")
    /\ UNCHANGED <<pc, record, waiter, verdict, target, vote, store>>

--------------------------------------------------------------------------------
(* The process *)

\* The server restarts: events, executions and requests are lost, the records
\* stay as they are.  Startup resumes no run and cleans up no workflow approval.
Restart ==
    /\ \E e \in Exec : pc[e] \notin {"done", "gone"}
    /\ pc' = [e \in Exec |-> IF pc[e] = "done" THEN "done" ELSE "gone"]
    /\ waiter' = [n \in Node |-> NoExec]
    /\ reqState' = [r \in Req |-> CASE reqState[r] = "checked" -> "cut"
                                    [] reqState[r] = "written" -> "unheard"
                                    [] OTHER -> reqState[r]]
    /\ UNCHANGED <<record, signalled, verdict, target, vote, store>>

\* Nothing is left to do.
Quiet ==
    /\ \A e \in Exec : pc[e] \in {"done", "gone"}
    /\ \A r \in Req : reqState[r] \notin {"new", "checked", "written"}
    /\ UNCHANGED vars

ExecStep(e) ==
    \/ Pause(e)
    \/ WakeAndDecide(e) \/ Wake(e) \/ Decide(e)
    \/ TimeOutAtOnce(e) \/ TimeOut(e) \/ Expire(e)

ReqStep(r) == Refuse(r) \/ Resolve(r) \/ Check(r) \/ Write(r) \/ Signal(r)

Next ==
    \/ \E e \in Exec : ExecStep(e)
    \/ \E r \in Req : ReqStep(r)
    \/ Restart
    \/ Quiet

Spec == Init /\ [][Next]_vars

\* The event loop runs a task that was woken, and a database call comes back.
\* The timer is left out on purpose: AckResumes must not lean on it.
FairSpec ==
    /\ Spec
    /\ \A e \in Exec : WF_vars(WakeAndDecide(e) \/ Wake(e) \/ Decide(e) \/ Expire(e))
    /\ \A r \in Req : WF_vars(Write(r) \/ Signal(r))

--------------------------------------------------------------------------------
(* Properties *)

\* The requests whose vote reached the record of e.
Cast(e) == {r \in Req : target[r] = e /\ reqState[r] \in {"written", "acked", "unheard"}}

\* An approval node lets the run continue only if somebody's approval of that
\* very execution was written, or if its own configuration approves on timeout:
\* waking up is never taken for an approval, not even when the event was set
\* through the key of another execution of the node (_process reads the status
\* of its own record).  A denial is reported only if somebody denied.
GateNeedsVote ==
    \A e \in Exec :
        /\ verdict[e] = "approved" =>
             NodeOf[e] \in AutoApprove \/ \E r \in Cast(e) : vote[r] = "approved"
        /\ verdict[e] = "denied" => \E r \in Cast(e) : vote[r] = "denied"

\* Of all the answers to one question at most one is confirmed to its sender;
\* the others get the 404 "already resolved" of the endpoints.  (MongoDB checks and
\* writes in two calls.)
AtMostOneAck ==
    \A r, s \in Req :
        store = "sqlite" /\ reqState[r] = "acked" /\ reqState[s] = "acked" /\ target[r] = target[s] => r = s

\* e shares its key with no other execution.
Alone(e) == \A f \in Exec \ {e} : NodeOf[f] # NodeOf[e]

\* With SQLite, when an execution is over, the record that remains tells how it ended.
RecordTellsVerdict ==
    \A e \in Exec : Alone(e) /\ store = "sqlite" /\ pc[e] = "done" =>
        \/ record[e] = verdict[e]
        \/ record[e] = "expired" /\ verdict[e] = TimeoutDecision(e)

\* No execution ends with its question still open: a later answer would be
\* confirmed although it can change nothing any more.
NoQuestionLeftOpen ==
    \A e \in Exec : pc[e] = "done" => record[e] # "pending"

\* As soon as a request on an execution that still waits is confirmed, the
\* execution's event is set: it is not left to wait out its timeout
\* (docstring of deny_workflow_node).
AckWakes ==
    \A r \in Req : 
        reqState[r] = "acked" /\ pc[target[r]] = "waiting" => signalled[target[r]]

\* Whoever got an answer confirmed for a waiting execution sees it end, even if
\* its timer never fires.
AckResumes ==
    \A r \in Req :
        (Alone(target[r]) /\ reqState[r] = "acked" /\ pc[target[r]] = "waiting") ~> (pc[target[r]] \in {"done", "gone"})

Gates == INSTANCE HumanGate WITH
    Gate <- Exec,
    AutoOpen <- {e \in Exec : NodeOf[e] \in AutoApprove},
    gate <- [e \in Exec |-> CASE verdict[e] = "none" -> "shut"
                              [] verdict[e] = "approved" -> "open"
                              [] OTHER -> "refused"],
    said <- [e \in Exec |-> {vote[r] : r \in Cast(e)}]

\* Approval nodes are gates: every step opens or refuses one gate, records one
\* answer, or changes nothing a gate shows.
ImplementsGate == Gates!Spec
================================================================================
