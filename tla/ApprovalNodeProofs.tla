---------------------------- MODULE ApprovalNodeProofs ----------------------------
(* Proofs about ApprovalNode for any number of executions, nodes and requests.  *)
EXTENDS ApprovalNode, TLAPS

USE NodeOfAssumption, NoExecAssumption

--------------------------------------------------------------------------------
(* Types *)

\* Every variable keeps its type through every step of executor, request and
\* process.
THEOREM TypeCorrect == Spec => []TypeOK
<1>1. Init => TypeOK
  BY DEF Init, TypeOK, Statuses, Verdicts, ExecStates, ReqStates
<1>2. TypeOK /\ [Next]_vars => TypeOK'
  <2> SUFFICES ASSUME TypeOK, [Next]_vars
               PROVE  TypeOK'
    OBVIOUS
  <2> USE DEF TypeOK, Statuses, Verdicts, ExecStates, ReqStates, Votes
  <2>1. ASSUME NEW e \in Exec, ExecStep(e)
        PROVE  TypeOK'
    <3>1. CASE Pause(e)
      BY <3>1 DEF Pause, reqVars
    <3>2. CASE WakeAndDecide(e)
      BY <3>2 DEF WakeAndDecide, Conclude, DecisionOf, reqVars
    <3>3. CASE Wake(e)
      BY <3>3 DEF Wake, reqVars
    <3>4. CASE Decide(e)
      BY <3>4 DEF Decide, Conclude, DecisionOf, reqVars
    <3>5. CASE TimeOutAtOnce(e)
      BY <3>5 DEF TimeOutAtOnce, Conclude, TimeoutDecision, MarkExpired, reqVars
    <3>6. CASE TimeOut(e)
      BY <3>6 DEF TimeOut, reqVars
    <3>7. CASE Expire(e)
      BY <3>7 DEF Expire, Conclude, TimeoutDecision, MarkExpired, reqVars
    <3> QED
      BY <2>1, <3>1, <3>2, <3>3, <3>4, <3>5, <3>6, <3>7 DEF ExecStep
  <2>2. ASSUME NEW r \in Req, ReqStep(r)
        PROVE  TypeOK'
    <3> USE DEF Answer
    <3>1. CASE Refuse(r)
      BY <3>1 DEF Refuse, execVars
    <3>2. CASE Resolve(r)
      BY <3>2 DEF Resolve, SignalKeyOf
    <3>3. CASE Check(r)
      BY <3>3 DEF Check, execVars
    <3>4. CASE Write(r)
      BY <3>4 DEF Write
    <3>5. CASE Signal(r)
      BY <3>5 DEF Signal, SignalKeyOf
    <3> QED
      BY <2>2, <3>1, <3>2, <3>3, <3>4, <3>5 DEF ReqStep
  <2>3. CASE Restart
    BY <2>3 DEF Restart
  <2>4. CASE Quiet \/ UNCHANGED vars
    BY <2>4 DEF Quiet, vars
  <2> QED
    BY <2>1, <2>2, <2>3, <2>4 DEF Next
<1> QED
  BY <1>1, <1>2, PTL DEF Spec

--------------------------------------------------------------------------------
(* What a gate needs *)

\* A status that is a vote was written by a request with that vote.
RecordIsCast ==
    \A e \in Exec : record[e] \in Votes => \E r \in Cast(e) : vote[r] = record[e]

\* Only a finished execution has a verdict, and every one that finished has one.
VerdictWhenDone ==
    \A e \in Exec : verdict[e] = "none" <=> pc[e] # "done"

GateInv == TypeOK /\ RecordIsCast /\ VerdictWhenDone /\ GateNeedsVote

\* A cast vote stays cast.
LEMMA CastGrows ==
  ASSUME TypeOK, [Next]_vars, NEW e \in Exec, NEW r \in Cast(e)
  PROVE  r \in Cast(e)' /\ vote'[r] = vote[r]
<1> USE DEF TypeOK, Cast, reqVars, execVars, Answer
<1>1. ASSUME NEW x \in Exec, ExecStep(x)
      PROVE  r \in Cast(e)' /\ vote'[r] = vote[r]
  BY <1>1 DEF ExecStep, Pause, WakeAndDecide, Wake, Decide, TimeOutAtOnce, TimeOut, Expire, Conclude
<1>2. ASSUME NEW q \in Req, ReqStep(q)
      PROVE  r \in Cast(e)' /\ vote'[r] = vote[r]
  <2>1. reqState[q] \in {"new", "checked", "written"}
    BY <1>2 DEF ReqStep, Refuse, Resolve, Check, Write, Signal, Sendable
  <2>2. /\ UNCHANGED <<target, vote>>
        /\ \/ reqState[q] = "written" /\ reqState' = [reqState EXCEPT ![q] = "acked"]
           \/ /\ reqState[q] \in {"new", "checked"}
              /\ \E s : reqState' = [reqState EXCEPT ![q] = s]
    BY <1>2 DEF ReqStep, Refuse, Resolve, Check, Write, Signal, Sendable
  <2> QED
    BY <2>1, <2>2
<1>3. CASE Restart
  BY <1>3 DEF Restart
<1>4. CASE Quiet \/ UNCHANGED vars
  BY <1>4 DEF Quiet, vars
<1> QED
  BY <1>1, <1>2, <1>3, <1>4 DEF Next

\* GateInv is inductive.
LEMMA GateInvariant == Spec => []GateInv
<1>1. Init => GateInv
  BY DEF Init, GateInv, TypeOK, RecordIsCast, VerdictWhenDone, GateNeedsVote,
         Statuses, Verdicts, ExecStates, ReqStates, Votes
<1>2. GateInv /\ TypeOK' /\ [Next]_vars => GateInv'
  <2> SUFFICES ASSUME GateInv, TypeOK', [Next]_vars
               PROVE  GateInv'
    OBVIOUS
  <2> USE DEF GateInv
  <2>1. ASSUME NEW e \in Exec, NEW v \in Votes, \E r \in Cast(e) : vote[r] = v
        PROVE  \E r \in Cast(e)' : vote'[r] = v
    BY <2>1, CastGrows
  <2>2. ASSUME NEW e \in Exec, ExecStep(e)
        PROVE  GateInv'
    <3>1. CASE Pause(e) \/ Wake(e) \/ TimeOut(e)
      <4>1. \A x \in Exec : record'[x] \in Votes => record'[x] = record[x]
        BY <3>1 DEF Pause, Wake, TimeOut, TypeOK, Votes
      <4>2. RecordIsCast'
        BY <4>1, <2>1 DEF RecordIsCast
      <4>3. VerdictWhenDone' /\ verdict' = verdict
        BY <3>1 DEF Pause, Wake, TimeOut, TypeOK, VerdictWhenDone
      <4> QED
        BY <4>2, <4>3, <2>1 DEF GateNeedsVote, Votes
    <3>2. ASSUME WakeAndDecide(e) \/ Decide(e)
          PROVE  GateInv'
      <4>1. record' = record /\ Conclude(e, DecisionOf(record[e]))
        BY <3>2 DEF WakeAndDecide, Decide
      <4>2. RecordIsCast'
        BY <4>1, <2>1 DEF RecordIsCast
      <4>3. DecisionOf(record[e]) # "none"
        BY DEF DecisionOf, Votes
      <4>4. VerdictWhenDone'
        BY <4>1, <4>3 DEF Conclude, TypeOK, VerdictWhenDone
      <4>5. \A x \in Exec : verdict'[x] = IF x = e THEN DecisionOf(record[e]) ELSE verdict[x]
        BY <4>1 DEF Conclude, TypeOK
      <4>6. DecisionOf(record[e]) \in Votes => \E r \in Cast(e) : vote[r] = DecisionOf(record[e])
        BY DEF DecisionOf, RecordIsCast, Votes
      <4> QED
        BY <4>2, <4>4, <4>5, <4>6, <2>1 DEF GateNeedsVote, Votes
    <3>3. ASSUME TimeOutAtOnce(e) \/ Expire(e)
          PROVE  GateInv'
      <4>1. MarkExpired(e) /\ Conclude(e, TimeoutDecision(e))
        BY <3>3 DEF TimeOutAtOnce, Expire
      <4>2. \A x \in Exec : record'[x] \in Votes => record'[x] = record[x]
        BY <4>1 DEF MarkExpired, TypeOK, Votes
      <4>3. RecordIsCast'
        BY <4>2, <2>1 DEF RecordIsCast
      <4>4. /\ TimeoutDecision(e) \in {"approved", "timed_out"}
            /\ TimeoutDecision(e) = "approved" => NodeOf[e] \in AutoApprove
        BY DEF TimeoutDecision
      <4>5. \A x \in Exec : verdict'[x] = IF x = e THEN TimeoutDecision(e) ELSE verdict[x]
        BY <4>1 DEF Conclude, TypeOK
      <4>6. VerdictWhenDone'
        BY <4>1, <4>4 DEF Conclude, TypeOK, VerdictWhenDone
      <4> QED
        BY <4>3, <4>4, <4>5, <4>6, <2>1 DEF GateNeedsVote, Votes
    <3> QED
      BY <2>2, <3>1, <3>2, <3>3 DEF ExecStep
  <2>3. ASSUME NEW q \in Req, ReqStep(q)
        PROVE  GateInv'
    <3>1. UNCHANGED <<pc, verdict>>
      BY <2>3 DEF ReqStep, Refuse, Resolve, Check, Write, Signal, execVars
    <3>2. \A e \in Exec : record'[e] \in Votes =>
             \/ record'[e] = record[e]
             \/ q \in Cast(e)' /\ vote'[q] = record'[e]
      BY <2>3 DEF ReqStep, Refuse, Resolve, Check, Write, Signal, execVars, Answer, Cast, TypeOK
    <3>3. RecordIsCast'
      BY <3>2, <2>1 DEF RecordIsCast
    <3> QED
      BY <3>1, <3>3, <2>1 DEF VerdictWhenDone, GateNeedsVote, Votes
  <2>4. CASE Restart
    <3>1. UNCHANGED <<record, verdict>>
      BY <2>4 DEF Restart
    <3>2. VerdictWhenDone'
      BY <2>4 DEF Restart, VerdictWhenDone, TypeOK
    <3> QED
      BY <3>1, <3>2, <2>1 DEF RecordIsCast, GateNeedsVote, Votes
  <2>5. CASE Quiet \/ UNCHANGED vars
    BY <2>5 DEF Quiet, vars, RecordIsCast, VerdictWhenDone, GateNeedsVote, Cast, TypeOK
  <2> QED
    BY <2>2, <2>3, <2>4, <2>5 DEF Next
<1> QED
  BY <1>1, <1>2, TypeCorrect, PTL DEF Spec

\* The gate opens for nobody but somebody's written approval or the node's own
\* configuration, and is denied only by a written denial.
THEOREM GateSafe == Spec => []GateNeedsVote
<1>1. GateInv => GateNeedsVote
  BY DEF GateInv
<1> QED
  BY <1>1, GateInvariant, PTL

--------------------------------------------------------------------------------
(* One answer per question *)

\* With synchronous database calls a request is answered in the step that checks
\* the status, and the question it answered is settled from then on.
OneAnswerInv ==
    /\ TypeOK
    /\ AtMostOneAck
    /\ store = "sqlite" =>
         /\ \A r \in Req : reqState[r] \in {"new", "acked", "refused"}
         /\ \A r \in Req : reqState[r] = "acked" =>
              pc[target[r]] # "idle" /\ record[target[r]] # "pending"

\* With the SQLite store at most one of the answers to a question is confirmed.
THEOREM OneAnswer == Spec => []AtMostOneAck
<1> USE DEF OneAnswerInv
<1>1. Init => OneAnswerInv
  BY DEF Init, TypeOK, AtMostOneAck, Statuses, Verdicts, ExecStates, ReqStates
<1>2. OneAnswerInv /\ TypeOK' /\ [Next]_vars => OneAnswerInv'
  <2>0. [Next]_vars => store' = store
    BY DEF Next, ExecStep, Pause, WakeAndDecide, Wake, Decide, TimeOutAtOnce, TimeOut, Expire, Conclude,
           ReqStep, Refuse, Resolve, Check, Write, Signal, Restart, Quiet, vars, reqVars
  <2> SUFFICES ASSUME OneAnswerInv, TypeOK', [Next]_vars, store = "sqlite", store' = "sqlite"
               PROVE  OneAnswerInv'
    BY <2>0 DEF AtMostOneAck
  <2> USE DEF TypeOK, AtMostOneAck
  <2>1. ASSUME NEW e \in Exec, ExecStep(e)
        PROVE  OneAnswerInv'
    <3>1. UNCHANGED <<reqState, target>>
      BY <2>1 DEF ExecStep, Pause, WakeAndDecide, Wake, Decide, TimeOutAtOnce, TimeOut,
                  Expire, Conclude, reqVars
    <3>2. \A x \in Exec : pc[x] # "idle" /\ record[x] # "pending" =>
                            pc'[x] # "idle" /\ record'[x] # "pending"
      BY <2>1 DEF ExecStep, Pause, WakeAndDecide, Wake, Decide, TimeOutAtOnce, TimeOut,
                  Expire, Conclude, MarkExpired
    <3> QED
      BY <3>1, <3>2
  <2>2. ASSUME NEW q \in Req, ReqStep(q)
        PROVE  OneAnswerInv'
    <3>1. CASE Refuse(q)
      BY <3>1 DEF Refuse, Answer, execVars, Sendable
    <3>2. CASE Resolve(q)
      <4>1. record[target[q]] = "pending" /\ pc[target[q]] # "idle" /\ reqState[q] = "new"
        BY <3>2 DEF Resolve, Sendable, IsPending
      <4>2. \A r \in Req : reqState[r] = "acked" => target[r] # target[q]
        BY <4>1
      <4> QED
        BY <3>2, <4>1, <4>2 DEF Resolve, Answer, Votes
    <3>3. CASE Check(q) \/ Write(q) \/ Signal(q)
      BY <3>3 DEF Check, Write, Signal
    <3> QED
      BY <2>2, <3>1, <3>2, <3>3 DEF ReqStep
  <2>3. CASE Restart
    BY <2>3 DEF Restart
  <2>4. CASE Quiet \/ UNCHANGED vars
    BY <2>4 DEF Quiet, vars
  <2> QED
    BY <2>1, <2>2, <2>3, <2>4 DEF Next
<1>3. OneAnswerInv => AtMostOneAck
  OBVIOUS
<1> QED
  BY <1>1, <1>2, <1>3, TypeCorrect, PTL DEF Spec

--------------------------------------------------------------------------------
(* What the record says afterwards *)

\* The record of an execution that is over agrees with its verdict.
RecordAgrees(e) ==
    \/ record[e] \in Votes /\ record[e] = verdict[e]
    \/ record[e] = "expired" /\ verdict[e] = TimeoutDecision(e)

\* With synchronous database calls no request is between check and write, and an
\* execution is never between waking and reading.  A key holds the event of an
\* execution of its node, so that the event of an execution that shares its key
\* with no other is set only by an answer to its own question.
RecordInv ==
    /\ TypeOK
    /\ \A n \in Node : waiter[n] # NoExec => NodeOf[waiter[n]] = n
    /\ store = "sqlite" =>
         /\ \A r \in Req : reqState[r] \in {"new", "acked", "refused"}
         /\ \A e \in Exec : pc[e] \in {"idle", "waiting", "done", "gone"}
         /\ \A e \in Exec : Alone(e) =>
              /\ signalled[e] => pc[e] # "idle" /\ record[e] # "pending"
              /\ pc[e] = "waiting" => record[e] \in Votes \cup {"pending"}
              /\ pc[e] = "done" => RecordAgrees(e)

\* With the SQLite store, and a node executed once, the record that remains tells
\* how the execution ended: the vote it followed, or the timeout.
THEOREM RecordTells == Spec => []RecordTellsVerdict
<1> USE DEF RecordInv
<1>1. Init => RecordInv
  BY DEF Init, TypeOK, Statuses, Verdicts, ExecStates, ReqStates
<1>2. RecordInv /\ TypeOK' /\ [Next]_vars => RecordInv'
  <2> SUFFICES ASSUME RecordInv, TypeOK', [Next]_vars
               PROVE  RecordInv'
    OBVIOUS
  <2> USE DEF TypeOK
  <2>0. \A x \in Exec : Alone(x) => \A y \in Exec : NodeOf[y] = NodeOf[x] => y = x
    BY DEF Alone
  <2>1. ASSUME NEW e \in Exec, ExecStep(e)
        PROVE  RecordInv'
    <3> USE DEF RecordAgrees, TimeoutDecision
    <3>1. CASE Pause(e)
      BY <3>1 DEF Pause, reqVars, Alone
    <3>2. CASE WakeAndDecide(e)
      BY <3>2 DEF WakeAndDecide, Conclude, DecisionOf, reqVars, Alone
    <3>3. CASE Wake(e)
      BY <3>3 DEF Wake, reqVars
    <3>4. CASE Decide(e)
      BY <3>4 DEF Decide, Conclude, reqVars
    <3>5. CASE TimeOutAtOnce(e)
      BY <3>5 DEF TimeOutAtOnce, MarkExpired, Conclude, reqVars, Alone, Votes
    <3>6. CASE TimeOut(e)
      BY <3>6 DEF TimeOut, reqVars
    <3>7. CASE Expire(e)
      BY <3>7 DEF Expire, MarkExpired, Conclude, reqVars
    <3> QED
      BY <2>1, <3>1, <3>2, <3>3, <3>4, <3>5, <3>6, <3>7 DEF ExecStep
  <2>2. ASSUME NEW q \in Req, ReqStep(q)
        PROVE  RecordInv'
    <3> USE DEF Answer
    <3>1. CASE Refuse(q)
      BY <3>1 DEF Refuse, execVars, Alone, RecordAgrees, TimeoutDecision
    <3>2. CASE Resolve(q)
      <4> DEFINE t == target[q]
      <4>1. /\ record[t] = "pending" /\ pc[t] # "idle"
            /\ record' = [record EXCEPT ![t] = vote[q]]
            /\ UNCHANGED <<pc, waiter, verdict, store>>
        BY <3>2 DEF Resolve, Sendable, IsPending
      <4>2. \A x \in Exec : signalled'[x] <=> signalled[x] \/ x = waiter[NodeOf[t]]
        BY <3>2, Zenon DEF Resolve, SignalKeyOf
      <4>3. \A x \in Exec : Alone(x) /\ x = waiter[NodeOf[t]] => x = t
        BY <2>0
      <4>4. ASSUME NEW x \in Exec, Alone(x), store = "sqlite"
            PROVE  /\ signalled'[x] => pc'[x] # "idle" /\ record'[x] # "pending"
                   /\ pc'[x] = "waiting" => record'[x] \in Votes \cup {"pending"}
                   /\ pc'[x] = "done" => RecordAgrees(x)'
        <5>1. signalled'[x] => pc'[x] # "idle" /\ record'[x] # "pending"
          BY <4>1, <4>2, <4>3, <4>4 DEF Votes
        <5>2. pc'[x] = "waiting" => record'[x] \in Votes \cup {"pending"}
          BY <4>1, <4>4
        <5>3. pc'[x] = "done" => RecordAgrees(x)'
          BY <4>1, <4>4 DEF RecordAgrees, TimeoutDecision, Votes
        <5> QED
          BY <5>1, <5>2, <5>3
      <4>5. \A r \in Req : reqState'[r] \in {reqState[r], "acked"}
        BY <3>2 DEF Resolve
      <4> QED
        BY <4>1, <4>4, <4>5 DEF Alone
    <3>3. CASE Check(q) \/ Write(q) \/ Signal(q)
      BY <3>3 DEF Check, Write, Signal, execVars
    <3> QED
      BY <2>2, <3>1, <3>2, <3>3 DEF ReqStep
  <2>3. CASE Restart
    BY <2>3 DEF Restart, Alone, RecordAgrees, TimeoutDecision
  <2>4. CASE Quiet \/ UNCHANGED vars
    BY <2>4 DEF Quiet, vars, Alone, RecordAgrees, TimeoutDecision
  <2> QED
    BY <2>1, <2>2, <2>3, <2>4 DEF Next
<1>3. RecordInv => RecordTellsVerdict
  BY DEF RecordTellsVerdict, RecordAgrees
<1> QED
  BY <1>1, <1>2, <1>3, TypeCorrect, PTL DEF Spec

--------------------------------------------------------------------------------
(* Who is woken *)

\* No two executions share a key of workflow_hitl_events.
OwnKeys == \A e, f \in Exec : NodeOf[e] = NodeOf[f] => e = f

\* A key holds the event of an execution of its node, an execution that waits
\* finds its event there, and an event is set only after the record is written.
WakeInv ==
    /\ TypeOK
    /\ \A n \in Node : waiter[n] # NoExec => NodeOf[waiter[n]] = n
    /\ \A e \in Exec : pc[e] = "waiting" => waiter[NodeOf[e]] = e
    /\ \A e \in Exec : signalled[e] => pc[e] # "idle" /\ record[e] # "pending"
    /\ \A e \in Exec : pc[e] = "reading" => signalled[e]
    /\ \A r \in Req : reqState[r] # "new" => pc[target[r]] # "idle"
    /\ \A r \in Req : reqState[r] \in {"written", "acked"} => record[target[r]] # "pending"
    /\ NoQuestionLeftOpen
    /\ AckWakes

\* When every execution has a node of its own, no execution ends with its
\* question open, and a confirmed answer has set the event it is waited for with.
THEOREM AnswersReachTheirNode ==
  ASSUME OwnKeys
  PROVE  Spec => [](NoQuestionLeftOpen /\ AckWakes)
<1> USE DEF WakeInv
<1>1. Init => WakeInv
  BY DEF Init, TypeOK, NoQuestionLeftOpen, AckWakes, Statuses, Verdicts, ExecStates, ReqStates
<1>2. WakeInv /\ TypeOK' /\ [Next]_vars => WakeInv'
  <2> SUFFICES ASSUME WakeInv, TypeOK', [Next]_vars
               PROVE  WakeInv'
    OBVIOUS
  <2> USE DEF TypeOK, NoQuestionLeftOpen, AckWakes
  <2>1. ASSUME NEW e \in Exec, ExecStep(e)
        PROVE  WakeInv'
    <3>1. CASE Pause(e)
      BY <3>1, OwnKeys DEF Pause, reqVars, OwnKeys
    <3>2. CASE WakeAndDecide(e)
      BY <3>2, OwnKeys DEF WakeAndDecide, Conclude, reqVars, OwnKeys
    <3>3. CASE Wake(e)
      BY <3>3 DEF Wake, reqVars
    <3>4. CASE Decide(e)
      BY <3>4, OwnKeys DEF Decide, Conclude, reqVars, OwnKeys
    <3>5. CASE TimeOutAtOnce(e)
      BY <3>5, OwnKeys DEF TimeOutAtOnce, MarkExpired, Conclude, reqVars, OwnKeys
    <3>6. CASE TimeOut(e)
      BY <3>6 DEF TimeOut, reqVars
    <3>7. CASE Expire(e)
      BY <3>7, OwnKeys DEF Expire, MarkExpired, Conclude, reqVars, OwnKeys
    <3> QED
      BY <2>1, <3>1, <3>2, <3>3, <3>4, <3>5, <3>6, <3>7 DEF ExecStep
  <2>2. ASSUME NEW q \in Req, ReqStep(q)
        PROVE  WakeInv'
    <3> USE DEF Answer
    <3>1. CASE Refuse(q) \/ Check(q)
      BY <3>1 DEF Refuse, Check, Sendable, execVars
    <3>2. ASSUME SignalKeyOf(target[q])
          PROVE  /\ \A x \in Exec : signalled[x] => signalled'[x]
                 /\ \A x \in Exec : signalled'[x] => signalled[x] \/ x = target[q]
                 /\ pc[target[q]] = "waiting" => signalled'[target[q]]
      <4>1. \A x \in Exec : signalled'[x] <=> signalled[x] \/ x = waiter[NodeOf[target[q]]]
        BY <3>2, Zenon DEF SignalKeyOf
      <4>2. \A x \in Exec : x = waiter[NodeOf[target[q]]] => x = target[q]
        BY OwnKeys DEF OwnKeys
      <4> QED
        BY <4>1, <4>2
    <3>3. CASE Resolve(q)
      <4>1. record' = [record EXCEPT ![target[q]] = vote[q]] /\ pc[target[q]] # "idle"
        BY <3>3 DEF Resolve, Sendable
      <4>2. \A x \in Exec : record[x] # "pending" => record'[x] # "pending"
        BY <4>1 DEF Votes
      <4> QED
        BY <3>3, <3>2, <4>1, <4>2 DEF Resolve, Votes
    <3>4. CASE Write(q)
      BY <3>4 DEF Write, Votes
    <3>5. CASE Signal(q)
      <4>1. pc[target[q]] # "idle" /\ record[target[q]] # "pending"
        BY <3>5 DEF Signal
      <4> QED
        BY <3>5, <3>2, <4>1 DEF Signal
    <3> QED
      BY <2>2, <3>1, <3>3, <3>4, <3>5 DEF ReqStep
  <2>3. CASE Restart
    <3>1. \A r \in Req :
             /\ reqState'[r] # "new" => reqState[r] # "new"
             /\ reqState'[r] = "acked" => reqState[r] = "acked"
             /\ reqState'[r] # "written"
      BY <2>3 DEF Restart
    <3> QED
      BY <2>3, <3>1 DEF Restart
  <2>4. CASE Quiet \/ UNCHANGED vars
    BY <2>4 DEF Quiet, vars
  <2> QED
    BY <2>1, <2>2, <2>3, <2>4 DEF Next
<1>3. WakeInv => NoQuestionLeftOpen /\ AckWakes
  OBVIOUS
<1> QED
  BY <1>1, <1>2, <1>3, TypeCorrect, PTL DEF Spec

--------------------------------------------------------------------------------
(* Refinement *)

GateOf(e) == CASE verdict[e] = "none" -> "shut"
               [] verdict[e] = "approved" -> "open"
               [] OTHER -> "refused"

\* An execution that finishes opens or refuses its gate.
LEMMA ConcludeRefines ==
  ASSUME TypeOK, TypeOK', NEW e \in Exec, NEW d \in Verdicts \ {"none"},
         verdict[e] = "none", Conclude(e, d),
         d = "approved" => NodeOf[e] \in AutoApprove \/ \E r \in Cast(e) : vote[r] = "approved"
  PROVE  Gates!Open(e) \/ Gates!Refuse(e)
<1>1. UNCHANGED <<reqState, target, vote>>
  BY DEF Conclude, reqVars
<1>2. [x \in Exec |-> {vote[r] : r \in Cast(x)}]' = [x \in Exec |-> {vote[r] : r \in Cast(x)}]
  BY <1>1 DEF Cast
<1>3. \A x \in Exec : verdict'[x] = IF x = e THEN d ELSE verdict[x]
  BY DEF Conclude, TypeOK
<1>4. CASE d = "approved"
  <2>1. \A x \in Exec : GateOf(x)' = IF x = e THEN "open" ELSE GateOf(x)
    BY <1>3, <1>4 DEF GateOf
  <2>2. GateOf(e) = "shut"
    BY DEF GateOf
  <2>3. "approved" \in {vote[r] : r \in Cast(e)} \/ e \in {x \in Exec : NodeOf[x] \in AutoApprove}
    BY <1>4
  <2> QED
    BY <2>1, <2>2, <2>3, <1>2 DEF Gates!Open, GateOf
<1>5. CASE d # "approved"
  <2>1. \A x \in Exec : GateOf(x)' = IF x = e THEN "refused" ELSE GateOf(x)
    BY <1>3, <1>5 DEF GateOf
  <2>2. GateOf(e) = "shut"
    BY DEF GateOf
  <2> QED
    BY <2>1, <2>2, <1>2 DEF Gates!Refuse, GateOf
<1> QED
  BY <1>4, <1>5

\* Approval nodes implement the gates of HumanGate, whatever the number of
\* executions and requests and whichever the store.
THEOREM NodesAreGates == Spec => ImplementsGate
<1>1. Init => Gates!Init
  <2> SUFFICES ASSUME Init PROVE Gates!Init
    OBVIOUS
  <2>1. \A e \in Exec : verdict[e] = "none" /\ Cast(e) = {}
    BY DEF Init, Cast
  <2> QED
    BY <2>1 DEF Gates!Init
<1>2. GateInv /\ GateInv' /\ [Next]_vars => [Gates!Next]_(Gates!vars)
  <2> SUFFICES ASSUME GateInv, GateInv', [Next]_vars
               PROVE  Gates!Next \/ UNCHANGED Gates!vars
    OBVIOUS
  <2> USE DEF GateInv
  <2>0. ASSUME UNCHANGED <<verdict, vote>>, \A e \in Exec : Cast(e)' = Cast(e)
        PROVE  UNCHANGED Gates!vars
    BY <2>0 DEF Gates!vars
  <2>1. ASSUME NEW e \in Exec, ExecStep(e)
        PROVE  Gates!Next \/ UNCHANGED Gates!vars
    <3>1. CASE Pause(e) \/ Wake(e) \/ TimeOut(e)
      BY <3>1, <2>0 DEF Pause, Wake, TimeOut, reqVars, Cast
    <3>2. ASSUME NEW d \in Verdicts \ {"none"}, verdict[e] = "none", Conclude(e, d)
          PROVE  Gates!Next
      <4>1. d = "approved" => NodeOf[e] \in AutoApprove \/ \E r \in Cast(e) : vote[r] = "approved"
        <5>1. Cast(e)' = Cast(e) /\ vote' = vote
          BY <3>2 DEF Conclude, Cast, reqVars
        <5>2. verdict'[e] = d
          BY <3>2 DEF Conclude, TypeOK
        <5> QED
          BY <5>1, <5>2 DEF GateNeedsVote
      <4> QED
        BY <4>1, <3>2, ConcludeRefines DEF Gates!Next
    <3>3. CASE WakeAndDecide(e) \/ Decide(e)
      <4>1. Conclude(e, DecisionOf(record[e])) /\ pc[e] # "done"
        BY <3>3 DEF WakeAndDecide, Decide
      <4>2. DecisionOf(record[e]) \in Verdicts \ {"none"}
        BY DEF DecisionOf, Verdicts, Votes
      <4> QED
        BY <4>1, <4>2, <3>2 DEF VerdictWhenDone
    <3>4. CASE TimeOutAtOnce(e) \/ Expire(e)
      <4>1. Conclude(e, TimeoutDecision(e)) /\ pc[e] # "done"
        BY <3>4 DEF TimeOutAtOnce, Expire
      <4>2. TimeoutDecision(e) \in Verdicts \ {"none"}
        BY DEF TimeoutDecision, Verdicts
      <4> QED
        BY <4>1, <4>2, <3>2 DEF VerdictWhenDone
    <3> QED
      BY <2>1, <3>1, <3>3, <3>4 DEF ExecStep
  <2>2. ASSUME NEW q \in Req, ReqStep(q)
        PROVE  Gates!Next \/ UNCHANGED Gates!vars
    <3> USE DEF Answer, TypeOK
    <3>1. CASE Refuse(q) \/ Check(q) \/ Signal(q)
      <4>1. UNCHANGED <<verdict, target, vote>>
        BY <3>1 DEF Refuse, Check, Signal, execVars
      <4>2. \A r \in Req : reqState'[r] \in {"written", "acked", "unheard"}
                         <=> reqState[r] \in {"written", "acked", "unheard"}
        BY <3>1 DEF Refuse, Check, Signal, Sendable
      <4> QED
        BY <4>1, <4>2, <2>0 DEF Cast
    <3>2. CASE Resolve(q) \/ Write(q)
      <4>1. UNCHANGED <<verdict, target, vote>>
        BY <3>2 DEF Resolve, Write
      <4>2. \A r \in Req : reqState'[r] \in {"written", "acked", "unheard"}
                         <=> r = q \/ reqState[r] \in {"written", "acked", "unheard"}
        BY <3>2 DEF Resolve, Write, Sendable
      <4>3. \A e \in Exec : Cast(e)' = IF e = target[q] THEN Cast(e) \cup {q} ELSE Cast(e)
        BY <4>1, <4>2 DEF Cast
      <4>4. [e \in Exec |-> {vote[r] : r \in Cast(e)}]'
             = [[e \in Exec |-> {vote[r] : r \in Cast(e)}]
                  EXCEPT ![target[q]] = @ \cup {vote[q]}]
        <5>1. \A e \in Exec : {vote[r] : r \in Cast(e)}' =
                 IF e = target[q] THEN {vote[r] : r \in Cast(e)} \cup {vote[q]}
                                  ELSE {vote[r] : r \in Cast(e)}
          BY <4>1, <4>3
        <5> QED
          BY <5>1
      <4>6. target[q] \in Exec /\ vote[q] \in Gates!Answers
        BY DEF Gates!Answers, Votes
      <4>7. \E g \in Exec : \E a \in Gates!Answers : Gates!Say(g, a)
        <5> DEFINE S == [e \in Exec |-> {vote[r] : r \in Cast(e)}]
                   G == [e \in Exec |-> GateOf(e)]
        <5>1. G' = G /\ S' = [S EXCEPT ![target[q]] = @ \cup {vote[q]}]
          BY <4>1, <4>4 DEF GateOf
        <5> HIDE DEF S, G
        <5>2. \E g \in Exec : \E a \in Gates!Answers : S' = [S EXCEPT ![g] = @ \cup {a}] /\ G' = G
          BY <5>1, <4>6
        <5> QED
          BY <5>2 DEF Gates!Say, S, G, GateOf
      <4> QED
        BY <4>7 DEF Gates!Next
    <3> QED
      BY <2>2, <3>1, <3>2 DEF ReqStep
  <2>3. CASE Restart
    <3>1. UNCHANGED <<verdict, target, vote>>
      BY <2>3 DEF Restart
    <3>2. \A r \in Req : reqState'[r] \in {"written", "acked", "unheard"}
                       <=> reqState[r] \in {"written", "acked", "unheard"}
      BY <2>3 DEF Restart
    <3> QED
      BY <3>1, <3>2, <2>0 DEF Cast
  <2>4. CASE Quiet \/ UNCHANGED vars
    BY <2>4, <2>0 DEF Quiet, vars, Cast
  <2> QED
    BY <2>1, <2>2, <2>3, <2>4 DEF Next
<1> QED
  BY <1>1, <1>2, GateInvariant, PTL DEF Spec, ImplementsGate, Gates!Spec
================================================================================
