--------------------------- MODULE DagWorkflowProofs ---------------------------
(* What is true of a DAG run for every workflow, however the runner and the     *)
(* reader of its events interleave: the search that lets a workflow pass, when  *)
(* a step may run and how often, and what the row of the run may say.           *)
EXTENDS DagWorkflow, SequenceTheorems, FiniteSetTheorems, WellFoundedInduction, TLAPS

--------------------------------------------------------------------------------
(* The search *)

Black(n) == colour[n] = "black"

\* The stack holds the grey nodes, each once, each a dependency of the one below.
StackInv ==
    /\ \A n \in Nodes : colour[n] = "grey" <=> \E i \in 1..Len(stack) : stack[i] = n
    /\ \A i, j \in 1..Len(stack) : stack[i] = stack[j] => i = j
    /\ \A i \in 1..Len(stack) : i < Len(stack) => stack[i + 1] \in Adjacent[stack[i]]

\* What a call has looked at is black, but for the call it is in; what is black
\* depends on black nodes only.
LeftInv ==
    /\ \A n \in Nodes : left[n] \subseteq Adjacent[n]
    /\ \A n \in Nodes : colour[n] = "white" => left[n] = Adjacent[n]
    /\ \A n \in Nodes : Black(n) => \A d \in Adjacent[n] \cap Nodes : Black(d)
    /\ verdict = "searching" =>
          \A i \in 1..Len(stack) : \A d \in (Adjacent[stack[i]] \cap Nodes) \ left[stack[i]] :
             Black(d) \/ (i < Len(stack) /\ d = stack[i + 1])

\* No set of black nodes has a cycle.
BlackAcyclic ==
    \A S \in SUBSET Nodes :
        S # {} /\ (\A n \in S : Black(n)) => \E n \in S : Adjacent[n] \cap S = {}

SearchInv ==
    /\ Search!TypeOK
    /\ StackInv
    /\ LeftInv
    /\ BlackAcyclic
    /\ verdict = "valid" => \A n \in Nodes : Black(n)
    /\ Search!RefusedIsCyclic

LEMMA InitSearch == Search!Init => SearchInv
<1> SUFFICES ASSUME Search!Init PROVE SearchInv
  OBVIOUS
<1>1. Search!TypeOK
  BY DEF Search!Init, Search!TypeOK, Search!Colours
<1>2. Len(stack) = 0
  BY DEF Search!Init
<1>3. \A n \in Nodes : colour[n] = "white"
  BY DEF Search!Init
<1> QED
  BY <1>1, <1>2, <1>3 DEF Search!Init, SearchInv, StackInv, LeftInv, BlackAcyclic, Search!RefusedIsCyclic, Black

\* A white node is entered: from the loop, or as a dependency of the top.
LEMMA EnterKeeps ==
  ASSUME SearchInv, verdict = "searching", UNCHANGED <<Nodes, Adjacent, verdict>>,
         NEW n \in Nodes, colour[n] = "white", Search!Enter(n),
         \/ stack = <<>> /\ left' = left
         \/ /\ stack # <<>> /\ n \in left[Search!Top]
            /\ left' = [left EXCEPT ![Search!Top] = @ \ {n}]
  PROVE  SearchInv'
<1> USE DEF SearchInv, Search!TypeOK, Search!Enter
<1>1. /\ Len(stack) \in Nat
      /\ Len(stack') = Len(stack) + 1
      /\ stack'[Len(stack) + 1] = n
      /\ \A i \in 1..Len(stack) : stack'[i] = stack[i] /\ stack[i] \in Nodes
  OBVIOUS
<1>2. \A m \in Nodes : colour'[m] = IF m = n THEN "grey" ELSE colour[m]
  OBVIOUS
<1>3. Search!Top \in Nodes \/ stack = <<>>
  BY DEF Search!Top
<1>4. Search!TypeOK'
  <2>1. stack' \in Seq(Nodes)
    OBVIOUS
  <2>2. colour' \in [Nodes -> Search!Colours]
    BY DEF Search!Colours
  <2>3. left' \in [Nodes -> SUBSET Ids]
    BY <1>3
  <2> QED
    BY <2>1, <2>2, <2>3
<1>5. n # Search!Top \/ stack = <<>>
  BY <1>1 DEF StackInv, Search!Top
<1>6. StackInv'
  <2>1. \A i \in 1..Len(stack) : stack[i] # n
    BY DEF StackInv
  <2>2. stack # <<>> => Len(stack) \in 1..Len(stack) /\ n \in Adjacent[stack[Len(stack)]]
    BY <1>1, <1>3 DEF LeftInv, Search!Top
  <2>3. \A m \in Nodes : colour'[m] = "grey" <=> \E i \in 1..Len(stack') : stack'[i] = m
    BY <1>1, <1>2 DEF StackInv
  <2>4. \A i, j \in 1..Len(stack') : stack'[i] = stack'[j] => i = j
    BY <1>1, <2>1 DEF StackInv
  <2>5. \A i \in 1..Len(stack') : i < Len(stack') => stack'[i + 1] \in Adjacent[stack'[i]]
    <3> SUFFICES ASSUME NEW i \in 1..Len(stack'), i < Len(stack')
                 PROVE  stack'[i + 1] \in Adjacent[stack'[i]]
      OBVIOUS
    <3>1. CASE i < Len(stack)
      BY <3>1, <1>1 DEF StackInv
    <3>2. CASE i = Len(stack)
      BY <3>2, <1>1, <2>2
    <3> QED
      BY <3>1, <3>2, <1>1
  <2> QED
    BY <2>3, <2>4, <2>5 DEF StackInv
<1>7. \A m \in Nodes : Black(m)' <=> Black(m)
  BY <1>2 DEF Black
<1>8. \A m \in Nodes : left'[m] = IF stack # <<>> /\ m = Search!Top THEN left[m] \ {n} ELSE left[m]
  BY <1>3
<1>9. LeftInv'
  <2>1. \A m \in Nodes : left'[m] \subseteq Adjacent[m]
    BY <1>8 DEF LeftInv
  <2>2. stack # <<>> => colour[Search!Top] = "grey"
    BY <1>1, <1>3 DEF StackInv, Search!Top
  <2>3. \A m \in Nodes : colour'[m] = "white" => left'[m] = Adjacent[m]
    BY <1>2, <1>8, <2>2 DEF LeftInv
  <2>4. \A m \in Nodes : Black(m)' => \A d \in Adjacent[m] \cap Nodes : Black(d)'
    BY <1>7 DEF LeftInv
  <2>5. \A i \in 1..Len(stack') : \A d \in (Adjacent[stack'[i]] \cap Nodes) \ left'[stack'[i]] :
           Black(d)' \/ (i < Len(stack') /\ d = stack'[i + 1])
    <3> SUFFICES ASSUME NEW i \in 1..Len(stack'),
                        NEW d \in (Adjacent[stack'[i]] \cap Nodes) \ left'[stack'[i]]
                 PROVE  Black(d)' \/ (i < Len(stack') /\ d = stack'[i + 1])
      OBVIOUS
    <3>1. CASE i = Len(stack')
      BY <3>1, <1>1, <1>5, <1>8 DEF LeftInv
    <3>2. CASE i = Len(stack)
      <4>1. stack # <<>> /\ stack'[i] = Search!Top /\ Search!Top = stack[i] /\ i \in 1..Len(stack)
        BY <3>2, <1>1 DEF Search!Top
      <4>2. d = n \/ d \notin left[Search!Top]
        BY <4>1, <1>8, <1>3
      <4>3. d \notin left[Search!Top] => Black(d)
        BY <4>1, <3>2 DEF LeftInv
      <4> QED
        BY <4>2, <4>3, <3>2, <1>1, <1>7
    <3>3. CASE i < Len(stack)
      <4>1. i \in 1..Len(stack) /\ i + 1 \in 1..Len(stack)
        BY <3>3, <1>1
      <4>2. stack'[i] = stack[i] /\ stack'[i + 1] = stack[i + 1]
        BY <4>1, <1>1
      <4>3. stack[i] # Search!Top
        BY <3>3, <4>1, <1>1 DEF StackInv, Search!Top
      <4>4. d \in (Adjacent[stack[i]] \cap Nodes) \ left[stack[i]]
        BY <4>1, <4>2, <4>3, <1>1, <1>8
      <4> QED
        BY <4>1, <4>2, <4>4, <1>1, <1>7, <3>3 DEF LeftInv
    <3> QED
      BY <3>1, <3>2, <3>3, <1>1
  <2> QED
    BY <2>1, <2>3, <2>4, <2>5 DEF LeftInv
<1>10. BlackAcyclic'
  BY <1>7 DEF BlackAcyclic
<1> QED
  BY <1>4, <1>6, <1>9, <1>10 DEF Search!RefusedIsCyclic

\* A turn of the inner loop that enters nothing.
LEMMA LookKeeps ==
  ASSUME SearchInv, NEW d \in Ids, Search!Look(d), ~(d \in Nodes /\ colour[d] = "white")
  PROVE  SearchInv'
<1> USE DEF SearchInv, Search!TypeOK
<1>1. /\ UNCHANGED <<Nodes, Adjacent, colour, stack>>
      /\ d \in left[Search!Top] /\ left' = [left EXCEPT ![Search!Top] = @ \ {d}]
      /\ verdict = "searching" /\ stack # <<>>
  BY DEF Search!Look, Search!ClosesCycle, Search!Enter
<1>2. \/ verdict' = verdict /\ (d \in Nodes => colour[d] = "black")
      \/ verdict' = "cycle" /\ d \in Nodes /\ colour[d] = "grey"
  BY DEF Search!Look, Search!ClosesCycle, Search!Enter, Search!Colours
<1>3. Len(stack) \in Nat /\ Len(stack) \in 1..Len(stack) /\ Search!Top \in Nodes
  BY <1>1 DEF Search!Top
<1>4. \A m \in Nodes : left'[m] = IF m = Search!Top THEN left[m] \ {d} ELSE left[m]
  BY <1>1
<1>5. Search!TypeOK'
  BY <1>1, <1>2, <1>3
<1>6. StackInv'
  BY <1>1 DEF StackInv
<1>7. colour[Search!Top] = "grey"
  BY <1>3 DEF StackInv, Search!Top
<1>8. LeftInv'
  <2>1. /\ \A n \in Nodes : left'[n] \subseteq Adjacent[n]
        /\ \A n \in Nodes : colour[n] = "white" => left'[n] = Adjacent[n]
    BY <1>4, <1>7 DEF LeftInv
  <2>2. verdict' = "searching" =>
          \A i \in 1..Len(stack) : \A e \in (Adjacent[stack[i]] \cap Nodes) \ left'[stack[i]] :
             Black(e) \/ (i < Len(stack) /\ e = stack[i + 1])
    <3> SUFFICES ASSUME verdict' = "searching", NEW i \in 1..Len(stack),
                        NEW e \in (Adjacent[stack[i]] \cap Nodes) \ left'[stack[i]]
                 PROVE  Black(e) \/ (i < Len(stack) /\ e = stack[i + 1])
      OBVIOUS
    <3>1. stack[i] \in Nodes
      OBVIOUS
    <3>2. e = d \/ e \notin left[stack[i]]
      BY <1>4, <3>1
    <3>3. e = d => Black(e)
      BY <1>1, <1>2 DEF Black
    <3>4. e \notin left[stack[i]] => Black(e) \/ (i < Len(stack) /\ e = stack[i + 1])
      BY <1>1 DEF LeftInv
    <3> QED
      BY <3>2, <3>3, <3>4
  <2> QED
    BY <1>1, <2>1, <2>2 DEF LeftInv, Black
<1>9. BlackAcyclic' /\ (verdict' # "valid")
  BY <1>1, <1>2 DEF BlackAcyclic, Black
<1>10. verdict' = "cycle" => Search!HasCycle
  <2> SUFFICES ASSUME d \in Nodes, colour[d] = "grey"
               PROVE  Search!HasCycle
    BY <1>1, <1>2
  <2>1. PICK j \in 1..Len(stack) : stack[j] = d
    BY DEF StackInv
  <2> DEFINE S == {stack[i] : i \in j..Len(stack)}
  <2>2. S \subseteq Nodes /\ d \in S
    BY <2>1
  <2>3. ASSUME NEW n \in S
        PROVE  Adjacent[n] \cap S # {}
    <3>1. PICK i \in j..Len(stack) : n = stack[i]
      OBVIOUS
    <3>2. CASE i < Len(stack)
      <4>1. i \in 1..Len(stack) /\ i + 1 \in j..Len(stack)
        BY <3>2
      <4>2. stack[i + 1] \in Adjacent[n] /\ stack[i + 1] \in S
        BY <4>1, <3>1, <3>2 DEF StackInv
      <4> QED
        BY <4>2
    <3>3. CASE i = Len(stack)
      BY <3>1, <3>3, <1>1, <1>3, <2>2 DEF LeftInv, Search!Top
    <3> QED
      BY <3>2, <3>3
  <2> QED
    BY <2>2, <2>3 DEF Search!HasCycle
<1> QED
  BY <1>1, <1>5, <1>6, <1>8, <1>9, <1>10 DEF Search!RefusedIsCyclic, Search!HasCycle

\* A call of dfs ends: its node becomes black and depends on black nodes only.
LEMMA LeaveKeeps == ASSUME SearchInv, Search!Leave PROVE SearchInv'
<1> USE DEF SearchInv, Search!TypeOK
<1>1. /\ UNCHANGED <<Nodes, Adjacent, left, verdict>>
      /\ verdict = "searching" /\ stack # <<>> /\ left[Search!Top] = {}
      /\ colour' = [colour EXCEPT ![Search!Top] = "black"]
      /\ stack' = SubSeq(stack, 1, Len(stack) - 1)
  BY DEF Search!Leave
<1> DEFINE k == Len(stack)
<1>2. k \in Nat /\ k \in 1..k /\ Search!Top = stack[k] /\ Search!Top \in Nodes
  BY <1>1 DEF Search!Top
<1>3. Len(stack') = k - 1 /\ \A i \in 1..(k - 1) : stack'[i] = stack[i]
  <2>1. 1 \in Int /\ k - 1 \in Int /\ \A i \in 1..(k - 1) : stack[i] \in Nodes
    BY <1>2
  <2>2. /\ Len(SubSeq(stack, 1, k - 1)) = IF 1 <= k - 1 THEN (k - 1) - 1 + 1 ELSE 0
        /\ \A i \in 1..((k - 1) - 1 + 1) : SubSeq(stack, 1, k - 1)[i] = stack[1 + i - 1]
    BY <2>1, SubSeqProperties
  <2>3. stack' = SubSeq(stack, 1, k - 1)
    BY <1>1
  <2> HIDE DEF k
  <2> QED
    BY <1>2, <2>2, <2>3
<1>4. \A m \in Nodes : colour'[m] = IF m = Search!Top THEN "black" ELSE colour[m]
  BY <1>1
<1>5. \A m \in Nodes : Black(m)' <=> Black(m) \/ m = Search!Top
  BY <1>4 DEF Black
<1>6. colour[Search!Top] = "grey" /\ ~Black(Search!Top)
  BY <1>2 DEF StackInv, Black
<1>7. \A d \in Adjacent[Search!Top] \cap Nodes : Black(d)
  BY <1>1, <1>2 DEF LeftInv
<1>8. Search!TypeOK'
  <2>1. stack' \in Seq(Nodes)
    BY <1>1, <1>2
  <2> QED
    BY <1>1, <1>4, <2>1 DEF Search!Colours
<1>9. StackInv'
  <2>1. \A m \in Nodes : colour'[m] = "grey" <=> \E i \in 1..(k - 1) : stack[i] = m
    <3> SUFFICES ASSUME NEW m \in Nodes
                 PROVE  colour'[m] = "grey" <=> \E i \in 1..(k - 1) : stack[i] = m
      OBVIOUS
    <3>1. CASE m = Search!Top
      BY <3>1, <1>2, <1>4 DEF StackInv
    <3>2. CASE m # Search!Top
      <4>1. \A i \in 1..k : stack[i] = m => i \in 1..(k - 1)
        BY <3>2, <1>2
      <4>2. colour'[m] = colour[m]
        BY <3>2, <1>4
      <4> QED
        BY <4>1, <4>2, <1>2 DEF StackInv
    <3> QED
      BY <3>1, <3>2
  <2>2. \A i, j \in 1..(k - 1) : stack[i] = stack[j] => i = j
    BY <1>2 DEF StackInv
  <2>3. \A i \in 1..(k - 1) : i < k - 1 => stack[i + 1] \in Adjacent[stack[i]]
    <3>1. \A i \in 1..(k - 1) : i \in 1..Len(stack) /\ i < Len(stack)
      BY <1>2
    <3>2. \A i \in 1..Len(stack) : i < Len(stack) => stack[i + 1] \in Adjacent[stack[i]]
      BY DEF StackInv
    <3> QED
      BY <3>1, <3>2
  <2>4. \A i \in 1..(k - 1) : i < k - 1 => stack'[i + 1] = stack[i + 1]
    BY <1>2, <1>3
  <2> QED
    BY <1>1, <1>2, <1>3, <2>1, <2>2, <2>3, <2>4 DEF StackInv
<1>10. LeftInv'
  <2>1. \A n \in Nodes : colour'[n] = "white" => left[n] = Adjacent[n]
    BY <1>4 DEF LeftInv
  <2>2. \A n \in Nodes : Black(n)' => \A d \in Adjacent[n] \cap Nodes : Black(d)'
    BY <1>5, <1>7 DEF LeftInv
  <2>3. \A i \in 1..(k - 1) : \A d \in (Adjacent[stack[i]] \cap Nodes) \ left[stack[i]] :
           Black(d)' \/ (i < k - 1 /\ d = stack[i + 1])
    <3> SUFFICES ASSUME NEW i \in 1..(k - 1), NEW d \in (Adjacent[stack[i]] \cap Nodes) \ left[stack[i]]
                 PROVE  Black(d)' \/ (i < k - 1 /\ d = stack[i + 1])
      OBVIOUS
    <3>1. Black(d) \/ d = stack[i + 1]
      BY <1>1, <1>2 DEF LeftInv
    <3>2. i = k - 1 => stack[i + 1] = Search!Top
      BY <1>2
    <3> QED
      BY <3>1, <3>2, <1>2, <1>5
  <2>4. \A i \in 1..(k - 1) : i < k - 1 => stack'[i + 1] = stack[i + 1]
    BY <1>2, <1>3
  <2> QED
    BY <1>1, <1>2, <1>3, <2>1, <2>2, <2>3, <2>4 DEF LeftInv
<1>11. BlackAcyclic'
  <2> SUFFICES ASSUME NEW S \in SUBSET Nodes, S # {}, \A n \in S : Black(n)'
               PROVE  \E n \in S : Adjacent[n] \cap S = {}
    BY <1>1 DEF BlackAcyclic
  <2>1. \A n \in S \ {Search!Top} : Black(n) /\ Search!Top \notin Adjacent[n]
    BY <1>2, <1>5, <1>6 DEF LeftInv
  <2>2. CASE S \ {Search!Top} = {}
    BY <2>2, <1>6, <1>7
  <2>3. CASE S \ {Search!Top} # {}
    <3>1. PICK n \in S \ {Search!Top} : Adjacent[n] \cap (S \ {Search!Top}) = {}
      BY <2>1, <2>3 DEF BlackAcyclic
    <3> QED
      BY <2>1, <3>1
  <2> QED
    BY <2>2, <2>3
<1> QED
  BY <1>1, <1>8, <1>9, <1>10, <1>11 DEF Search!RefusedIsCyclic

LEMMA SearchStep == SearchInv /\ [Search!Next]_(Search!vars) => SearchInv'
<1> SUFFICES ASSUME SearchInv, [Search!Next]_(Search!vars) PROVE SearchInv'
  OBVIOUS
<1>1. ASSUME NEW n \in Nodes, Search!Start(n) PROVE SearchInv'
  BY <1>1, EnterKeeps DEF Search!Start, Search!MayStart
<1>2. ASSUME NEW d \in Ids, Search!Look(d) PROVE SearchInv'
  <2>1. CASE d \in Nodes /\ colour[d] = "white"
    BY <1>2, <2>1, EnterKeeps DEF Search!Look, Search!ClosesCycle
  <2> QED
    BY <1>2, <2>1, LookKeeps
<1>3. CASE Search!Leave
  BY <1>3, LeaveKeeps
<1>4. CASE Search!Return
  <2>1. \A n \in Nodes : colour[n] = "black"
    BY <1>4 DEF Search!Return, Search!MayStart, SearchInv, StackInv, Search!TypeOK, Search!Colours
  <2> QED
    BY <1>4, <2>1 DEF Search!Return, SearchInv, Search!TypeOK, StackInv, LeftInv, BlackAcyclic, Black,
                      Search!RefusedIsCyclic
<1>5. CASE Search!Done \/ UNCHANGED Search!vars
  BY <1>5 DEF Search!Done, Search!vars, SearchInv, Search!TypeOK, StackInv, LeftInv, BlackAcyclic, Black,
              Search!RefusedIsCyclic, Search!HasCycle
<1> QED
  BY <1>1, <1>2, <1>3, <1>4, <1>5 DEF Search!Next

\* topological_validate refuses a workflow if and only if its steps depend on each
\* other in a circle, for graphs of any size and any order of its loops.
THEOREM ValidateExact == Search!Spec => []Search!ValidatesExactly
<1>1. SearchInv => Search!ValidatesExactly
  BY DEF SearchInv, Search!ValidatesExactly, Search!AcceptedIsAcyclic, Search!HasCycle, BlackAcyclic
<1> QED
  BY <1>1, InitSearch, SearchStep, PTL DEF Search!Spec

LEMMA StepsStay ==
  ASSUME [WorkflowNext]_allVars
  PROVE  UNCHANGED steps
<1>1. CASE Execute
  <2>1. PICK x \in DOMAIN execs : Begin(x) \/ Outcome(x)
    BY <1>1 DEF Execute
  <2>2. CASE Begin(x)
    BY <2>2 DEF Begin
  <2>3. CASE Outcome(x)
    BY <2>3 DEF Outcome, Complete, Fail, Raise, Choose, Close
  <2> QED
    BY <2>1, <2>2, <2>3
<1>2. CASE Deliver \/ Converge \/ GiveUp \/ ReadEvent \/ Finish \/ Disconnect \/ UNCHANGED vars
  BY <1>2 DEF Deliver, Converge, GiveUp, ReadEvent, Finish, Disconnect, vars
<1> QED
  BY <1>1, <1>2 DEF WorkflowNext, Validate, BuildFails, Built, Next, Over, Answers, allVars

\* Every step of a run is a step of its search, on the graph of its own steps, or
\* leaves the search alone.
LEMMA RunSearches == WorkflowSpec => Search!Spec
<1>1. WorkflowInit \/ AgentRuns => Search!Init
  BY DEF WorkflowInit, AgentRuns
<1>2. [WorkflowNext]_allVars => [Search!Next]_(Search!vars)
  <2> SUFFICES ASSUME [WorkflowNext]_allVars
               PROVE  Search!Next \/ UNCHANGED Search!vars
    OBVIOUS
  <2>1. UNCHANGED <<Nodes, Adjacent>>
    BY StepsStay DEF Nodes, Adjacent
  <2>2. CASE Validate
    BY <2>2 DEF Validate, Search!Next
  <2>3. CASE ~Validate
    BY <2>1, <2>3 DEF WorkflowNext, BuildFails, Built, Answers, searchVars, allVars, Search!vars
  <2> QED
    BY <2>2, <2>3
<1> QED
  BY <1>1, <1>2, PTL DEF WorkflowSpec, Search!Spec

\* topological_validate refuses the workflow of a run if and only if its steps
\* depend on each other in a circle.
THEOREM RunsTheAcyclic == WorkflowSpec => []ValidatesExactly
  BY ValidateExact, RunSearches, PTL DEF ValidatesExactly

--------------------------------------------------------------------------------
(* The row *)

\* A row that says "failed" while the events are still read rests on an error
\* that execute_dag has counted; all_ok is false from then on.
FailureCounted ==
    /\ seen = [done |-> seen.done, failed |-> seen.failed]
    /\ run = "failed" /\ reader = "reading" => seen.failed # {}

LEMMA EngineLeavesRow ==
  ASSUME Execute \/ Deliver \/ Converge \/ GiveUp
  PROVE  UNCHANGED readerVars
<1>1. CASE Execute
  <2>1. PICK x \in DOMAIN execs : Begin(x) \/ Outcome(x)
    BY <1>1 DEF Execute
  <2>2. CASE Begin(x)
    BY <2>2 DEF Begin
  <2>3. CASE Complete(x)
    BY <2>3 DEF Complete, Close
  <2>4. CASE Fail(x)
    BY <2>4 DEF Fail, Close
  <2>5. CASE Raise(x)
    BY <2>5 DEF Raise
  <2>6. CASE \E b \in Labels(execs[x].node) : Choose(x, b)
    BY <2>6 DEF Choose, Close
  <2> QED
    BY <2>1, <2>2, <2>3, <2>4, <2>5, <2>6 DEF Outcome
<1> QED
  BY <1>1 DEF Deliver, Converge, GiveUp

\* One event: an error is counted in the step that writes "failed".
LEMMA ReadCounts ==
  ASSUME FailureCounted, ReadEvent
  PROVE  FailureCounted' /\ (run = "failed" => run' = "failed")
<1>1. CASE Head(queue).event = "node_error"
  <2>1. seen' = [done |-> seen.done, failed |-> seen.failed \cup {Head(queue).node}]
    BY <1>1 DEF ReadEvent, Noted, FailureCounted
  <2>2. run' = "failed"
    BY <1>1 DEF ReadEvent
  <2> QED
    BY <2>1, <2>2 DEF FailureCounted
<1>2. CASE Head(queue).event # "node_error"
  <2>1. run' = run /\ reader' = reader
    BY <1>2 DEF ReadEvent
  <2>2. \/ seen' = [done |-> seen.done \cup {Head(queue).node}, failed |-> seen.failed]
        \/ seen' = [done |-> seen.done, failed |-> seen.failed \cup {Head(queue).node}]
    BY DEF ReadEvent, Noted, FailureCounted
  <2> QED
    BY <2>1, <2>2 DEF FailureCounted
<1> QED
  BY <1>1, <1>2

\* The final status agrees with a failure that was counted.
LEMMA FinishAgrees ==
  ASSUME FailureCounted, Finish
  PROVE  FailureCounted' /\ (run = "failed" => run' = "failed")
<1>1. reader = "reading" /\ reader' = "finished" /\ seen' = seen
  BY DEF Finish
<1>2. run = "failed" => ~AllOk
  BY <1>1 DEF FailureCounted, AllOk
<1>3. run = "failed" => run' = "failed"
  BY <1>2 DEF Finish
<1> QED
  BY <1>1, <1>3 DEF FailureCounted

LEMMA RowStep ==
  ASSUME FailureCounted, [WorkflowNext]_allVars
  PROVE  FailureCounted' /\ (run = "failed" => run' = "failed")
<1>1. CASE Execute \/ Deliver \/ Converge \/ GiveUp
  BY <1>1, EngineLeavesRow DEF readerVars, FailureCounted
<1>2. CASE ReadEvent
  BY <1>2, ReadCounts
<1>3. CASE Finish
  BY <1>3, FinishAgrees
<1>4. CASE Disconnect
  BY <1>4 DEF Disconnect, FailureCounted
<1>5. CASE UNCHANGED vars
  BY <1>5 DEF vars, FailureCounted
<1>6. CASE BuildFails
  BY <1>6 DEF BuildFails, FailureCounted
<1> QED
  BY <1>1, <1>2, <1>3, <1>4, <1>5, <1>6
     DEF WorkflowNext, Validate, Built, Next, Over, Answers, allVars

\* The row of a run that said "failed" is never overwritten by "completed".
THEOREM RowStaysFailed == WorkflowSpec => FailedStays
<1>1. WorkflowInit \/ AgentRuns => FailureCounted
  BY DEF WorkflowInit, AgentRuns, Init, FailureCounted
<1>2. FailureCounted /\ [WorkflowNext]_allVars => FailureCounted'
  BY RowStep
<1>3. FailureCounted /\ [WorkflowNext]_allVars => [run = "failed" => run' = "failed"]_vars
  BY RowStep
<1> QED
  BY <1>1, <1>2, <1>3, PTL DEF WorkflowSpec, FailedStays

--------------------------------------------------------------------------------
(* Numbers and sequences *)

\* A set of numbers that is not empty has a least element.
LEMMA Least ==
  ASSUME NEW S \in SUBSET Nat, S # {}
  PROVE  Min(S) \in S /\ \A y \in S : Min(S) <= y
<1>1. PICK x \in S : \A y \in S : ~ (<<y, x>> \in OpToRel(<, Nat))
  BY NatLessThanWellFounded, WFMin
<1>2. ASSUME NEW y \in S PROVE x <= y
  <2>1. x \in Nat /\ y \in Nat
    OBVIOUS
  <2>2. ~ (y < x)
    BY <1>1, <2>1 DEF OpToRel
  <2> QED
    BY <2>1, <2>2
<1>3. /\ (CHOOSE z \in S : \A y \in S : z <= y) \in S
      /\ \A y \in S : (CHOOSE z \in S : \A t \in S : z <= t) <= y
  BY <1>2
<1> QED
  BY <1>3 DEF Min

\* SetToSeq lists a finite set, each element once.
LEMMA Listed ==
  ASSUME NEW S, IsFiniteSet(S)
  PROVE  /\ SetToSeq(S) \in Seq(S)
         /\ \A i, j \in 1..Len(SetToSeq(S)) : SetToSeq(S)[i] = SetToSeq(S)[j] => i = j
         /\ \A e \in S : \E i \in 1..Len(SetToSeq(S)) : SetToSeq(S)[i] = e
<1> DEFINE k == Cardinality(S)
<1>1. k \in Nat /\ ExistsBijection(1..k, S)
  BY FS_CardinalityType
<1>2. PICK f \in [1..k -> S] : IsInjective(f)
  BY <1>1 DEF ExistsBijection, Bijection, Injection
<1> DEFINE g == SetToSeq(S)
<1>3. g \in [1..k -> S] /\ IsInjective(g)
  BY <1>2 DEF SetToSeq
<1> HIDE DEF g
<1>4. g \in Seq(S) /\ Len(g) = k /\ DOMAIN g = 1..k
  BY <1>1, <1>3
<1>5. \A i, j \in 1..k : g[i] = g[j] => i = j
  BY <1>3, <1>4 DEF IsInjective
<1>6. IsFiniteSet(1..k) /\ Cardinality(1..k) = Cardinality(S)
  BY <1>1, FS_Interval
<1>7. g \in Surjection(1..k, S)
  <2>1. g \in Injection(1..k, S)
    BY <1>3 DEF Injection
  <2> QED
    BY <2>1, <1>6, FS_Injection
<1> QED
  BY <1>4, <1>5, <1>7 DEF g, Surjection

\* The set of the records that a finite set stands for is finite.
LEMMA ImageFinite ==
  ASSUME NEW S, NEW T, NEW f \in [S -> T], IsFiniteSet(S)
  PROVE  IsFiniteSet({f[s] : s \in S})
<1> DEFINE I == {f[s] : s \in S}
<1>1. f \in Surjection(S, I)
  BY DEF Surjection
<1> QED
  BY <1>1, FS_Surjection

--------------------------------------------------------------------------------
(* The graph *)

LEMMA NodesAreNumbers ==
  ASSUME steps \in Workflows
  PROVE  /\ Len(steps) \in Nat \ {0}
         /\ Nodes = 1..Len(steps)
         /\ IsFiniteSet(Nodes)
<1>1. steps # <<>> /\ steps \in Seq(ToSet(steps))
  BY WorkflowsAssumption
<1>2. Len(steps) \in Nat \ {0} /\ Nodes = 1..Len(steps)
  BY <1>1, EmptySeq, LenProperties DEF Nodes
<1> QED
  BY <1>2, FS_Interval

LEMMA StartIsNode ==
  ASSUME steps \in Workflows
  PROVE  StartNode \in Nodes
<1> DEFINE S == {n \in Nodes : Kind(n) = "start"}
<1>1. S \in SUBSET Nat /\ 1 \in Nodes
  BY NodesAreNumbers
<1>2. S # {} => Min(S) \in S
  BY <1>1, Least
<1> QED
  BY <1>1, <1>2 DEF StartNode

\* Who gets a condition's message: a step that was waiting for its choice, the first
\* of those that no case leads to, or the first output.
LEMMA SwitchLeads ==
  ASSUME steps \in Workflows, NEW c \in Nodes, NEW b
  PROVE  \/ SwitchTarget(c, b) \in Downstream(c) /\ ~IsFanIn(SwitchTarget(c, b))
            /\ steps[SwitchTarget(c, b)].branch = b
         \/ /\ SwitchTarget(c, b) = DefaultTarget(c)
            /\ \/ DefaultTarget(c) = FirstOutput
               \/ /\ DefaultTarget(c) \in Downstream(c)
                  /\ \A l \in Labels(c) : DefaultTarget(c) \notin CaseTargets(c, l)
<1>1. Downstream(c) \in SUBSET Nat /\ CaseTargets(c, b) \in SUBSET Downstream(c)
  BY NodesAreNumbers DEF Downstream, CaseTargets
<1>2. CASE CaseTargets(c, b) # {}
  <2>1. SwitchTarget(c, b) = Min(CaseTargets(c, b))
    BY <1>2 DEF SwitchTarget
  <2>2. Min(CaseTargets(c, b)) \in CaseTargets(c, b)
    BY <1>1, <1>2, Least
  <2> QED
    BY <2>1, <2>2 DEF CaseTargets
<1>3. CASE CaseTargets(c, b) = {}
  <2> DEFINE grouped == UNION {CaseTargets(c, l) : l \in ToSet(steps[c].branches)}
  <2>1. SwitchTarget(c, b) = DefaultTarget(c)
    BY <1>3 DEF SwitchTarget
  <2>2. CASE Downstream(c) \subseteq grouped
    BY <2>1, <2>2 DEF DefaultTarget
  <2>3. CASE ~(Downstream(c) \subseteq grouped)
    <3>1. DefaultTarget(c) = Min(Downstream(c) \ grouped)
      BY <2>3 DEF DefaultTarget
    <3>2. Min(Downstream(c) \ grouped) \in Downstream(c) \ grouped
      <4> HIDE DEF grouped
      <4> QED
        BY <1>1, <2>3, Least
    <3>3. \A l \in Labels(c) : DefaultTarget(c) \notin CaseTargets(c, l)
      <4>1. \A l \in ToSet(steps[c].branches) : DefaultTarget(c) \notin CaseTargets(c, l)
        BY <3>1, <3>2
      <4>2. CaseTargets(c, NoBranch) = {}
        BY DEF CaseTargets
      <4> QED
        BY <4>1, <4>2 DEF Labels
    <3> QED
      BY <2>1, <3>1, <3>2, <3>3
  <2> QED
    BY <2>2, <2>3
<1> QED
  BY <1>2, <1>3
--------------------------------------------------------------------------------
(* Types of engine and reader *)

Branches == {NoBranch} \cup UNION {Labels(c) : c \in Nodes}
Messages == [done : SUBSET Nodes, failed : SUBSET Nodes, skipped : SUBSET Nodes,
             choice : [Nodes -> Branches]]
ExecRecords == [node : Nodes, from : SUBSET Nat, obj : Nat, state : {"ready", "running", "done"}]
Events == [event : {"node_complete", "node_error"}, node : Nodes]
Results == {"pending", "completed", "failed", "skipped"}
Done == {x \in DOMAIN execs : execs[x].state = "done"}

EngineTypes ==
    /\ steps \in Workflows
    /\ execs \in Seq(ExecRecords)
    /\ heap \in Seq(Messages)
    /\ \A x \in DOMAIN execs :
          /\ execs[x].obj <= Len(heap)
          /\ execs[x].from \subseteq {y \in Done : y < x}
          /\ execs[x].state # "ready" => execs[x].obj # 0
    /\ sent \subseteq Done
    /\ buffer \in [Nodes -> SUBSET Done]
    /\ yielded \in Seq(Nat) /\ \A i \in DOMAIN yielded : yielded[i] \in Done
    /\ rounds \in 0..MaxSupersteps
    /\ engine \in {"running", "converged", "raised"}
    /\ result \in [Nodes -> Results]

ReaderTypes ==
    /\ queue \in Seq(Events)
    /\ seen \in [done : SUBSET Nodes, failed : SUBSET Nodes]
    /\ run \in {"running", "completed", "failed"}
    /\ reader \in {"reading", "finished", "gone"}

Types == EngineTypes /\ ReaderTypes

LEMMA TypesInit == Init => Types
<1> SUFFICES ASSUME Init PROVE Types
  OBVIOUS
<1>1. steps \in Workflows /\ StartNode \in Nodes
  BY StartIsNode DEF Init
<1>2. Execution(StartNode, {}, 1) \in ExecRecords
  BY <1>1 DEF Execution, ExecRecords
<1>3. Message({}, {}, {}, NoChoice) \in Messages
  BY DEF Message, Messages, NoChoice, Branches
<1>4. execs \in Seq(ExecRecords) /\ Len(execs) = 1 /\ execs[1] = Execution(StartNode, {}, 1)
  BY <1>2 DEF Init
<1>5. heap \in Seq(Messages) /\ Len(heap) = 1
  BY <1>3 DEF Init
<1>6. \A x \in DOMAIN execs :
        /\ execs[x].obj <= Len(heap)
        /\ execs[x].from \subseteq {y \in Done : y < x}
        /\ execs[x].state # "ready" => execs[x].obj # 0
  BY <1>4, <1>5 DEF Execution
<1>7. /\ sent \subseteq Done
      /\ buffer \in [Nodes -> SUBSET Done]
      /\ yielded \in Seq(Nat) /\ \A i \in DOMAIN yielded : yielded[i] \in Done
      /\ rounds \in 0..MaxSupersteps
      /\ engine \in {"running", "converged", "raised"}
      /\ result \in [Nodes -> Results]
  BY MaxSuperstepsAssumption DEF Init, Results
<1>8. ReaderTypes
  BY DEF Init, ReaderTypes
<1> QED
  BY <1>1, <1>4, <1>5, <1>6, <1>7, <1>8 DEF Types, EngineTypes

\* What the steps leave alone as long as the steps of the workflow stay.
LEMMA GraphStays ==
  ASSUME UNCHANGED steps
  PROVE  /\ Nodes' = Nodes /\ Messages' = Messages /\ ExecRecords' = ExecRecords
         /\ Events' = Events /\ StartNode' = StartNode
         /\ Branches' = Branches
  BY DEF Nodes, Messages, ExecRecords, Events, Branches, Labels, StartNode, Kind

\* An execution goes on: its state changes.
LEMMA GoesOn ==
  ASSUME NEW r \in ExecRecords, NEW s \in {"ready", "running", "done"}
  PROVE  /\ [r EXCEPT !.state = s] \in ExecRecords
         /\ [r EXCEPT !.state = s].node = r.node /\ [r EXCEPT !.state = s].from = r.from
         /\ [r EXCEPT !.state = s].obj = r.obj /\ [r EXCEPT !.state = s].state = s
  BY DEF ExecRecords

LEMMA Updated ==
  ASSUME execs \in Seq(ExecRecords), NEW x \in DOMAIN execs, NEW r \in ExecRecords,
         r.node = execs[x].node, r.from = execs[x].from, r.state # "ready",
         execs[x].state # "done", execs' = [execs EXCEPT ![x] = r]
  PROVE  /\ execs' \in Seq(ExecRecords) /\ DOMAIN execs' = DOMAIN execs
         /\ \A y \in DOMAIN execs :
              /\ execs'[y].node = execs[y].node /\ execs'[y].from = execs[y].from
              /\ execs'[y].obj = IF y = x THEN r.obj ELSE execs[y].obj
              /\ execs'[y].state = IF y = x THEN r.state ELSE execs[y].state
         /\ Done' = IF r.state = "done" THEN Done \cup {x} ELSE Done
<1>1. DOMAIN execs = 1..Len(execs)
  BY LenProperties
<1>2. /\ execs' \in Seq(ExecRecords) /\ Len(execs') = Len(execs)
      /\ \A y \in 1..Len(execs) : execs'[y] = IF y = x THEN r ELSE execs[y]
  BY <1>1, ExceptSeq
<1>3. DOMAIN execs' = DOMAIN execs
  BY <1>1, <1>2, LenProperties
<1>4. \A y \in DOMAIN execs : execs'[y].state = IF y = x THEN r.state ELSE execs[y].state
  BY <1>1, <1>2
<1>5. Done' = IF r.state = "done" THEN Done \cup {x} ELSE Done
  BY <1>3, <1>4 DEF Done
<1> QED
  BY <1>1, <1>2, <1>3, <1>4, <1>5

\* handle_single, handle_list: the execution works on an object from now on.
LEMMA BeginTypes ==
  ASSUME EngineTypes, NEW x \in DOMAIN execs, Begin(x)
  PROVE  /\ EngineTypes'
         /\ Done' = Done /\ DOMAIN execs' = DOMAIN execs
         /\ \A y \in DOMAIN execs : execs'[y].node = execs[y].node /\ execs'[y].from = execs[y].from
         /\ \A o \in DOMAIN heap : o \in DOMAIN heap' /\ heap'[o] = heap[o]
         /\ \A y \in DOMAIN execs : execs[y].obj # 0 => execs'[y].obj = execs[y].obj
         /\ \A o \in DOMAIN heap' : o \in DOMAIN heap
               \/ heap'[o] = Merged({execs[y].obj : y \in execs[x].from})
<1>1. /\ engine = "running" /\ execs[x].state = "ready"
      /\ UNCHANGED <<steps, sent, buffer, rounds, engine, result, yielded>>
  BY DEF Begin
<1>2. /\ execs \in Seq(ExecRecords) /\ heap \in Seq(Messages)
      /\ execs[x] \in ExecRecords /\ x \in 1..Len(execs) /\ Len(heap) \in Nat
  BY DEF EngineTypes
<1>4. CASE execs[x].obj # 0
  <2> DEFINE r == [execs[x] EXCEPT !.state = "running"]
  <2>1. heap' = heap /\ execs' = [execs EXCEPT ![x] = r]
    BY <1>4 DEF Begin
  <2>2. r \in ExecRecords /\ r.node = execs[x].node /\ r.from = execs[x].from
        /\ r.obj = execs[x].obj /\ r.state = "running"
    BY <1>2, GoesOn
  <2> HIDE DEF r
  <2>5. /\ execs' \in Seq(ExecRecords) /\ DOMAIN execs' = DOMAIN execs
        /\ \A y \in DOMAIN execs :
             /\ execs'[y].node = execs[y].node /\ execs'[y].from = execs[y].from
             /\ execs'[y].obj = execs[y].obj
             /\ execs'[y].state = IF y = x THEN "running" ELSE execs[y].state
        /\ Done' = Done
    BY <2>1, <2>2, <1>1, <1>2, Updated
  <2>6. EngineTypes'
    <3>1. \A y \in DOMAIN execs' :
            /\ execs'[y].obj <= Len(heap')
            /\ execs'[y].from \subseteq {z \in Done' : z < y}
            /\ execs'[y].state # "ready" => execs'[y].obj # 0
      BY <2>1, <2>5, <1>4 DEF EngineTypes
    <3> QED
      BY <1>1, <2>1, <2>5, <3>1, GraphStays DEF EngineTypes
  <2> QED
    BY <2>1, <2>5, <2>6
<1>5. CASE execs[x].obj = 0
  <2> DEFINE m == Merged({execs[y].obj : y \in execs[x].from})
  <2> DEFINE r == [execs[x] EXCEPT !.state = "running", !.obj = Len(heap) + 1]
  <2>1. heap' = Append(heap, m) /\ execs' = [execs EXCEPT ![x] = r]
    BY <1>5 DEF Begin
  <2>2. r \in ExecRecords /\ r.node = execs[x].node /\ r.from = execs[x].from
        /\ r.obj = Len(heap) + 1 /\ r.state = "running"
    <3> HIDE DEF m
    <3>1. execs[x] \in ExecRecords /\ Len(heap) + 1 \in Nat
      BY <1>2
    <3>2. ASSUME NEW e \in ExecRecords, NEW o \in Nat
          PROVE  LET q == [e EXCEPT !.state = "running", !.obj = o]
                 IN  q \in ExecRecords /\ q.node = e.node /\ q.from = e.from
                     /\ q.obj = o /\ q.state = "running"
      BY DEF ExecRecords
    <3> QED
      BY <3>1, <3>2
  <2> HIDE DEF m, r
  <2>4. /\ execs' \in Seq(ExecRecords) /\ DOMAIN execs' = DOMAIN execs
        /\ \A y \in DOMAIN execs :
             /\ execs'[y].node = execs[y].node /\ execs'[y].from = execs[y].from
             /\ execs'[y].obj = IF y = x THEN Len(heap) + 1 ELSE execs[y].obj
             /\ execs'[y].state = IF y = x THEN "running" ELSE execs[y].state
        /\ Done' = Done
    BY <2>1, <2>2, <1>1, <1>2, Updated
  <2>5. m \in Messages
    <3> USE DEF m
    <3> DEFINE O == {execs[y].obj : y \in execs[x].from}
    <3>1. ASSUME NEW o \in O
          PROVE  heap[o] \in Messages
      <4>1. PICK y \in execs[x].from : o = execs[y].obj
        OBVIOUS
      <4>2. y \in DOMAIN execs /\ execs[y].state = "done" /\ execs[y] \in ExecRecords
        BY <4>1, <1>2 DEF EngineTypes, Done
      <4>3. execs[y].obj \in Nat /\ execs[y].obj <= Len(heap) /\ execs[y].obj # 0
        BY <4>2 DEF EngineTypes, ExecRecords
      <4>4. o \in 1..Len(heap)
        BY <4>1, <4>3, <1>2
      <4> QED
        BY <4>4, <1>2, ElementOfSeq
    <3> HIDE DEF O
    <3>2. ASSUME NEW n \in Nodes
          PROVE  LET choices == {heap[o].choice[n] : o \in O} \ {NoBranch}
                 IN  (IF choices = {} THEN NoBranch ELSE CHOOSE c \in choices : TRUE) \in Branches
      <4> DEFINE choices == {heap[o].choice[n] : o \in O} \ {NoBranch}
      <4>1. \A o \in O : heap[o].choice[n] \in Branches
        BY <3>1 DEF Messages
      <4>2. choices \subseteq Branches
        BY <4>1
      <4>3. choices # {} => (CHOOSE c \in choices : TRUE) \in choices
        OBVIOUS
      <4> QED
        BY <4>2, <4>3 DEF Branches
    <3>3. /\ UNION {heap[o].done : o \in O} \in SUBSET Nodes
          /\ UNION {heap[o].failed : o \in O} \in SUBSET Nodes
          /\ UNION {heap[o].skipped : o \in O} \in SUBSET Nodes
      BY <3>1 DEF Messages
    <3>4. Merged(O) \in Messages
      BY <3>2, <3>3 DEF Merged, Message, Messages
    <3> QED
      BY <3>4 DEF O
  <2>6. /\ heap' \in Seq(Messages) /\ Len(heap') = Len(heap) + 1
        /\ \A o \in DOMAIN heap : o \in DOMAIN heap' /\ heap'[o] = heap[o]
        /\ \A o \in DOMAIN heap' : o \in DOMAIN heap \/ heap'[o] = m
    <3> HIDE DEF m
    <3> QED
      BY <2>1, <2>5, <1>2
  <2>7. EngineTypes'
    <3>1. ASSUME NEW y \in DOMAIN execs'
          PROVE  /\ execs'[y].obj <= Len(heap')
                 /\ execs'[y].from \subseteq {z \in Done' : z < y}
                 /\ execs'[y].state # "ready" => execs'[y].obj # 0
      <4>1. execs[y] \in ExecRecords /\ y \in DOMAIN execs
        BY <1>2, <2>4
      <4>2. execs[y].obj \in Nat
        BY <4>1 DEF ExecRecords
      <4>3. /\ execs[y].obj <= Len(heap) /\ execs[y].from \subseteq {z \in Done : z < y}
            /\ execs[y].state # "ready" => execs[y].obj # 0
        BY <4>1 DEF EngineTypes
      <4>4. execs'[y].obj = IF y = x THEN Len(heap) + 1 ELSE execs[y].obj
        BY <2>4, <4>1
      <4>5. execs'[y].obj <= Len(heap')
        BY <4>2, <4>3, <4>4, <1>2, <2>6
      <4>6. execs'[y].from \subseteq {z \in Done' : z < y}
        BY <2>4, <4>1, <4>3
      <4>7. execs'[y].state # "ready" => execs'[y].obj # 0
        BY <2>4, <4>1, <4>3, <4>4, <1>2
      <4> QED
        BY <4>5, <4>6, <4>7
    <3> QED
      BY <1>1, <2>4, <2>6, <3>1, GraphStays DEF EngineTypes
  <2> QED
    BY <1>5, <2>4, <2>6, <2>7 DEF m
<1> QED
  BY <1>4, <1>5

\* A handler ends with message m: the end of Complete, Fail and Choose.
Closes(x, m, event) ==
    /\ engine = "running" /\ execs[x].state = "running"
    /\ heap' = [heap EXCEPT ![execs[x].obj] = m]
    /\ Emit(event, execs[x].node)
    /\ Close(x)

LEMMA CompleteCloses ==
  ASSUME EngineTypes, NEW x \in DOMAIN execs, Complete(x)
  PROVE  LET n == execs[x].node
             m == heap[execs[x].obj]
             c == [m EXCEPT !.done = @ \cup {n}]
         IN  /\ Closes(x, c, "node_complete") /\ c \in Messages
             /\ c.done = m.done \cup {n} /\ c.failed = m.failed /\ c.skipped = m.skipped
             /\ c.choice = m.choice
             /\ result' = [result EXCEPT ![n] = "completed"]
             /\ Kind(n) # "condition"
<1> DEFINE n == execs[x].node
           m == heap[execs[x].obj]
           c == [m EXCEPT !.done = @ \cup {n}]
<1>1. Closes(x, c, "node_complete") /\ result' = [result EXCEPT ![n] = "completed"] /\ Kind(n) # "condition"
  BY DEF Complete, Running, Closes
<1>2. m \in Messages /\ n \in Nodes
  <2>1. execs[x] \in ExecRecords /\ execs[x].obj <= Len(heap) /\ execs[x].obj # 0
    BY DEF EngineTypes, Complete, Running
  <2>2. execs[x].obj \in 1..Len(heap)
    BY <2>1 DEF ExecRecords, EngineTypes
  <2> QED
    BY <2>1, <2>2, ElementOfSeq DEF ExecRecords, EngineTypes
<1>3. ASSUME NEW a \in Messages, NEW k \in Nodes
      PROVE  LET b == [a EXCEPT !.done = @ \cup {k}]
             IN  /\ b \in Messages /\ b.done = a.done \cup {k} /\ b.failed = a.failed
                 /\ b.skipped = a.skipped /\ b.choice = a.choice
  BY DEF Messages
<1> QED
  BY <1>1, <1>2, <1>3

LEMMA FailCloses ==
  ASSUME EngineTypes, NEW x \in DOMAIN execs, Fail(x)
  PROVE  LET n == execs[x].node
             m == heap[execs[x].obj]
             c == [m EXCEPT !.failed = @ \cup {n}]
         IN  /\ Closes(x, c, "node_error") /\ c \in Messages
             /\ c.done = m.done /\ c.failed = m.failed \cup {n} /\ c.skipped = m.skipped
             /\ c.choice = m.choice
             /\ result' = [result EXCEPT ![n] = "failed"]
             /\ Kind(n) # "condition"
<1> DEFINE n == execs[x].node
           m == heap[execs[x].obj]
           c == [m EXCEPT !.failed = @ \cup {n}]
<1>1. Closes(x, c, "node_error") /\ result' = [result EXCEPT ![n] = "failed"] /\ Kind(n) # "condition"
  BY DEF Fail, Running, Closes
<1>2. m \in Messages /\ n \in Nodes
  <2>1. execs[x] \in ExecRecords /\ execs[x].obj <= Len(heap) /\ execs[x].obj # 0
    BY DEF EngineTypes, Fail, Running
  <2>2. execs[x].obj \in 1..Len(heap)
    BY <2>1 DEF ExecRecords, EngineTypes
  <2> QED
    BY <2>1, <2>2, ElementOfSeq DEF ExecRecords, EngineTypes
<1>3. ASSUME NEW a \in Messages, NEW k \in Nodes
      PROVE  LET b == [a EXCEPT !.failed = @ \cup {k}]
             IN  /\ b \in Messages /\ b.done = a.done /\ b.failed = a.failed \cup {k}
                 /\ b.skipped = a.skipped /\ b.choice = a.choice
  BY DEF Messages
<1> QED
  BY <1>1, <1>2, <1>3

\* The steps that a choice leaves out.
Skips(x, chosen) ==
    LET m == heap[execs[x].obj]
    IN  Untaken(execs[x].node, chosen) \ (m.done \cup {execs[x].node} \cup m.skipped)

LEMMA ChooseCloses ==
  ASSUME EngineTypes, NEW x \in DOMAIN execs, NEW b, Choose(x, b)
  PROVE  LET n == execs[x].node
             m == heap[execs[x].obj]
             c == Message(m.done \cup {n}, m.failed, m.skipped \cup Skips(x, b), [m.choice EXCEPT ![n] = b])
         IN  /\ Closes(x, c, "node_complete") /\ c \in Messages
             /\ c.done = m.done \cup {n} /\ c.failed = m.failed
             /\ c.skipped = m.skipped \cup Skips(x, b)
             /\ \A k \in Nodes : c.choice[k] = IF k = n THEN b ELSE m.choice[k]
             /\ \A k \in Nodes : result'[k] = CASE k = n -> "completed"
                                                [] k \in Skips(x, b) -> "skipped"
                                                [] OTHER -> result[k]
             /\ result' \in [Nodes -> Results]
             /\ n \in Conditions
             /\ \A k \in Skips(x, b) : k \in Nodes \ {n} /\ steps[k].branch # NoBranch
<1> DEFINE n == execs[x].node
           m == heap[execs[x].obj]
           c == Message(m.done \cup {n}, m.failed, m.skipped \cup Skips(x, b), [m.choice EXCEPT ![n] = b])
<1>1. /\ Closes(x, c, "node_complete") /\ Kind(n) = "condition" /\ b \in Labels(n)
      /\ result' = [k \in Nodes |-> CASE k = n -> "completed"
                                      [] k \in Skips(x, b) -> "skipped"
                                      [] OTHER -> result[k]]
  BY DEF Choose, Running, Closes, Skips
<1>2. m \in Messages /\ n \in Nodes
  <2>1. execs[x] \in ExecRecords /\ execs[x].obj <= Len(heap) /\ execs[x].obj # 0
    BY DEF EngineTypes, Choose, Running
  <2>2. execs[x].obj \in 1..Len(heap)
    BY <2>1 DEF ExecRecords, EngineTypes
  <2> QED
    BY <2>1, <2>2, ElementOfSeq DEF ExecRecords, EngineTypes
<1>3. Skips(x, b) \subseteq Nodes \ {n} /\ \A k \in Skips(x, b) : steps[k].branch # NoBranch
  BY DEF Skips, Untaken, Downstream
<1>4. [m.choice EXCEPT ![n] = b] \in [Nodes -> Branches]
      /\ \A k \in Nodes : [m.choice EXCEPT ![n] = b][k] = IF k = n THEN b ELSE m.choice[k]
  BY <1>1, <1>2 DEF Messages, Branches
<1>5. m.done \cup {n} \in SUBSET Nodes /\ m.failed \in SUBSET Nodes /\ m.skipped \cup Skips(x, b) \in SUBSET Nodes
  BY <1>2, <1>3 DEF Messages
<1>6. c \in Messages /\ c.choice = [m.choice EXCEPT ![n] = b] /\ c.done = m.done \cup {n}
      /\ c.failed = m.failed /\ c.skipped = m.skipped \cup Skips(x, b)
  BY <1>4, <1>5 DEF Message, Messages
<1>7. \A k \in Nodes : result[k] \in Results
  BY DEF EngineTypes
<1> HIDE DEF c, m
<1>8. result' \in [Nodes -> Results]
  BY <1>1, <1>7 DEF Results
<1>9. \A k \in Nodes : result'[k] = CASE k = n -> "completed"
                                      [] k \in Skips(x, b) -> "skipped"
                                      [] OTHER -> result[k]
  BY <1>1
<1> QED
  BY <1>1, <1>2, <1>3, <1>4, <1>6, <1>8, <1>9 DEF Conditions, c, m

\* What that leaves behind.
Closed(x, m, event) ==
    /\ Done' = Done \cup {x} /\ DOMAIN execs' = DOMAIN execs
    /\ \A y \in DOMAIN execs : execs'[y].node = execs[y].node /\ execs'[y].from = execs[y].from
                               /\ execs'[y].obj = execs[y].obj
    /\ execs[x].obj \in DOMAIN heap /\ DOMAIN heap' = DOMAIN heap
    /\ \A o \in DOMAIN heap : heap'[o] = IF o = execs[x].obj THEN m ELSE heap[o]
    /\ Len(queue') = Len(queue) + 1
    /\ queue'[Len(queue) + 1] = [event |-> event, node |-> execs[x].node]
    /\ \A i \in 1..Len(queue) : queue'[i] = queue[i]
    /\ sent' = IF Kind(execs[x].node) = "end" THEN sent ELSE sent \cup {x}
    /\ UNCHANGED <<steps, buffer, rounds, engine, seen, run, reader>>

LEMMA CloseTypes ==
  ASSUME Types, NEW x \in DOMAIN execs, NEW m \in Messages, NEW ev \in {"node_complete", "node_error"},
         Closes(x, m, ev), result' \in [Nodes -> Results]
  PROVE  Types' /\ Closed(x, m, ev)
<1>1. /\ execs \in Seq(ExecRecords) /\ heap \in Seq(Messages) /\ queue \in Seq(Events)
      /\ execs[x] \in ExecRecords /\ Len(heap) \in Nat /\ Len(queue) \in Nat
      /\ engine = "running" /\ execs[x].state = "running"
  BY DEF Types, EngineTypes, ReaderTypes, Closes
<1>2. UNCHANGED <<steps, buffer, rounds, engine, seen, run, reader>>
  BY DEF Closes, Close, readerVars
<1> DEFINE r == [execs[x] EXCEPT !.state = "done"]
<1>3. execs' = [execs EXCEPT ![x] = r]
  BY DEF Closes, Close
<1>4. r \in ExecRecords /\ r.node = execs[x].node /\ r.from = execs[x].from
      /\ r.obj = execs[x].obj /\ r.state = "done"
  BY <1>1, GoesOn
<1> HIDE DEF r
<1>5. /\ execs' \in Seq(ExecRecords) /\ DOMAIN execs' = DOMAIN execs
      /\ \A y \in DOMAIN execs :
              /\ execs'[y].node = execs[y].node /\ execs'[y].from = execs[y].from
              /\ execs'[y].obj = execs[y].obj
              /\ execs'[y].state = IF y = x THEN "done" ELSE execs[y].state
      /\ Done' = Done \cup {x}
  BY <1>1, <1>3, <1>4, Updated
<1>6. execs[x].obj \in 1..Len(heap)
  BY <1>1 DEF Types, EngineTypes, ExecRecords
<1>7. /\ heap' \in Seq(Messages) /\ Len(heap') = Len(heap)
      /\ \A o \in 1..Len(heap) : heap'[o] = IF o = execs[x].obj THEN m ELSE heap[o]
  <2>1. heap' = [heap EXCEPT ![execs[x].obj] = m]
    BY DEF Closes
  <2> QED
    BY <2>1, <1>1, <1>6, ExceptSeq
<1>8. DOMAIN heap' = DOMAIN heap /\ DOMAIN heap = 1..Len(heap)
  BY <1>1, <1>7
<1>9. /\ queue' \in Seq(Events) /\ Len(queue') = Len(queue) + 1
      /\ queue'[Len(queue) + 1] = [event |-> ev, node |-> execs[x].node]
      /\ \A i \in 1..Len(queue) : queue'[i] = queue[i]
  <2> DEFINE e == [event |-> ev, node |-> execs[x].node]
  <2>1. e \in Events /\ queue' = Append(queue, e)
    BY <1>1 DEF Closes, Emit, Events, ExecRecords
  <2> HIDE DEF e
  <2> QED
    BY <1>1, <2>1 DEF e
<1>10. sent' = (IF Kind(execs[x].node) = "end" THEN sent ELSE sent \cup {x}) /\ sent' \subseteq Done'
  BY <1>5 DEF Closes, Close, Types, EngineTypes
<1>11. yielded' \in Seq(Nat) /\ \A i \in DOMAIN yielded' : yielded'[i] \in Done'
  <2>1. yielded \in Seq(Nat) /\ (\A i \in DOMAIN yielded : yielded[i] \in Done) /\ x \in Nat
    BY <1>1 DEF Types, EngineTypes
  <2>2. CASE yielded' = yielded
    BY <2>1, <2>2, <1>5
  <2>3. CASE yielded' = Append(yielded, x)
    <3>1. /\ yielded' \in Seq(Nat) /\ DOMAIN yielded' = 1..(Len(yielded) + 1) /\ Len(yielded) \in Nat
          /\ yielded'[Len(yielded) + 1] = x
          /\ \A i \in 1..Len(yielded) : yielded'[i] = yielded[i]
      BY <2>1, <2>3
    <3>2. DOMAIN yielded = 1..Len(yielded)
      BY <2>1
    <3>3. ASSUME NEW i \in DOMAIN yielded' PROVE yielded'[i] \in Done \cup {x}
      <4>1. CASE i \in DOMAIN yielded
        BY <4>1, <3>1, <3>2, <2>1
      <4>2. CASE i = Len(yielded) + 1
        BY <4>2, <3>1
      <4> QED
        BY <4>1, <4>2, <3>1, <3>2
    <3> QED
      BY <3>1, <3>3, <1>5
  <2> QED
    BY <2>2, <2>3 DEF Closes, Close
<1>12. EngineTypes'
  <2>1. ASSUME NEW y \in DOMAIN execs'
        PROVE  /\ execs'[y].obj <= Len(heap')
               /\ execs'[y].from \subseteq {z \in Done' : z < y}
               /\ execs'[y].state # "ready" => execs'[y].obj # 0
    <3>1. /\ execs[y].obj <= Len(heap) /\ execs[y].from \subseteq {z \in Done : z < y}
          /\ execs[y].state # "ready" => execs[y].obj # 0
      BY <1>5 DEF Types, EngineTypes
    <3> QED
      BY <3>1, <1>1, <1>5, <1>6, <1>7
  <2>2. buffer' \in [Nodes -> SUBSET Done']
    BY <1>2, <1>5 DEF Types, EngineTypes
  <2> QED
    BY <1>2, <1>5, <1>7, <1>10, <1>11, <2>1, <2>2, GraphStays DEF Types, EngineTypes
<1>13. ReaderTypes'
  BY <1>2, <1>9, GraphStays DEF Types, ReaderTypes
<1> QED
  BY <1>2, <1>5, <1>6, <1>7, <1>8, <1>9, <1>10, <1>12, <1>13 DEF Types, Closed

\* The executions that a round of deliveries adds.
Singles == {p \in sent \X Nodes : p[2] \in Receivers(execs[p[1]].node, execs[p[1]].obj)}
Joins == {n \in Nodes : Full(n) /\ Gathered(n) # buffer[n]}
Single(p) == Execution(p[2], {p[1]}, execs[p[1]].obj)
Joining(n) == Execution(n, Gathered(n), 0)
Added == {Single(p) : p \in Singles} \cup {Joining(n) : n \in Joins}

LEMMA DeliverTypes ==
  ASSUME EngineTypes, Deliver
  PROVE  /\ EngineTypes'
         /\ UNCHANGED <<steps, heap, engine, result, queue, seen, run, reader>>
         /\ sent' = {} /\ Done' = Done
         /\ \A y \in DOMAIN execs : y \in DOMAIN execs' /\ execs'[y] = execs[y]
         /\ \A y \in DOMAIN execs' : y \in DOMAIN execs \/ execs'[y] \in Added
         /\ \A y, z \in DOMAIN execs' \ DOMAIN execs : execs'[y] = execs'[z] => y = z
         /\ \A e \in Added : \E y \in DOMAIN execs' \ DOMAIN execs : execs'[y] = e
         /\ buffer' = [n \in Nodes |-> IF ~IsFanIn(n) \/ n \in Joins THEN {} ELSE Gathered(n)]
<1> DEFINE A == {Single(p) : p \in Singles}
           B == {Joining(n) : n \in Joins}
           a == SetToSeq(A)
           b == SetToSeq(B)
<1>1. /\ execs \in Seq(ExecRecords) /\ steps \in Workflows /\ sent \subseteq Done
      /\ buffer \in [Nodes -> SUBSET Done] /\ rounds \in 0..MaxSupersteps
      /\ Len(execs) \in Nat /\ DOMAIN execs = 1..Len(execs)
  BY DEF EngineTypes
<1>2. /\ UNCHANGED <<steps, heap, engine, result, yielded, queue, seen, run, reader>>
      /\ sent' = {} /\ rounds < MaxSupersteps /\ rounds' = rounds + 1
      /\ buffer' = [n \in Nodes |-> IF ~IsFanIn(n) \/ n \in Joins THEN {} ELSE Gathered(n)]
      /\ execs' = execs \o a \o b
  BY DEF Deliver, MayContinue, readerVars, Singles, Joins, Single, Joining
<1>3. \A x \in Done : x \in 1..Len(execs) /\ execs[x] \in ExecRecords /\ execs[x].obj # 0
                      /\ execs[x].state = "done"
  BY <1>1 DEF EngineTypes, Done
<1>4. \A n \in Nodes : Gathered(n) \subseteq Done /\ Gathered(n) \in SUBSET Nat
  BY <1>1, <1>3 DEF Gathered
<1>5. A \subseteq ExecRecords
  <2>1. ASSUME NEW p \in Singles PROVE Single(p) \in ExecRecords
    <3>1. p[1] \in Done /\ p[2] \in Nodes
      BY <1>1 DEF Singles
    <3> QED
      BY <3>1, <1>3 DEF Single, Execution, ExecRecords
  <2> QED
    BY <2>1
<1>6. B \subseteq ExecRecords
  <2>1. ASSUME NEW n \in Joins PROVE Joining(n) \in ExecRecords
    BY <1>4 DEF Joins, Joining, Execution, ExecRecords
  <2> QED
    BY <2>1
<1>7. IsFiniteSet(A)
  <2>1. IsFiniteSet(1..Len(execs)) /\ IsFiniteSet(Nodes)
    BY <1>1, FS_Interval, NodesAreNumbers
  <2>2. IsFiniteSet(sent)
    <3>1. sent \in SUBSET (1..Len(execs))
      BY <1>1, <1>3
    <3> QED
      BY <2>1, <3>1, FS_Subset
  <2>3. IsFiniteSet(sent \X Nodes)
    BY <2>1, <2>2, FS_Product
  <2>4. IsFiniteSet(Singles)
    BY <2>3, FS_Subset DEF Singles
  <2> DEFINE f == [p \in Singles |-> Single(p)]
  <2>5. f \in [Singles -> ExecRecords]
    BY <1>5
  <2>6. IsFiniteSet({f[p] : p \in Singles})
    <3> HIDE DEF f
    <3> QED
      BY <2>4, <2>5, ImageFinite
  <2>7. A = {f[p] : p \in Singles}
    OBVIOUS
  <2> QED
    BY <2>6, <2>7
<1>8. IsFiniteSet(B)
  <2>1. IsFiniteSet(Joins)
    BY <1>1, NodesAreNumbers, FS_Subset DEF Joins
  <2> DEFINE f == [n \in Joins |-> Joining(n)]
  <2>2. f \in [Joins -> ExecRecords]
    BY <1>6
  <2>3. IsFiniteSet({f[n] : n \in Joins})
    <3> HIDE DEF f
    <3> QED
      BY <2>1, <2>2, ImageFinite
  <2>4. B = {f[n] : n \in Joins}
    OBVIOUS
  <2> QED
    BY <2>3, <2>4
<1> HIDE DEF A, B
<1>9. /\ a \in Seq(A) /\ \A i, j \in 1..Len(a) : a[i] = a[j] => i = j
      /\ \A e \in A : \E i \in 1..Len(a) : a[i] = e
  BY <1>7, Listed
<1>10. /\ b \in Seq(B) /\ \A i, j \in 1..Len(b) : b[i] = b[j] => i = j
       /\ \A e \in B : \E i \in 1..Len(b) : b[i] = e
  BY <1>8, Listed
<1> HIDE DEF a, b
<1>11. /\ a \in Seq(ExecRecords) /\ Len(a) \in Nat /\ \A i \in 1..Len(a) : a[i] \in A
       /\ b \in Seq(ExecRecords) /\ Len(b) \in Nat /\ \A i \in 1..Len(b) : b[i] \in B
  BY <1>5, <1>6, <1>9, <1>10, SeqMonotonic
<1>12. /\ execs' \in Seq(ExecRecords) /\ Len(execs') = Len(execs) + Len(a) + Len(b)
       /\ \A y \in 1..Len(execs) : execs'[y] = execs[y]
       /\ \A i \in 1..Len(a) : execs'[Len(execs) + i] = a[i]
       /\ \A i \in 1..Len(b) : execs'[Len(execs) + Len(a) + i] = b[i]
  <2>1. /\ execs \o a \in Seq(ExecRecords) /\ Len(execs \o a) = Len(execs) + Len(a)
        /\ \A i \in 1..Len(execs) + Len(a) :
              (execs \o a)[i] = IF i <= Len(execs) THEN execs[i] ELSE a[i - Len(execs)]
    BY <1>1, <1>11, ConcatProperties
  <2> DEFINE ea == execs \o a
  <2>2. /\ ea \o b \in Seq(ExecRecords) /\ Len(ea \o b) = Len(ea) + Len(b)
        /\ \A i \in 1..Len(ea) + Len(b) :
              (ea \o b)[i] = IF i <= Len(ea) THEN ea[i] ELSE b[i - Len(ea)]
    <3> HIDE DEF ea
    <3> QED
      BY <2>1, <1>11, ConcatProperties DEF ea
  <2>3. execs' = ea \o b /\ Len(ea) = Len(execs) + Len(a)
    BY <1>2, <2>1
  <2>4. \A i \in 1..Len(execs) + Len(a) : ea[i] = IF i <= Len(execs) THEN execs[i] ELSE a[i - Len(execs)]
    BY <2>1
  <2> HIDE DEF ea
  <2>5. \A y \in 1..Len(execs) : execs'[y] = execs[y]
    BY <1>1, <1>11, <2>2, <2>3, <2>4
  <2>6. \A i \in 1..Len(a) : execs'[Len(execs) + i] = a[i]
    BY <1>1, <1>11, <2>2, <2>3, <2>4
  <2>7. \A i \in 1..Len(b) : execs'[Len(execs) + Len(a) + i] = b[i]
    BY <1>1, <1>11, <2>2, <2>3
  <2> QED
    BY <2>2, <2>3, <2>5, <2>6, <2>7
<1>13. DOMAIN execs' = 1..(Len(execs) + Len(a) + Len(b))
  BY <1>12
<1>14. \A y \in DOMAIN execs' : \/ y \in DOMAIN execs
                                \/ \E i \in 1..Len(a) : y = Len(execs) + i
                                \/ \E i \in 1..Len(b) : y = Len(execs) + Len(a) + i
  <2> SUFFICES ASSUME NEW y \in DOMAIN execs', y \notin DOMAIN execs
               PROVE  \/ \E i \in 1..Len(a) : y = Len(execs) + i
                      \/ \E i \in 1..Len(b) : y = Len(execs) + Len(a) + i
    OBVIOUS
  <2>1. CASE y <= Len(execs) + Len(a)
    <3>1. y - Len(execs) \in 1..Len(a) /\ y = Len(execs) + (y - Len(execs))
      BY <2>1, <1>1, <1>11, <1>13
    <3> QED
      BY <3>1
  <2>2. CASE ~(y <= Len(execs) + Len(a))
    <3>1. y - Len(execs) - Len(a) \in 1..Len(b) /\ y = Len(execs) + Len(a) + (y - Len(execs) - Len(a))
      BY <2>2, <1>1, <1>11, <1>13
    <3> QED
      BY <3>1
  <2> QED
    BY <2>1, <2>2
<1>15. \A e \in A : e.obj # 0 /\ e.state = "ready" /\ e.from \in SUBSET Done
  BY <1>1, <1>3 DEF A, Singles, Single, Execution
<1>16. \A e \in B : e.obj = 0 /\ e.state = "ready" /\ e.from \in SUBSET Done
  BY <1>4 DEF B, Joins, Joining, Execution
<1>17. \A y \in DOMAIN execs : y \in DOMAIN execs' /\ execs'[y] = execs[y]
  BY <1>1, <1>11, <1>12, <1>13
<1>18. \A y \in DOMAIN execs' : y \in DOMAIN execs \/ execs'[y] \in A \cup B
  BY <1>11, <1>12, <1>14
<1>19. Added = A \cup B
  BY DEF Added, A, B
<1>20. \A y, z \in DOMAIN execs' \ DOMAIN execs : execs'[y] = execs'[z] => y = z
  <2> SUFFICES ASSUME NEW y \in DOMAIN execs', NEW z \in DOMAIN execs', y \notin DOMAIN execs,
                      z \notin DOMAIN execs, execs'[y] = execs'[z]
               PROVE  y = z
    OBVIOUS
  <2>1. ASSUME NEW i \in 1..Len(a), y = Len(execs) + i PROVE y = z
    <3>1. execs'[z] \in A
      BY <2>1, <1>11, <1>12
    <3>2. ASSUME NEW j \in 1..Len(b), z = Len(execs) + Len(a) + j PROVE FALSE
      <4>1. execs'[z] = b[j]
        BY <3>2, <1>12
      <4>2. b[j] \in B
        BY <1>11
      <4>3. execs'[z].obj = 0
        BY <4>1, <4>2, <1>16
      <4>4. execs'[z].obj # 0
        BY <3>1, <1>15
      <4> QED
        BY <4>3, <4>4
    <3>3. PICK j \in 1..Len(a) : z = Len(execs) + j
      BY <3>2, <1>14
    <3>4. a[i] = a[j]
      BY <2>1, <3>3, <1>12
    <3> QED
      BY <2>1, <3>3, <3>4, <1>9
  <2>2. ASSUME NEW i \in 1..Len(b), y = Len(execs) + Len(a) + i PROVE y = z
    <3>1. execs'[z] \in B
      BY <2>2, <1>11, <1>12
    <3>2. ASSUME NEW j \in 1..Len(a), z = Len(execs) + j PROVE FALSE
      <4>1. execs'[z] = a[j]
        BY <3>2, <1>12
      <4>2. a[j] \in A
        BY <1>11
      <4>3. execs'[z].obj # 0
        BY <4>1, <4>2, <1>15
      <4>4. execs'[z].obj = 0
        BY <3>1, <1>16
      <4> QED
        BY <4>3, <4>4
    <3>3. PICK j \in 1..Len(b) : z = Len(execs) + Len(a) + j
      BY <3>2, <1>14
    <3>4. b[i] = b[j]
      BY <2>2, <3>3, <1>12
    <3> QED
      BY <2>2, <3>3, <3>4, <1>10
  <2> QED
    BY <2>1, <2>2, <1>14
<1>21. \A e \in Added : \E y \in DOMAIN execs' \ DOMAIN execs : execs'[y] = e
  <2>1. ASSUME NEW e \in A PROVE \E y \in DOMAIN execs' \ DOMAIN execs : execs'[y] = e
    <3>1. PICK i \in 1..Len(a) : a[i] = e
      BY <1>9
    <3>2. Len(execs) + i \in DOMAIN execs' \ DOMAIN execs
      BY <1>1, <1>11, <1>13
    <3> QED
      BY <3>1, <3>2, <1>12
  <2>2. ASSUME NEW e \in B PROVE \E y \in DOMAIN execs' \ DOMAIN execs : execs'[y] = e
    <3>1. PICK i \in 1..Len(b) : b[i] = e
      BY <1>10
    <3>2. Len(execs) + Len(a) + i \in DOMAIN execs' \ DOMAIN execs
      BY <1>1, <1>11, <1>13
    <3> QED
      BY <3>1, <3>2, <1>12
  <2> QED
    BY <2>1, <2>2, <1>19
<1>22. Done' = Done
  BY <1>15, <1>16, <1>17, <1>18 DEF Done
<1>23. EngineTypes'
  <2>1. ASSUME NEW y \in DOMAIN execs'
        PROVE  /\ execs'[y].obj <= Len(heap')
               /\ execs'[y].from \subseteq {z \in Done' : z < y}
               /\ execs'[y].state # "ready" => execs'[y].obj # 0
    <3>1. CASE y \in DOMAIN execs
      BY <3>1, <1>2, <1>17, <1>22 DEF EngineTypes
    <3>2. CASE y \notin DOMAIN execs
      <4>1. execs'[y] \in A \cup B
        BY <3>2, <1>18
      <4>2. execs'[y].from \in SUBSET Done /\ execs'[y].state = "ready"
        BY <4>1, <1>15, <1>16
      <4>3. y \in Nat /\ y > Len(execs)
        BY <3>2, <1>1, <1>11, <1>13
      <4>4. \A z \in Done : z < y
        BY <4>3, <1>1, <1>3
      <4>5. execs'[y].obj <= Len(heap)
        <5>1. CASE execs'[y] \in B
          BY <5>1, <1>16 DEF EngineTypes
        <5>2. CASE execs'[y] \in A
          <6>1. PICK p \in Singles : execs'[y] = Single(p)
            BY <5>2 DEF A
          <6>2. p[1] \in Done
            BY <1>1 DEF Singles
          <6> QED
            BY <6>1, <6>2 DEF EngineTypes, Single, Execution, Done
        <5> QED
          BY <4>1, <5>1, <5>2
      <4> QED
        BY <4>2, <4>4, <4>5, <1>2, <1>22
    <3> QED
      BY <3>1, <3>2
  <2>2. buffer' \in [Nodes -> SUBSET Done']
    BY <1>2, <1>4, <1>22
  <2>3. rounds' \in 0..MaxSupersteps
    BY <1>1, <1>2, MaxSuperstepsAssumption
  <2> QED
    BY <1>2, <1>12, <1>22, <2>1, <2>2, <2>3, GraphStays DEF EngineTypes
<1> QED
  BY <1>2, <1>17, <1>18, <1>19, <1>20, <1>21, <1>22, <1>23

\* A step of a run is one of a handler, a round of deliveries or one that the
\* executions and their messages do not notice.
LEMMA EngineCases ==
  ASSUME [WorkflowNext]_allVars
  PROVE  \/ \E x \in DOMAIN execs : Begin(x)
         \/ \E x \in DOMAIN execs : Complete(x) \/ Fail(x) \/ \E b \in Labels(execs[x].node) : Choose(x, b)
         \/ Deliver /\ verdict = "valid"
         \/ UNCHANGED <<steps, execs, heap, sent, buffer, rounds, result, yielded>>
<1>1. CASE Execute
  <2>1. PICK x \in DOMAIN execs : Begin(x) \/ Outcome(x)
    BY <1>1 DEF Execute
  <2> QED
    BY <2>1 DEF Outcome, Raise
<1>2. CASE Converge \/ GiveUp \/ ReadEvent \/ Finish \/ Disconnect \/ UNCHANGED vars
  BY <1>2 DEF Converge, GiveUp, ReadEvent, Finish, Disconnect, engineVars, vars
<1>3. CASE Validate \/ BuildFails \/ Answers
  BY <1>3 DEF Validate, BuildFails, Answers, vars
<1> QED
  BY <1>1, <1>2, <1>3 DEF WorkflowNext, Built, Next, Over, allVars

\* The ways a handler ends: with message m and an event, its own step settled and
\* the steps of "out" skipped.
Ends(x, m, event, out) ==
    LET n == execs[x].node
        o == heap[execs[x].obj]
    IN  /\ Closes(x, m, event) /\ result' \in [Nodes -> Results]
        /\ m.done = IF event = "node_complete" THEN o.done \cup {n} ELSE o.done
        /\ m.failed = IF event = "node_complete" THEN o.failed ELSE o.failed \cup {n}
        /\ m.skipped = o.skipped \cup out
        /\ \A k \in Nodes : k # n \/ n \notin Conditions => m.choice[k] = o.choice[k]
        /\ result'[n] = IF event = "node_complete" THEN "completed" ELSE "failed"
        /\ \A k \in Nodes \ {n} : result'[k] = IF k \in out THEN "skipped" ELSE result[k]
        /\ \A k \in out : k \in Nodes \ {n} /\ steps[k].branch # NoBranch
        /\ out # {} => n \in Conditions

LEMMA HandlerEnds ==
  ASSUME EngineTypes, NEW x \in DOMAIN execs,
         Complete(x) \/ Fail(x) \/ \E b \in Labels(execs[x].node) : Choose(x, b)
  PROVE  \E m \in Messages, event \in {"node_complete", "node_error"}, out \in SUBSET Nodes :
             Ends(x, m, event, out)
<1> DEFINE n == execs[x].node
           o == heap[execs[x].obj]
<1>1. n \in Nodes /\ result \in [Nodes -> Results]
  <2>1. execs[x] \in ExecRecords
    BY DEF EngineTypes
  <2> QED
    BY <2>1 DEF EngineTypes, ExecRecords
<1>2. ASSUME NEW v \in Results, result' = [result EXCEPT ![n] = v]
      PROVE  result' \in [Nodes -> Results] /\ result'[n] = v
             /\ \A k \in Nodes \ {n} : result'[k] = result[k]
  BY <1>1, <1>2
<1>3. CASE Complete(x)
  <2> DEFINE m == [o EXCEPT !.done = @ \cup {n}]
  <2>1. /\ Closes(x, m, "node_complete") /\ m \in Messages
        /\ m.done = o.done \cup {n} /\ m.failed = o.failed /\ m.skipped = o.skipped
        /\ m.choice = o.choice /\ result' = [result EXCEPT ![n] = "completed"]
    BY <1>3, CompleteCloses
  <2> HIDE DEF m
  <2>2. Ends(x, m, "node_complete", {})
    BY <2>1, <1>2 DEF Ends, Results
  <2> QED
    BY <2>1, <2>2
<1>4. CASE Fail(x)
  <2> DEFINE m == [o EXCEPT !.failed = @ \cup {n}]
  <2>1. /\ Closes(x, m, "node_error") /\ m \in Messages
        /\ m.done = o.done /\ m.failed = o.failed \cup {n} /\ m.skipped = o.skipped
        /\ m.choice = o.choice /\ result' = [result EXCEPT ![n] = "failed"]
    BY <1>4, FailCloses
  <2> HIDE DEF m
  <2>2. Ends(x, m, "node_error", {})
    BY <2>1, <1>2 DEF Ends, Results
  <2> QED
    BY <2>1, <2>2
<1>5. ASSUME NEW b \in Labels(n), Choose(x, b)
      PROVE  \E m \in Messages, event \in {"node_complete", "node_error"}, out \in SUBSET Nodes :
                 Ends(x, m, event, out)
  <2> DEFINE m == Message(o.done \cup {n}, o.failed, o.skipped \cup Skips(x, b), [o.choice EXCEPT ![n] = b])
  <2>1. /\ Closes(x, m, "node_complete") /\ m \in Messages
        /\ m.done = o.done \cup {n} /\ m.failed = o.failed
        /\ m.skipped = o.skipped \cup Skips(x, b)
        /\ \A k \in Nodes : m.choice[k] = IF k = n THEN b ELSE o.choice[k]
        /\ \A k \in Nodes : result'[k] = CASE k = n -> "completed"
                                           [] k \in Skips(x, b) -> "skipped"
                                           [] OTHER -> result[k]
        /\ result' \in [Nodes -> Results]
        /\ n \in Conditions
        /\ \A k \in Skips(x, b) : k \in Nodes \ {n} /\ steps[k].branch # NoBranch
    BY <1>5, ChooseCloses
  <2> HIDE DEF m
  <2>2. Skips(x, b) \in SUBSET Nodes
    BY <2>1
  <2> DEFINE out == Skips(x, b)
  <2> HIDE DEF out
  <2>3. /\ result'[n] = "completed"
        /\ \A k \in Nodes \ {n} : result'[k] = IF k \in out THEN "skipped" ELSE result[k]
    BY <1>1, <2>1 DEF out
  <2>4. Ends(x, m, "node_complete", out)
    BY <2>1, <2>3 DEF Ends, out
  <2> QED
    BY <2>1, <2>2, <2>4 DEF out
<1> QED
  BY <1>3, <1>4, <1>5

LEMMA EndTypes ==
  ASSUME Types, NEW x \in DOMAIN execs,
         Complete(x) \/ Fail(x) \/ \E b \in Labels(execs[x].node) : Choose(x, b)
  PROVE  Types'
<1>1. PICK m \in Messages, event \in {"node_complete", "node_error"}, out \in SUBSET Nodes :
             Ends(x, m, event, out)
  BY HandlerEnds DEF Types
<1>2. Closes(x, m, event) /\ result' \in [Nodes -> Results]
  BY <1>1 DEF Ends
<1> QED
  BY <1>2, CloseTypes

LEMMA QuietTypes ==
  ASSUME Types, [WorkflowNext]_allVars,
         UNCHANGED <<steps, execs, heap, sent, buffer, rounds, result, yielded>>
  PROVE  Types'
<1>1. EngineTypes' /\ UNCHANGED <<Nodes, Events>>
  <2>1. engine' \in {"running", "converged", "raised"}
    <3>1. CASE Built(Next)
      <4>1. CASE Execute
        BY <4>1 DEF Execute, Outcome, Begin, Complete, Fail, Raise, Choose, Close, Types, EngineTypes
      <4> QED
        BY <3>1, <4>1 DEF Built, Next, Deliver, Converge, GiveUp, ReadEvent, Finish, Disconnect, Over,
                          engineVars, vars, Types, EngineTypes
    <3> QED
      BY <3>1 DEF WorkflowNext, Validate, BuildFails, Answers, Over, vars, allVars, Types, EngineTypes
  <2> QED
    BY <2>1, GraphStays DEF Types, EngineTypes, Done
<1>2. ReaderTypes'
  <2>1. CASE UNCHANGED <<queue, seen, run, reader>>
    BY <2>1, <1>1 DEF Types, ReaderTypes
  <2>2. CASE ReadEvent
    <3>1. queue \in Seq(Events) /\ queue # <<>> /\ queue' = Tail(queue) /\ reader' = reader
          /\ seen' = Noted(Head(queue)) /\ run' \in {"failed", run}
      BY <2>2 DEF ReadEvent, Types, ReaderTypes
    <3>2. Head(queue) \in Events /\ queue' \in Seq(Events)
      BY <3>1, HeadTailProperties
    <3>3. ASSUME NEW s \in [done : SUBSET Nodes, failed : SUBSET Nodes], NEW n \in Nodes
          PROVE  /\ [s EXCEPT !.done = @ \cup {n}] \in [done : SUBSET Nodes, failed : SUBSET Nodes]
                 /\ [s EXCEPT !.failed = @ \cup {n}] \in [done : SUBSET Nodes, failed : SUBSET Nodes]
      OBVIOUS
    <3>4. seen' \in [done : SUBSET Nodes, failed : SUBSET Nodes]
      BY <3>1, <3>2, <3>3 DEF Noted, Types, ReaderTypes, Events
    <3> QED
      BY <1>1, <3>1, <3>2, <3>4 DEF Types, ReaderTypes
  <2>3. CASE Finish \/ Disconnect \/ BuildFails
    BY <2>3, <1>1 DEF Finish, Disconnect, BuildFails, Types, ReaderTypes
  <2>4. CASE Execute
    <3>1. PICK x \in DOMAIN execs : Begin(x) \/ Outcome(x)
      BY <2>4 DEF Execute
    <3>2. CASE Begin(x) \/ Raise(x)
      BY <3>2, <2>1 DEF Begin, Raise, readerVars
    <3> QED
      BY <3>1, <2>1, <3>2, EndTypes DEF Outcome, Types
  <2>5. CASE Deliver \/ Converge \/ GiveUp
    BY <2>1, <2>5 DEF Deliver, Converge, GiveUp, readerVars
  <2> QED
    BY <2>1, <2>2, <2>3, <2>4, <2>5 DEF WorkflowNext, Built, Next, Validate, Answers, Over, vars, allVars
<1> QED
  BY <1>1, <1>2 DEF Types

LEMMA TypesStep ==
  ASSUME Types, [WorkflowNext]_allVars
  PROVE  Types'
<1>1. ASSUME NEW x \in DOMAIN execs, Begin(x) PROVE Types'
  <2>1. EngineTypes' /\ UNCHANGED <<steps, queue, seen, run, reader>>
    BY <1>1, BeginTypes DEF Begin, readerVars, Types
  <2> QED
    BY <2>1, GraphStays DEF Types, ReaderTypes
<1>2. CASE Deliver
  <2>1. EngineTypes' /\ UNCHANGED <<steps, queue, seen, run, reader>>
    BY <1>2, DeliverTypes DEF Types
  <2> QED
    BY <2>1, GraphStays DEF Types, ReaderTypes
<1> QED
  BY <1>1, <1>2, EndTypes, EngineCases, QuietTypes

LEMMA TypesAlways == WorkflowSpec => []Types
<1>1. WorkflowInit \/ AgentRuns => Types
  BY TypesInit DEF WorkflowInit, AgentRuns
<1> QED
  BY <1>1, TypesStep, PTL DEF WorkflowSpec

\* Engine and reader keep their types: every message names steps of the workflow
\* only, every execution has the message it works on, and the supersteps stay
\* within their limit.
THEOREM TypeCorrect == WorkflowSpec => []TypeOK
<1>1. Types => TypeOK
  <2> SUFFICES ASSUME Types PROVE TypeOK
    OBVIOUS
  <2>1. \A x \in DOMAIN execs :
          /\ execs[x].node \in Nodes
          /\ execs[x].from \subseteq 1..(x - 1)
          /\ execs[x].obj \in 0..Len(heap)
          /\ execs[x].state \in {"ready", "running", "done"}
    <3> SUFFICES ASSUME NEW x \in DOMAIN execs
                 PROVE  /\ execs[x].node \in Nodes
                        /\ execs[x].from \subseteq 1..(x - 1)
                        /\ execs[x].obj \in 0..Len(heap)
                        /\ execs[x].state \in {"ready", "running", "done"}
      OBVIOUS
    <3>1. execs[x] \in ExecRecords /\ Len(heap) \in Nat /\ execs[x].obj <= Len(heap)
          /\ execs[x].from \subseteq {y \in Done : y < x} /\ x \in Nat
          /\ \A y \in Done : y \in Nat /\ y >= 1
      BY DEF Types, EngineTypes, Done
    <3> QED
      BY <3>1 DEF ExecRecords
  <2>2. \A o \in DOMAIN heap :
          heap[o].done \cup heap[o].failed \cup heap[o].skipped \subseteq Nodes
    <3>1. \A o \in DOMAIN heap : heap[o] \in Messages
      BY DEF Types, EngineTypes
    <3> QED
      BY <3>1 DEF Messages
  <2>3. Done \subseteq DOMAIN execs
    BY DEF Done
  <2> QED
    BY <2>1, <2>2, <2>3 DEF Types, EngineTypes, ReaderTypes, TypeOK, Results
<1> QED
  BY <1>1, TypesAlways, PTL

--------------------------------------------------------------------------------
(* Turns: joins and branches *)

LEMMA ShapeStays ==
  ASSUME UNCHANGED steps
  PROVE  /\ FirstOutput' = FirstOutput /\ Conditions' = Conditions /\ Nodes' = Nodes
         /\ StartNode' = StartNode
         /\ \A n : /\ Deps(n)' = Deps(n) /\ Downstream(n)' = Downstream(n)
                   /\ IsFanIn(n)' <=> IsFanIn(n)
                   /\ DefaultTarget(n)' = DefaultTarget(n) /\ Labels(n)' = Labels(n)
                   /\ Kind(n)' = Kind(n)
<1>1. Nodes' = Nodes /\ \A n : Deps(n)' = Deps(n) /\ Kind(n)' = Kind(n) /\ Labels(n)' = Labels(n)
  BY DEF Nodes, Deps, Kind, Labels
<1>2. \A n : (IsFanIn(n)' <=> IsFanIn(n)) /\ Downstream(n)' = Downstream(n)
  BY <1>1 DEF IsFanIn, Downstream
<1>3. FirstOutput' = FirstOutput /\ StartNode' = StartNode /\ Conditions' = Conditions
  BY <1>1 DEF FirstOutput, StartNode, Conditions
<1>4. \A n, b : CaseTargets(n, b)' = CaseTargets(n, b)
  BY <1>2 DEF CaseTargets
<1>5. \A n : DefaultTarget(n)' = DefaultTarget(n)
  BY <1>2, <1>3, <1>4 DEF DefaultTarget
<1> QED
  BY <1>1, <1>2, <1>3, <1>5

\* The steps that only a fan-in may start.
Gated == {n \in Nodes : IsFanIn(n)} \ ({StartNode} \cup {DefaultTarget(c) : c \in Conditions})

\* What no condition leaves out is settled once it ran, and a gated step got a message
\* of every one of its dependencies.
JoinsAreFull ==
    /\ \A x \in Done : steps[execs[x].node].branch = NoBranch => Settled(execs[x].node)
    /\ \A x \in DOMAIN execs : execs[x].node \in Gated =>
          {execs[y].node : y \in execs[x].from} = Deps(execs[x].node)

\* A step that only a condition leads to.
Branch(n, c) ==
    /\ Deps(n) = {c} /\ steps[n].branch \in Labels(c) \ {NoBranch}
    /\ n \notin {StartNode, FirstOutput}

\* It works on the object of an execution of that condition, which chose its branch; a
\* second one may choose anew on the same object.
BranchesAreChosen ==
    \A x \in DOMAIN execs : \A c \in Conditions : Branch(execs[x].node, c) =>
        \E p \in Done :
            /\ execs[p].node = c /\ execs[x].obj = execs[p].obj
            /\ (\A y \in DOMAIN execs : execs[y].node = c => y = p) =>
                  heap[execs[p].obj].choice[c] = steps[execs[x].node].branch

InTurn == JoinsAreFull /\ BranchesAreChosen

LEMMA TurnsStay ==
  ASSUME UNCHANGED steps
  PROVE  Gated' = Gated /\ \A n, c : Branch(n, c)' <=> Branch(n, c)
<1>1. \A n, c : Branch(n, c)' <=> Branch(n, c)
  BY ShapeStays DEF Branch
<1>2. {DefaultTarget(c) : c \in Conditions}' = {DefaultTarget(c) : c \in Conditions}
  BY ShapeStays
<1> QED
  BY <1>1, <1>2, ShapeStays DEF Gated

LEMMA InTurnInit == Init => InTurn
<1> SUFFICES ASSUME Init PROVE InTurn
  OBVIOUS
<1>1. DOMAIN execs = {1} /\ execs[1].node = StartNode /\ Done = {}
  BY DEF Init, Execution, Done
<1> QED
  BY <1>1 DEF InTurn, JoinsAreFull, BranchesAreChosen, Gated, Branch

LEMMA OneSource ==
  ASSUME NEW n, NEW c, Deps(n) = {c}
  PROVE  ~IsFanIn(n)
<1>1. Cardinality({c}) = 1
  BY FS_Singleton
<1>2. ~(1 > 1)
  OBVIOUS
<1> QED
  BY <1>1, <1>2 DEF IsFanIn

\* Only a switch without a case for the choice hands its message to a gated step.
LEMMA SinglesTurn ==
  ASSUME EngineTypes, NEW p \in Singles
  PROVE  /\ p[2] \notin Gated
         /\ \A c \in Conditions : Branch(p[2], c) =>
               execs[p[1]].node = c /\ heap[execs[p[1]].obj].choice[c] = steps[p[2]].branch
<1> DEFINE d == execs[p[1]].node
           n == p[2]
           b == heap[execs[p[1]].obj].choice[d]
<1>1. steps \in Workflows /\ d \in Nodes /\ n \in Nodes
      /\ n \in Receivers(d, execs[p[1]].obj)
  <2>1. p[1] \in sent /\ n \in Nodes /\ n \in Receivers(d, execs[p[1]].obj)
    BY DEF Singles
  <2>2. execs[p[1]] \in ExecRecords /\ steps \in Workflows
    BY <2>1 DEF EngineTypes, Done
  <2> QED
    BY <2>1, <2>2 DEF ExecRecords
<1>2. CASE Kind(d) # "condition"
  <2>1. n \in Downstream(d) /\ ~IsFanIn(n) /\ d \notin Conditions
    BY <1>1, <1>2 DEF Receivers, Conditions
  <2> QED
    BY <2>1 DEF Gated, Branch, Downstream
<1>3. CASE Kind(d) = "condition"
  <2>1. n = SwitchTarget(d, b) /\ d \in Conditions
    BY <1>1, <1>3 DEF Receivers, Conditions
  <2>2. n \notin Gated
    BY <1>1, <2>1, SwitchLeads DEF Gated
  <2>3. ASSUME NEW c \in Conditions, Branch(n, c)
        PROVE  d = c /\ b = steps[n].branch
    <3>1. /\ Deps(n) = {c} /\ n # FirstOutput
          /\ steps[n].branch \in Labels(c) /\ steps[n].branch # NoBranch
      BY <2>3 DEF Branch
    <3>2. n \in Downstream(d)
      BY <1>1, <2>1, <3>1, SwitchLeads, ZenonT(40)
    <3>3. d = c
      BY <3>1, <3>2 DEF Downstream
    <3>4. ~IsFanIn(n)
      BY <3>1, OneSource
    <3>5. n \in CaseTargets(c, steps[n].branch)
      BY <3>1, <3>2, <3>3, <3>4 DEF CaseTargets
    <3> QED
      BY <1>1, <2>1, <3>1, <3>3, <3>5, SwitchLeads, ZenonT(40)
  <2> QED
    BY <2>2, <2>3
<1> QED
  BY <1>2, <1>3

LEMMA InTurnBegin ==
  ASSUME Types, InTurn, NEW x \in DOMAIN execs, Begin(x)
  PROVE  InTurn'
<1>1. /\ Done' = Done /\ DOMAIN execs' = DOMAIN execs
      /\ \A y \in DOMAIN execs : execs'[y].node = execs[y].node /\ execs'[y].from = execs[y].from
      /\ \A o \in DOMAIN heap : o \in DOMAIN heap' /\ heap'[o] = heap[o]
      /\ \A y \in DOMAIN execs : execs[y].obj # 0 => execs'[y].obj = execs[y].obj
  BY BeginTypes DEF Types
<1>2. UNCHANGED <<steps, result>> /\ Gated' = Gated /\ \A n, c : Branch(n, c)' <=> Branch(n, c)
  BY TurnsStay DEF Begin
<1>3. JoinsAreFull'
  <2>1. \A z \in Done : z \in DOMAIN execs
    BY DEF Done
  <2>2. ASSUME NEW y \in DOMAIN execs
        PROVE  {execs'[z].node : z \in execs'[y].from} = {execs[z].node : z \in execs[y].from}
    <3>1. execs[y].from \subseteq DOMAIN execs
      BY <2>1 DEF Types, EngineTypes
    <3> QED
      BY <1>1, <3>1
  <2>3. \A n : Deps(n)' = Deps(n)
    BY <1>2, ShapeStays
  <2> QED
    BY <1>1, <1>2, <2>1, <2>2, <2>3 DEF InTurn, JoinsAreFull, Settled
<1>4. BranchesAreChosen'
  <2> SUFFICES ASSUME NEW y \in DOMAIN execs, NEW c \in Conditions, Branch(execs[y].node, c)
               PROVE  \E p \in Done' :
                        /\ execs'[p].node = c /\ execs'[y].obj = execs'[p].obj
                        /\ (\A z \in DOMAIN execs' : execs'[z].node = c => z = p) =>
                              heap'[execs'[p].obj].choice[c] = steps'[execs'[y].node].branch
    BY <1>1, <1>2, ShapeStays DEF BranchesAreChosen
  <2>1. PICK p \in Done :
            /\ execs[p].node = c /\ execs[y].obj = execs[p].obj
            /\ (\A z \in DOMAIN execs : execs[z].node = c => z = p) =>
                  heap[execs[p].obj].choice[c] = steps[execs[y].node].branch
    BY DEF InTurn, BranchesAreChosen
  <2>2. p \in DOMAIN execs /\ execs[p].obj \in DOMAIN heap /\ execs[p].obj # 0
    <3>1. p \in DOMAIN execs /\ execs[p] \in ExecRecords /\ execs[p].obj # 0 /\ execs[p].obj <= Len(heap)
          /\ heap \in Seq(Messages)
      BY DEF Done, Types, EngineTypes
    <3> QED
      BY <3>1 DEF ExecRecords
  <2>3. execs'[y].obj = execs[y].obj /\ execs'[p].obj = execs[p].obj
    BY <1>1, <2>1, <2>2
  <2> QED
    BY <1>1, <1>2, <2>1, <2>2, <2>3
<1> QED
  BY <1>3, <1>4 DEF InTurn

LEMMA InTurnEnds ==
  ASSUME Types, InTurn, NEW x \in DOMAIN execs, NEW m \in Messages,
         NEW event \in {"node_complete", "node_error"}, NEW out \in SUBSET Nodes,
         Ends(x, m, event, out)
  PROVE  InTurn'
<1> DEFINE n == execs[x].node
<1>1. /\ Done' = Done \cup {x} /\ DOMAIN execs' = DOMAIN execs
      /\ \A y \in DOMAIN execs : execs'[y].node = execs[y].node /\ execs'[y].from = execs[y].from
                                 /\ execs'[y].obj = execs[y].obj
      /\ execs[x].obj \in DOMAIN heap /\ DOMAIN heap' = DOMAIN heap
      /\ \A o \in DOMAIN heap : heap'[o] = IF o = execs[x].obj THEN m ELSE heap[o]
      /\ UNCHANGED steps
  <2>1. Closes(x, m, event) /\ result' \in [Nodes -> Results]
    BY DEF Ends
  <2>2. Closed(x, m, event)
    BY <2>1, CloseTypes
  <2> QED
    BY <2>2 DEF Closed
<1>2. Gated' = Gated /\ Conditions' = Conditions /\ (\A k, c : Branch(k, c)' <=> Branch(k, c))
      /\ \A k : Deps(k)' = Deps(k)
  BY <1>1, TurnsStay, ShapeStays
<1>3. /\ result'[n] \in {"completed", "failed"}
      /\ \A k \in Nodes \ {n} : k \notin out => result'[k] = result[k]
      /\ \A k \in out : steps[k].branch # NoBranch
      /\ \A c \in Nodes : c # n \/ n \notin Conditions => m.choice[c] = heap[execs[x].obj].choice[c]
  BY DEF Ends
<1>4. x \notin Done /\ Done \subseteq DOMAIN execs /\ \A y \in DOMAIN execs : execs[y].node \in Nodes
  <2>1. \A y \in DOMAIN execs : execs[y] \in ExecRecords
    BY DEF Types, EngineTypes
  <2>2. execs[x].state = "running"
    BY DEF Ends, Closes
  <2> QED
    BY <2>1, <2>2 DEF Done, ExecRecords
<1>5. JoinsAreFull'
  <2>1. ASSUME NEW y \in Done \cup {x}, steps[execs[y].node].branch = NoBranch
        PROVE  result'[execs[y].node] \in {"completed", "failed"}
    <3>1. CASE execs[y].node = n
      BY <1>3, <3>1
    <3>2. CASE execs[y].node # n
      <4>1. y \in Done /\ execs[y].node \notin out /\ execs[y].node \in Nodes
        BY <1>3, <1>4, <2>1, <3>2
      <4>2. result[execs[y].node] \in {"completed", "failed"}
        BY <2>1, <4>1 DEF InTurn, JoinsAreFull, Settled
      <4> QED
        BY <1>3, <3>2, <4>1, <4>2
    <3> QED
      BY <3>1, <3>2
  <2>2. ASSUME NEW y \in DOMAIN execs
        PROVE  {execs'[z].node : z \in execs'[y].from} = {execs[z].node : z \in execs[y].from}
    <3>1. execs[y].from \subseteq DOMAIN execs
      BY <1>4 DEF Types, EngineTypes
    <3> QED
      BY <1>1, <3>1
  <2> QED
    BY <1>1, <1>2, <1>4, <2>1, <2>2 DEF InTurn, JoinsAreFull, Settled
<1>6. BranchesAreChosen'
  <2> SUFFICES ASSUME NEW y \in DOMAIN execs, NEW c \in Conditions, Branch(execs[y].node, c)
               PROVE  \E p \in Done' :
                        /\ execs'[p].node = c /\ execs'[y].obj = execs'[p].obj
                        /\ (\A z \in DOMAIN execs' : execs'[z].node = c => z = p) =>
                              heap'[execs'[p].obj].choice[c] = steps'[execs'[y].node].branch
    BY <1>1, <1>2 DEF BranchesAreChosen
  <2>1. PICK p \in Done :
            /\ execs[p].node = c /\ execs[y].obj = execs[p].obj
            /\ (\A z \in DOMAIN execs : execs[z].node = c => z = p) =>
                  heap[execs[p].obj].choice[c] = steps[execs[y].node].branch
    BY DEF InTurn, BranchesAreChosen
  <2>2. p \in DOMAIN execs /\ execs[p].obj \in DOMAIN heap /\ c \in Nodes
    <3>1. p \in DOMAIN execs /\ execs[p] \in ExecRecords /\ execs[p].obj # 0 /\ execs[p].obj <= Len(heap)
          /\ heap \in Seq(Messages)
      BY DEF Done, Types, EngineTypes
    <3> QED
      BY <3>1 DEF ExecRecords, Conditions
  <2>3. ASSUME \A z \in DOMAIN execs : execs[z].node = c => z = p
        PROVE  heap'[execs[p].obj].choice[c] = steps[execs[y].node].branch
    <3>1. heap[execs[p].obj].choice[c] = steps[execs[y].node].branch
      BY <2>1, <2>3
    <3>2. n # c
      BY <1>4, <2>3
    <3> QED
      BY <1>1, <1>3, <2>2, <3>1, <3>2
  <2> QED
    BY <1>1, <2>1, <2>2, <2>3
<1> QED
  BY <1>5, <1>6 DEF InTurn

LEMMA InTurnDeliver ==
  ASSUME Types, InTurn, Deliver
  PROVE  InTurn'
<1>1. /\ UNCHANGED <<steps, heap, result>> /\ Done' = Done
      /\ \A y \in DOMAIN execs : y \in DOMAIN execs' /\ execs'[y] = execs[y]
      /\ \A y \in DOMAIN execs' : y \in DOMAIN execs \/ execs'[y] \in Added
  BY DeliverTypes DEF Types
<1>2. Gated' = Gated /\ Conditions' = Conditions /\ (\A k, c : Branch(k, c)' <=> Branch(k, c))
      /\ \A k : Deps(k)' = Deps(k)
  BY <1>1, TurnsStay, ShapeStays
<1>3. Done \subseteq DOMAIN execs /\ sent \subseteq Done /\ \A n \in Nodes : Gathered(n) \subseteq DOMAIN execs
  BY DEF Done, Types, EngineTypes, Gathered
<1>4. \A y \in DOMAIN execs' : \/ y \in DOMAIN execs
                               \/ \E p \in Singles : execs'[y] = Single(p)
                               \/ \E n \in Joins : execs'[y] = Joining(n)
  BY <1>1 DEF Added
<1>5. JoinsAreFull'
  <2>1. ASSUME NEW y \in DOMAIN execs', execs'[y].node \in Gated
        PROVE  {execs'[z].node : z \in execs'[y].from} = Deps(execs'[y].node)
    <3>1. CASE y \in DOMAIN execs
      <4>1. execs[y].from \subseteq DOMAIN execs
        BY <1>3, <3>1 DEF Types, EngineTypes
      <4> QED
        BY <1>1, <2>1, <3>1, <4>1 DEF InTurn, JoinsAreFull
    <3>2. ASSUME NEW p \in Singles, execs'[y] = Single(p) PROVE FALSE
      BY <2>1, <3>2, SinglesTurn DEF Single, Execution, Types
    <3>3. ASSUME NEW n \in Joins, execs'[y] = Joining(n)
          PROVE  {execs'[z].node : z \in execs'[y].from} = Deps(execs'[y].node)
      <4>1. execs'[y].node = n /\ execs'[y].from = Gathered(n) /\ n \in Nodes
            /\ {execs[z].node : z \in Gathered(n)} = Deps(n)
        BY <3>3 DEF Joins, Joining, Execution, Full
      <4> QED
        BY <1>1, <1>3, <4>1
    <3> QED
      BY <1>4, <3>1, <3>2, <3>3
  <2> QED
    BY <1>1, <1>2, <1>3, <2>1 DEF InTurn, JoinsAreFull, Settled
<1>6. BranchesAreChosen'
  <2> SUFFICES ASSUME NEW y \in DOMAIN execs', NEW c \in Conditions, Branch(execs'[y].node, c)
               PROVE  \E p \in Done :
                        /\ execs'[p].node = c /\ execs'[y].obj = execs'[p].obj
                        /\ (\A z \in DOMAIN execs' : execs'[z].node = c => z = p) =>
                              heap[execs'[p].obj].choice[c] = steps[execs'[y].node].branch
    BY <1>1, <1>2 DEF BranchesAreChosen
  <2>1. CASE y \in DOMAIN execs
    <3>1. PICK p \in Done :
            /\ execs[p].node = c /\ execs[y].obj = execs[p].obj
            /\ (\A z \in DOMAIN execs : execs[z].node = c => z = p) =>
                  heap[execs[p].obj].choice[c] = steps[execs[y].node].branch
      BY <1>1, <2>1 DEF InTurn, BranchesAreChosen
    <3> QED
      BY <1>1, <1>3, <2>1, <3>1
  <2>2. ASSUME NEW p \in Singles, execs'[y] = Single(p)
        PROVE  /\ p[1] \in Done /\ execs'[p[1]].node = c /\ execs'[y].obj = execs'[p[1]].obj
               /\ heap[execs'[p[1]].obj].choice[c] = steps[execs'[y].node].branch
    <3>1. p[1] \in sent /\ execs'[y].node = p[2] /\ execs'[y].obj = execs[p[1]].obj
      BY <2>2 DEF Singles, Single, Execution
    <3> QED
      BY <1>1, <1>3, <3>1, SinglesTurn DEF Types
  <2>3. ASSUME NEW n \in Joins, execs'[y] = Joining(n) PROVE FALSE
    <3>1. IsFanIn(n) /\ Deps(n) = {c}
      BY <2>3 DEF Joins, Joining, Execution, Full, Branch
    <3> QED
      BY <3>1, OneSource
  <2> QED
    BY <1>4, <2>1, <2>2, <2>3
<1> QED
  BY <1>5, <1>6 DEF InTurn

LEMMA InTurnStep ==
  ASSUME Types, InTurn, [WorkflowNext]_allVars
  PROVE  InTurn'
<1>1. ASSUME NEW x \in DOMAIN execs,
             Complete(x) \/ Fail(x) \/ \E b \in Labels(execs[x].node) : Choose(x, b)
      PROVE  InTurn'
  <2>1. PICK m \in Messages, event \in {"node_complete", "node_error"}, out \in SUBSET Nodes :
             Ends(x, m, event, out)
    BY <1>1, HandlerEnds DEF Types
  <2> QED
    BY <2>1, InTurnEnds
<1>2. CASE UNCHANGED <<steps, execs, heap, result>>
  <2>1. Gated' = Gated /\ Conditions' = Conditions /\ (\A k, c : Branch(k, c)' <=> Branch(k, c))
      /\ \A k : Deps(k)' = Deps(k)
    BY <1>2, TurnsStay, ShapeStays
  <2>2. JoinsAreFull'
    BY <1>2, <2>1 DEF InTurn, JoinsAreFull, Done, Settled
  <2>3. BranchesAreChosen'
    BY <1>2, <2>1 DEF InTurn, BranchesAreChosen, Done
  <2> QED
    BY <2>2, <2>3 DEF InTurn
<1> QED
  BY <1>1, <1>2, EngineCases, InTurnBegin, InTurnDeliver

\* Two executions of a step are more than one.
LEMMA OnceIsUnique ==
  ASSUME EngineTypes, NEW c, Cardinality(Executions(c)) <= 1,
         NEW x \in Executions(c), NEW y \in Executions(c)
  PROVE  x = y
<1>1. IsFiniteSet(Executions(c))
  <2>1. IsFiniteSet(1..Len(execs)) /\ Executions(c) \in SUBSET (1..Len(execs))
    BY FS_Interval DEF EngineTypes, Executions
  <2> QED
    BY <2>1, FS_Subset
<1>2. SUFFICES ASSUME x # y PROVE FALSE
  OBVIOUS
<1>3. IsFiniteSet({x}) /\ Cardinality({x}) = 1
  BY FS_Singleton
<1>4. Cardinality({x} \cup {y}) = 2
  BY <1>2, <1>3, FS_AddElement
<1>5. Cardinality({x} \cup {y}) <= Cardinality(Executions(c)) /\ Cardinality(Executions(c)) \in Nat
  <2>1. {x} \cup {y} \in SUBSET Executions(c)
    OBVIOUS
  <2> QED
    BY <1>1, <2>1, FS_Subset, FS_CardinalityType
<1> QED
  BY <1>4, <1>5

LEMMA InTurnTells ==
  ASSUME Types, InTurn
  PROVE  RunsWhenDue
<1>1. JoinWaitsForAll
  <2> SUFFICES ASSUME NEW n \in Nodes \ ({StartNode} \cup {DefaultTarget(c) : c \in Conditions}),
                      IsFanIn(n), Executions(n) # {}, NEW d \in Deps(n)
               PROVE  Settled(d)
    BY DEF JoinWaitsForAll
  <2>1. PICK x \in DOMAIN execs : execs[x].node = n
    BY DEF Executions
  <2>2. {execs[y].node : y \in execs[x].from} = Deps(n)
    BY <2>1 DEF InTurn, JoinsAreFull, Gated
  <2>3. PICK y \in execs[x].from : execs[y].node = d
    BY <2>2
  <2>4. y \in Done
    BY <2>3 DEF Types, EngineTypes
  <2>5. steps[d].branch = NoBranch
    BY DEF IsFanIn
  <2> QED
    BY <2>3, <2>4, <2>5 DEF InTurn, JoinsAreFull
<1>2. BranchRespected
  <2> SUFFICES ASSUME NEW x \in DOMAIN execs, NEW c \in Conditions, Branch(execs[x].node, c),
                      Cardinality(Executions(c)) <= 1
               PROVE  heap[execs[x].obj].choice[c] = steps[execs[x].node].branch
    BY DEF BranchRespected, Branch
  <2>1. PICK p \in Done :
            /\ execs[p].node = c /\ execs[x].obj = execs[p].obj
            /\ (\A z \in DOMAIN execs : execs[z].node = c => z = p) =>
                  heap[execs[p].obj].choice[c] = steps[execs[x].node].branch
    BY DEF InTurn, BranchesAreChosen
  <2>2. \A z \in DOMAIN execs : execs[z].node = c => z = p
    BY <2>1, OnceIsUnique DEF Types, Executions, Done
  <2> QED
    BY <2>1, <2>2
<1> QED
  BY <1>1, <1>2 DEF RunsWhenDue

\* No step runs before its turn: a join that build_maf_workflow gives a fan-in runs
\* when every dependency has completed or failed, and the target of a branch when
\* the condition chose it.
THEOREM TurnsKept == WorkflowSpec => []RunsWhenDue
<1>1. WorkflowInit \/ AgentRuns => InTurn
  BY InTurnInit DEF WorkflowInit, AgentRuns
<1>2. Types /\ InTurn /\ [WorkflowNext]_allVars => InTurn'
  BY InTurnStep
<1>3. Types /\ InTurn => RunsWhenDue
  BY InTurnTells
<1> QED
  BY <1>1, <1>2, <1>3, TypesAlways, PTL DEF WorkflowSpec

--------------------------------------------------------------------------------
(* Once: workflows without conditions *)

Acyclic == \A S \in SUBSET Nodes : S # {} => \E n \in S : Deps(n) \cap S = {}

\* The messages that got to n's edges, an End's own not among them.
Heard(n) == {x \in Done \ sent : execs[x].node \in Deps(n) /\ Kind(execs[x].node) # "end"}

\* Every execution but the first has one message of each dependency, and each message
\* is used up or waits in the fan-in of a step that has not run, short of a source.
EachOnce ==
    /\ 1 \in DOMAIN execs /\ execs[1].node = StartNode
    /\ \A x \in DOMAIN execs \ {1} :
          execs[x].from # {} /\ {execs[z].node : z \in execs[x].from} = Deps(execs[x].node)
    /\ \A x, y \in DOMAIN execs : execs[x].node = execs[y].node => x = y
    /\ \A x \in DOMAIN execs : execs[x].from \cap sent = {}

Waiting ==
    /\ \A n \in Nodes : buffer[n] \cap sent = {} /\ \A x \in buffer[n] : execs[x].node \in Deps(n)
    /\ \A n \in Nodes : Executions(n) = {} =>
          IF IsFanIn(n)
          THEN Heard(n) \subseteq buffer[n] /\ {execs[x].node : x \in buffer[n]} # Deps(n)
          ELSE Heard(n) = {}

AtRest == engine = "converged" => sent = {} /\ Done = DOMAIN execs

LEMMA AcyclicHolds ==
  ASSUME Search!AcceptedIsAcyclic, verdict = "valid"
  PROVE  Acyclic
<1> SUFFICES ASSUME NEW S \in SUBSET Nodes, S # {}
             PROVE  \E n \in S : Deps(n) \cap S = {}
  BY DEF Acyclic
<1>1. ~Search!HasCycle
  BY DEF Search!AcceptedIsAcyclic
<1>2. PICK n \in S : Adjacent[n] \cap S = {}
  BY <1>1 DEF Search!HasCycle
<1> QED
  BY <1>2 DEF Adjacent, Deps

LEMMA OnceInit ==
  Init => (EachOnce /\ Waiting)
<1> SUFFICES ASSUME Init PROVE EachOnce /\ Waiting
  OBVIOUS
<1>1. DOMAIN execs = {1} /\ execs[1].node = StartNode /\ execs[1].from = {} /\ Done = {}
      /\ sent = {} /\ buffer = [n \in Nodes |-> {}]
  BY DEF Init, Execution, Done
<1>2. EachOnce
  BY <1>1 DEF EachOnce
<1>3. \A n \in Nodes : IsFanIn(n) => Deps(n) # {}
  <2>1. Cardinality({}) = 0 /\ ~(0 > 1)
    BY FS_EmptySet
  <2> QED
    BY <2>1 DEF IsFanIn
<1>4. Waiting
  BY <1>1, <1>3 DEF Waiting, Heard
<1> QED
  BY <1>2, <1>4

\* Nothing that ran leads back to where the run started.
LEMMA StartOnce ==
  ASSUME EngineTypes, EachOnce, Acyclic
  PROVE  \A x \in DOMAIN execs : execs[x].node \notin Deps(StartNode)
<1> DEFINE S == {execs[x].node : x \in DOMAIN execs}
<1>1. \A x \in DOMAIN execs : execs[x].node \in Nodes
  <2>1. \A x \in DOMAIN execs : execs[x] \in ExecRecords
    BY DEF EngineTypes
  <2> QED
    BY <2>1 DEF ExecRecords
<1>2. S \in SUBSET Nodes /\ S # {}
  BY <1>1 DEF EachOnce
<1>3. PICK n \in S : Deps(n) \cap S = {}
  BY <1>2 DEF Acyclic
<1>4. PICK x \in DOMAIN execs : n = execs[x].node
  BY <1>3
<1>5. CASE x # 1
  <2>1. PICK z \in execs[x].from : execs[z].node \in Deps(n)
    BY <1>4, <1>5 DEF EachOnce
  <2>2. z \in DOMAIN execs
    BY <2>1 DEF EngineTypes, Done
  <2> QED
    BY <1>3, <2>1, <2>2
<1>6. CASE x = 1
  BY <1>3, <1>4, <1>6 DEF EachOnce
<1> QED
  BY <1>5, <1>6

\* Without conditions a step that is no fan-in has at most one dependency.
LEMMA SoleSource ==
  ASSUME steps \in Workflows, Unconditional, NEW n \in Nodes, ~IsFanIn(n), NEW d \in Deps(n)
  PROVE  Deps(n) = {d}
<1>1. \A e \in Deps(n) : e \in Nodes /\ steps[e].branch = NoBranch
  BY DEF Unconditional, Deps
<1>2. IsFiniteSet(Deps(n))
  BY NodesAreNumbers, FS_Subset DEF Deps
<1>3. Cardinality(Deps(n)) \in Nat /\ ~(Cardinality(Deps(n)) > 1)
  BY <1>1, <1>2, FS_CardinalityType DEF IsFanIn
<1>4. SUFFICES ASSUME NEW e \in Deps(n), e # d PROVE FALSE
  OBVIOUS
<1>5. Cardinality({d} \cup {e}) = 2
  <2>1. IsFiniteSet({d}) /\ Cardinality({d}) = 1 /\ e \notin {d}
    BY <1>4, FS_Singleton
  <2> QED
    BY <2>1, FS_AddElement, SMTT(30)
<1>6. Cardinality({d} \cup {e}) <= Cardinality(Deps(n))
  <2>1. {d} \cup {e} \in SUBSET Deps(n)
    OBVIOUS
  <2> QED
    BY <1>2, <2>1, FS_Subset
<1> QED
  BY <1>3, <1>5, <1>6

\* What a round of deliveries adds, without conditions.
LEMMA AddedOnce ==
  ASSUME EngineTypes, EachOnce, Waiting, Unconditional, Acyclic, NEW e \in Added
  PROVE  /\ e.node \in Nodes /\ e.from # {} /\ e.from \subseteq Done
         /\ {execs[z].node : z \in e.from} = Deps(e.node)
         /\ Executions(e.node) = {}
         /\ \A f \in Added : f.node = e.node => f = e
<1>1. /\ sent \subseteq DOMAIN execs /\ sent \subseteq Done /\ steps \in Workflows
      /\ \A n \in Nodes : buffer[n] \subseteq Done
      /\ \A y \in DOMAIN execs : execs[y].from \subseteq DOMAIN execs
      /\ \A y \in DOMAIN execs : execs[y].node \in Nodes
  <2>1. \A y \in DOMAIN execs : execs[y] \in ExecRecords
    BY DEF EngineTypes
  <2> QED
    BY <2>1 DEF EngineTypes, Done, ExecRecords
<1>2. ASSUME NEW p \in Singles
      PROVE  /\ p[1] \in sent /\ p[2] \in Nodes /\ ~IsFanIn(p[2])
             /\ Deps(p[2]) = {execs[p[1]].node}
             /\ Single(p).node = p[2] /\ Single(p).from = {p[1]} /\ Single(p).obj = execs[p[1]].obj
  <2>1. p[1] \in sent /\ p[2] \in Nodes /\ p[2] \in Receivers(execs[p[1]].node, execs[p[1]].obj)
    BY DEF Singles
  <2>2. p[2] \in Downstream(execs[p[1]].node) /\ ~IsFanIn(p[2])
    BY <2>1, <1>1 DEF Receivers, Unconditional, Conditions
  <2>3. Deps(p[2]) = {execs[p[1]].node}
    BY <2>1, <2>2, <1>1, SoleSource DEF Downstream
  <2> QED
    BY <2>1, <2>2, <2>3 DEF Single, Execution
<1>3. ASSUME NEW n \in Joins
      PROVE  /\ n \in Nodes /\ IsFanIn(n) /\ {execs[x].node : x \in Gathered(n)} = Deps(n)
             /\ Gathered(n) \subseteq Done
             /\ \E x \in sent : execs[x].node \in Deps(n) /\ x \in Gathered(n)
             /\ Joining(n).node = n /\ Joining(n).from = Gathered(n)
  BY <1>1 DEF Joins, Full, Gathered, Joining, Execution
<1>4. ASSUME NEW n \in Nodes, NEW x \in sent, execs[x].node \in Deps(n)
      PROVE  Executions(n) = {}
  <2>1. SUFFICES ASSUME NEW y \in DOMAIN execs, execs[y].node = n PROVE FALSE
    BY DEF Executions
  <2>2. y # 1
    BY <1>1, <1>4, <2>1, StartOnce DEF EachOnce
  <2>3. PICK z \in execs[y].from : execs[z].node = execs[x].node
    BY <1>4, <2>1, <2>2 DEF EachOnce
  <2>4. z = x
    BY <1>1, <2>1, <2>3 DEF EachOnce
  <2> QED
    BY <2>1, <2>3, <2>4 DEF EachOnce
<1>5. ASSUME NEW p \in Singles, e = Single(p)
      PROVE  /\ e.node \in Nodes /\ e.from # {} /\ e.from \subseteq Done
             /\ {execs[z].node : z \in e.from} = Deps(e.node)
             /\ Executions(e.node) = {}
             /\ \A f \in Added : f.node = e.node => f = e
  <2>1. \A f \in Added : f.node = e.node => f = e
    <3> SUFFICES ASSUME NEW f \in Added, f.node = e.node PROVE f = e
      OBVIOUS
    <3>1. \A n \in Joins : f # Joining(n)
      BY <1>2, <1>3, <1>5
    <3>2. PICK q \in Singles : f = Single(q)
      BY <3>1 DEF Added
    <3>3. q[2] = p[2] /\ execs[q[1]].node = execs[p[1]].node
      <4>1. Single(q).node = q[2] /\ Single(p).node = p[2]
        BY <1>2
      <4>2. q[2] = p[2]
        BY <1>5, <3>2, <4>1
      <4>3. Deps(q[2]) = {execs[q[1]].node} /\ Deps(p[2]) = {execs[p[1]].node}
        BY <1>2
      <4> QED
        BY <4>2, <4>3
    <3>4. q[1] = p[1]
      BY <1>1, <1>2, <3>3 DEF EachOnce
    <3> QED
      BY <1>5, <3>2, <3>3, <3>4 DEF Single
  <2>2. Executions(e.node) = {}
    BY <1>2, <1>4, <1>5
  <2> QED
    BY <1>1, <1>2, <1>5, <2>1, <2>2
<1>6. ASSUME NEW n \in Joins, e = Joining(n)
      PROVE  /\ e.node \in Nodes /\ e.from # {} /\ e.from \subseteq Done
             /\ {execs[z].node : z \in e.from} = Deps(e.node)
             /\ Executions(e.node) = {}
             /\ \A f \in Added : f.node = e.node => f = e
  <2>1. \A f \in Added : f.node = e.node => f = e
    <3> SUFFICES ASSUME NEW f \in Added, f.node = e.node PROVE f = e
      OBVIOUS
    <3>1. \A p \in Singles : f # Single(p)
      BY <1>2, <1>3, <1>6
    <3>2. PICK k \in Joins : f = Joining(k)
      BY <3>1 DEF Added
    <3> QED
      BY <1>3, <1>6, <3>2
  <2>2. Executions(e.node) = {}
    BY <1>3, <1>4, <1>6
  <2> QED
    BY <1>3, <1>6, <2>1, <2>2
<1> QED
  BY <1>5, <1>6 DEF Added

LEMMA OnceDeliver ==
  ASSUME Types, EachOnce, Waiting, Unconditional, Acyclic, Deliver
  PROVE  EachOnce' /\ Waiting'
<1>1. /\ UNCHANGED steps /\ sent' = {} /\ Done' = Done
      /\ \A y \in DOMAIN execs : y \in DOMAIN execs' /\ execs'[y] = execs[y]
      /\ \A y \in DOMAIN execs' : y \in DOMAIN execs \/ execs'[y] \in Added
      /\ \A y, z \in DOMAIN execs' \ DOMAIN execs : execs'[y] = execs'[z] => y = z
      /\ \A e \in Added : \E y \in DOMAIN execs' \ DOMAIN execs : execs'[y] = e
      /\ buffer' = [n \in Nodes |-> IF ~IsFanIn(n) \/ n \in Joins THEN {} ELSE Gathered(n)]
  BY DeliverTypes DEF Types
<1>2. /\ Nodes' = Nodes /\ StartNode' = StartNode
      /\ \A k : Deps(k)' = Deps(k) /\ (IsFanIn(k)' <=> IsFanIn(k)) /\ Kind(k)' = Kind(k)
  BY <1>1, ShapeStays
<1>3. /\ Done \subseteq DOMAIN execs /\ sent \subseteq Done
      /\ \A n \in Nodes : buffer[n] \subseteq Done
      /\ \A y \in DOMAIN execs : execs[y].from \subseteq DOMAIN execs
  BY DEF Types, EngineTypes, Done
<1>4. ASSUME NEW e \in Added
      PROVE  /\ e.node \in Nodes /\ e.from # {} /\ e.from \subseteq Done
             /\ {execs[z].node : z \in e.from} = Deps(e.node)
             /\ Executions(e.node) = {}
             /\ \A f \in Added : f.node = e.node => f = e
  BY <1>4, AddedOnce DEF Types
<1>5. EachOnce'
  <2>1. 1 \in DOMAIN execs' /\ execs'[1].node = StartNode'
    BY <1>1, <1>2 DEF EachOnce
  <2>2. ASSUME NEW x \in DOMAIN execs' \ {1}
        PROVE  execs'[x].from # {} /\ {execs'[z].node : z \in execs'[x].from} = Deps(execs'[x].node)
    <3>1. CASE x \in DOMAIN execs
      <4>1. execs[x].from # {} /\ {execs[z].node : z \in execs[x].from} = Deps(execs[x].node)
        BY <2>2, <3>1 DEF EachOnce
      <4>2. {execs'[z].node : z \in execs[x].from} = {execs[z].node : z \in execs[x].from}
        BY <1>1, <1>3, <3>1
      <4> QED
        BY <1>1, <1>2, <3>1, <4>1, <4>2
    <3>2. CASE execs'[x] \in Added
      <4> DEFINE e == execs'[x]
      <4>1. e.from # {} /\ e.from \subseteq Done /\ {execs[z].node : z \in e.from} = Deps(e.node)
        BY <1>4, <3>2
      <4>2. {execs'[z].node : z \in e.from} = {execs[z].node : z \in e.from}
        BY <1>1, <1>3, <4>1
      <4> QED
        BY <1>2, <4>1, <4>2
    <3> QED
      BY <1>1, <2>2, <3>1, <3>2
  <2>3. ASSUME NEW x \in DOMAIN execs', NEW y \in DOMAIN execs', execs'[x].node = execs'[y].node
        PROVE  x = y
    <3>1. CASE x \in DOMAIN execs /\ y \in DOMAIN execs
      BY <1>1, <2>3, <3>1 DEF EachOnce
    <3>2. ASSUME NEW a \in DOMAIN execs, NEW b \in DOMAIN execs' \ DOMAIN execs
          PROVE  execs'[a].node # execs'[b].node
      <4>1. Executions(execs'[b].node) = {}
        BY <1>1, <1>4, <3>2
      <4> QED
        BY <1>1, <4>1 DEF Executions
    <3>3. CASE x \notin DOMAIN execs /\ y \notin DOMAIN execs
      <4>1. execs'[x] \in Added /\ execs'[y] \in Added
        BY <1>1, <2>3, <3>3
      <4>2. execs'[x] = execs'[y]
        BY <1>4, <2>3, <4>1
      <4> QED
        BY <1>1, <2>3, <3>3, <4>2
    <3> QED
      BY <2>3, <3>1, <3>2, <3>3
  <2> QED
    BY <1>1, <1>2, <2>1, <2>2, <2>3 DEF EachOnce
<1>6. Waiting'
  <2>1. ASSUME NEW n \in Nodes, NEW x \in buffer'[n]
        PROVE  execs'[x].node \in Deps(n)
    <3>1. x \in Gathered(n)
      BY <1>1, <2>1
    <3>2. x \in DOMAIN execs /\ execs[x].node \in Deps(n)
      BY <1>3, <3>1 DEF Gathered, Waiting
    <3> QED
      BY <1>1, <3>2
  <2>2. ASSUME NEW n \in Nodes, Executions(n)' = {}
        PROVE  IF IsFanIn(n)
               THEN Heard(n)' \subseteq buffer'[n] /\ {execs'[x].node : x \in buffer'[n]} # Deps(n)
               ELSE Heard(n)' = {}
    <3>1. Executions(n) = {} /\ \A e \in Added : e.node # n
      BY <1>1, <2>2 DEF Executions
    <3>2. Heard(n)' \subseteq {x \in Done : execs[x].node \in Deps(n) /\ Kind(execs[x].node) # "end"}
      BY <1>1, <1>2, <1>3 DEF Heard
    <3>3. CASE IsFanIn(n)
      <4>1. n \notin Joins
        <5>1. ASSUME n \in Joins PROVE Joining(n) \in Added
          BY <5>1 DEF Added
        <5>2. Joining(n).node = n
          BY DEF Joining, Execution
        <5> QED
          BY <3>1, <5>1, <5>2
      <4>2. buffer'[n] = Gathered(n)
        BY <1>1, <3>3, <4>1
      <4>3. Heard(n)' \subseteq Gathered(n)
        BY <3>1, <3>2, <3>3 DEF Gathered, Heard, Waiting
      <4>4. {execs[x].node : x \in Gathered(n)} # Deps(n)
        <5>1. CASE Gathered(n) = buffer[n]
          BY <3>1, <3>3, <5>1 DEF Waiting
        <5>2. CASE ~Full(n)
          BY <3>3, <5>2 DEF Full
        <5> QED
          BY <4>1, <5>1, <5>2 DEF Joins
      <4>5. {execs'[x].node : x \in Gathered(n)} = {execs[x].node : x \in Gathered(n)}
        BY <1>1, <1>3 DEF Gathered
      <4> QED
        BY <3>3, <4>2, <4>3, <4>4, <4>5
    <3>4. CASE ~IsFanIn(n)
      <4>1. ASSUME NEW x \in Heard(n)' PROVE FALSE
        <5>1. x \in Done /\ execs[x].node \in Deps(n) /\ Kind(execs[x].node) # "end"
          BY <3>2, <4>1
        <5>2. x \in sent
          BY <3>1, <3>4, <5>1 DEF Waiting, Heard
        <5>3. <<x, n>> \in Singles
          <6>1. n \in Receivers(execs[x].node, execs[x].obj)
            BY <3>4, <5>1 DEF Receivers, Downstream, Unconditional, Conditions, Deps
          <6> QED
            BY <5>2, <6>1 DEF Singles
        <5>4. Single(<<x, n>>) \in Added /\ Single(<<x, n>>).node = n
          BY <5>3 DEF Added, Single, Execution
        <5> QED
          BY <3>1, <5>4
      <4> QED
        BY <3>4, <4>1
    <3> QED
      BY <3>3, <3>4
  <2> QED
    BY <1>1, <1>2, <2>1, <2>2 DEF Waiting
<1> QED
  BY <1>5, <1>6

LEMMA OnceEnds ==
  ASSUME Types, EachOnce, Waiting, NEW x \in DOMAIN execs, NEW m \in Messages,
         NEW event \in {"node_complete", "node_error"}, NEW out \in SUBSET Nodes,
         Ends(x, m, event, out)
  PROVE  EachOnce' /\ Waiting'
<1>1. /\ Done' = Done \cup {x} /\ DOMAIN execs' = DOMAIN execs /\ UNCHANGED <<steps, buffer>>
      /\ \A y \in DOMAIN execs : execs'[y].node = execs[y].node /\ execs'[y].from = execs[y].from
      /\ sent' = IF Kind(execs[x].node) = "end" THEN sent ELSE sent \cup {x}
  <2>1. Closes(x, m, event) /\ result' \in [Nodes -> Results]
    BY DEF Ends
  <2>2. Closed(x, m, event)
    BY <2>1, CloseTypes
  <2> QED
    BY <2>2 DEF Closed
<1>2. x \notin Done
  BY DEF Ends, Closes, Done
<1>3. /\ Nodes' = Nodes /\ StartNode' = StartNode
      /\ \A k : Deps(k)' = Deps(k) /\ (IsFanIn(k)' <=> IsFanIn(k)) /\ Kind(k)' = Kind(k)
  BY <1>1, ShapeStays
<1>4. /\ Done \subseteq DOMAIN execs /\ sent \subseteq Done
      /\ \A n \in Nodes : buffer[n] \subseteq Done
      /\ \A y \in DOMAIN execs : execs[y].from \subseteq Done
  BY DEF Types, EngineTypes, Done
<1>5. EachOnce'
  <2>1. ASSUME NEW y \in DOMAIN execs
        PROVE  {execs'[z].node : z \in execs'[y].from} = {execs[z].node : z \in execs[y].from}
               /\ execs'[y].from \cap sent' = execs[y].from \cap sent
    BY <1>1, <1>2, <1>4
  <2> QED
    BY <1>1, <1>3, <2>1 DEF EachOnce
<1>6. Waiting'
  <2>1. ASSUME NEW n \in Nodes
        PROVE  /\ buffer'[n] \cap sent' = {} /\ \A y \in buffer'[n] : execs'[y].node \in Deps(n)
               /\ {execs'[y].node : y \in buffer'[n]} = {execs[y].node : y \in buffer[n]}
               /\ Heard(n)' \subseteq Heard(n)
               /\ Executions(n)' = Executions(n)
    <3>1. buffer'[n] \cap sent' = {} /\ \A y \in buffer'[n] : execs'[y].node \in Deps(n)
      BY <1>1, <1>2, <1>4 DEF Waiting
    <3>2. {execs'[y].node : y \in buffer'[n]} = {execs[y].node : y \in buffer[n]}
      BY <1>1, <1>4
    <3>3. Heard(n)' \subseteq Heard(n)
      BY <1>1, <1>2, <1>3, <1>4 DEF Heard
    <3>4. Executions(n)' = Executions(n)
      BY <1>1 DEF Executions
    <3> QED
      BY <3>1, <3>2, <3>3, <3>4
  <2>2. ASSUME NEW n \in Nodes, Executions(n)' = {}
        PROVE  IF IsFanIn(n)
               THEN Heard(n)' \subseteq buffer'[n] /\ {execs'[y].node : y \in buffer'[n]} # Deps(n)
               ELSE Heard(n)' = {}
    BY <1>1, <2>1, <2>2 DEF Waiting
  <2> QED
    BY <1>3, <2>1, <2>2 DEF Waiting
<1> QED
  BY <1>5, <1>6

LEMMA OnceBegin ==
  ASSUME Types, EachOnce, Waiting, NEW x \in DOMAIN execs, Begin(x)
  PROVE  EachOnce' /\ Waiting'
<1>1. /\ Done' = Done /\ DOMAIN execs' = DOMAIN execs /\ UNCHANGED <<steps, buffer, sent>>
      /\ \A y \in DOMAIN execs : execs'[y].node = execs[y].node /\ execs'[y].from = execs[y].from
  BY BeginTypes DEF Types, Begin
<1>2. /\ Nodes' = Nodes /\ StartNode' = StartNode
      /\ \A k : Deps(k)' = Deps(k) /\ (IsFanIn(k)' <=> IsFanIn(k)) /\ Kind(k)' = Kind(k)
  BY <1>1, ShapeStays
<1>3. /\ Done \subseteq DOMAIN execs
      /\ \A n \in Nodes : buffer[n] \subseteq Done
      /\ \A y \in DOMAIN execs : execs[y].from \subseteq Done
  BY DEF Types, EngineTypes, Done
<1>4. EachOnce'
  <2>1. ASSUME NEW y \in DOMAIN execs
        PROVE  {execs'[z].node : z \in execs'[y].from} = {execs[z].node : z \in execs[y].from}
    BY <1>1, <1>3
  <2> QED
    BY <1>1, <1>2, <2>1 DEF EachOnce
<1>5. Waiting'
  <2>1. ASSUME NEW n \in Nodes
        PROVE  /\ \A y \in buffer[n] : execs'[y].node \in Deps(n)
               /\ {execs'[y].node : y \in buffer[n]} = {execs[y].node : y \in buffer[n]}
               /\ Heard(n)' = Heard(n)
               /\ Executions(n)' = Executions(n)
    <3>1. \A y \in buffer[n] : execs'[y].node \in Deps(n)
      BY <1>1, <1>3 DEF Waiting
    <3>2. {execs'[y].node : y \in buffer[n]} = {execs[y].node : y \in buffer[n]}
      BY <1>1, <1>3
    <3>3. Heard(n)' = Heard(n)
      BY <1>1, <1>2, <1>3 DEF Heard
    <3>4. Executions(n)' = Executions(n)
      BY <1>1 DEF Executions
    <3> QED
      BY <3>1, <3>2, <3>3, <3>4
  <2>2. ASSUME NEW n \in Nodes, Executions(n)' = {}
        PROVE  IF IsFanIn(n)
               THEN Heard(n)' \subseteq buffer[n] /\ {execs'[y].node : y \in buffer[n]} # Deps(n)
               ELSE Heard(n)' = {}
    BY <2>1, <2>2 DEF Waiting
  <2> QED
    BY <1>1, <1>2, <2>1, <2>2 DEF Waiting
<1> QED
  BY <1>4, <1>5

LEMMA OnceStep ==
  ASSUME Types, EachOnce, Waiting, Unconditional, ValidatesExactly, [WorkflowNext]_allVars
  PROVE  EachOnce' /\ Waiting'
<1>1. ASSUME NEW x \in DOMAIN execs,
             Complete(x) \/ Fail(x) \/ \E b \in Labels(execs[x].node) : Choose(x, b)
      PROVE  EachOnce' /\ Waiting'
  <2>1. PICK m \in Messages, event \in {"node_complete", "node_error"}, out \in SUBSET Nodes :
             Ends(x, m, event, out)
    BY <1>1, HandlerEnds DEF Types
  <2> QED
    BY <2>1, OnceEnds
<1>2. CASE Deliver /\ verdict = "valid"
  BY <1>2, AcyclicHolds, OnceDeliver DEF ValidatesExactly, Search!ValidatesExactly
<1>3. CASE UNCHANGED <<steps, execs, sent, buffer>>
  <2>1. /\ Nodes' = Nodes /\ StartNode' = StartNode /\ Done' = Done
        /\ \A k : Deps(k)' = Deps(k) /\ (IsFanIn(k)' <=> IsFanIn(k)) /\ Kind(k)' = Kind(k)
    BY <1>3, ShapeStays DEF Done
  <2>2. EachOnce'
    BY <1>3, <2>1 DEF EachOnce
  <2>3. \A n \in Nodes : Heard(n)' = Heard(n) /\ Executions(n)' = Executions(n)
    BY <1>3, <2>1 DEF Heard, Executions
  <2>4. Waiting'
    BY <1>3, <2>1, <2>3 DEF Waiting
  <2> QED
    BY <2>2, <2>4
<1> QED
  BY <1>1, <1>2, <1>3, EngineCases, OnceBegin

\* A runner that has converged got a workflow that passed the search, and has nothing
\* left to deliver.
LEMMA RestStep ==
  ASSUME AtRest /\ (engine = "converged" => verdict = "valid"), [WorkflowNext]_allVars
  PROVE  AtRest' /\ (engine = "converged" => verdict = "valid")'
<1>1. CASE engine' = "converged" /\ engine # "converged"
  <2>1. Built(Next)
    BY <1>1 DEF WorkflowNext, Validate, BuildFails, Answers, Over, vars, allVars
  <2>2. ~Execute
    BY <1>1 DEF Execute, Outcome, Begin, Complete, Fail, Raise, Choose, Close
  <2>3. Converge
    BY <1>1, <2>1, <2>2 DEF Built, Next, Deliver, GiveUp, ReadEvent, Finish, Disconnect, Over,
                            engineVars, vars
  <2>4. sent' = {} /\ execs' = execs /\ Done = DOMAIN execs
    BY <2>3 DEF Converge, RoundOver, Done
  <2> QED
    BY <2>1, <2>4 DEF Built, searchVars, AtRest, Done
<1>2. CASE engine = "converged" /\ engine' = "converged"
  <2>1. ~Execute /\ ~Deliver /\ ~Converge /\ ~GiveUp
    BY <1>2 DEF Execute, Outcome, Begin, Complete, Fail, Raise, Choose, Running, Deliver, Converge,
                GiveUp, RoundOver
  <2>2. UNCHANGED <<execs, sent>>
    BY <2>1 DEF WorkflowNext, Built, Next, ReadEvent, Finish, Disconnect, Validate, BuildFails,
                Answers, Over, engineVars, vars, allVars
  <2>3. verdict' = verdict
    BY <1>2 DEF WorkflowNext, Built, Validate, BuildFails, Answers, Over, allVars, searchVars,
                Search!Start, Search!Look, Search!Leave, Search!Return
  <2> QED
    BY <1>2, <2>2, <2>3 DEF AtRest, Done
<1> QED
  BY <1>1, <1>2 DEF AtRest

LEMMA OnceTells ==
  ASSUME Types, EachOnce, Waiting, AtRest, engine = "converged" => verdict = "valid",
         Unconditional, ValidatesExactly
  PROVE  RunsOnce
<1>1. \A n \in Nodes : Cardinality(Executions(n)) <= 1
  <2> SUFFICES ASSUME NEW n \in Nodes PROVE Cardinality(Executions(n)) <= 1
    OBVIOUS
  <2>1. CASE Executions(n) = {}
    <3>1. Cardinality({}) = 0 /\ 0 <= 1
      BY FS_EmptySet
    <3> QED
      BY <2>1, <3>1
  <2>2. ASSUME NEW x \in Executions(n) PROVE Cardinality(Executions(n)) <= 1
    <3>1. Executions(n) = {x}
      BY <2>2 DEF Executions, EachOnce
    <3>2. Cardinality({x}) = 1 /\ 1 <= 1
      BY FS_Singleton
    <3> QED
      BY <3>1, <3>2
  <2> QED
    BY <2>1, <2>2
<1>2. ASSUME Connected, EndsAreLast, engine = "converged",
             NEW k \in Nodes, Executions(k) = {}
      PROVE  FALSE
  <2> DEFINE U == {n \in Nodes : Executions(n) = {}}
  <2>1. Acyclic /\ sent = {} /\ Done = DOMAIN execs
    BY <1>2, AcyclicHolds DEF AtRest, ValidatesExactly, Search!ValidatesExactly
  <2>2. PICK n \in U : Deps(n) \cap U = {}
    BY <1>2, <2>1 DEF Acyclic
  <2>3. n \in Nodes \ {StartNode} /\ Executions(n) = {}
    BY <2>2 DEF EachOnce, Executions
  <2>4. Deps(n) # {}
    <3>1. {n} \in SUBSET (Nodes \ {StartNode}) /\ {n} # {}
      BY <2>3
    <3> QED
      BY <1>2, <3>1 DEF Connected
  <2>5. ASSUME NEW d \in Deps(n)
        PROVE  \E x \in Heard(n) : execs[x].node = d
    <3>1. d \in Nodes /\ n \in Downstream(d)
      BY <2>3 DEF Deps, Downstream
    <3>2. Kind(d) # "end"
      BY <1>2, <3>1 DEF EndsAreLast
    <3>3. PICK x \in DOMAIN execs : execs[x].node = d
      BY <2>2, <3>1 DEF Executions
    <3> QED
      BY <2>1, <3>2, <3>3 DEF Heard
  <2>6. CASE ~IsFanIn(n)
    BY <2>3, <2>4, <2>5, <2>6 DEF Waiting
  <2>7. CASE IsFanIn(n)
    <3>1. Heard(n) \subseteq buffer[n] /\ {execs[x].node : x \in buffer[n]} # Deps(n)
      BY <2>3, <2>7 DEF Waiting
    <3>2. \A x \in buffer[n] : execs[x].node \in Deps(n)
      BY <2>3 DEF Waiting
    <3> QED
      BY <2>5, <3>1, <3>2
  <2> QED
    BY <2>6, <2>7
<1> QED
  BY <1>1, <1>2 DEF RunsOnce

EngineOnce ==
    /\ Unconditional => EachOnce /\ Waiting
    /\ AtRest /\ (engine = "converged" => verdict = "valid")

LEMMA OnceAlways == WorkflowSpec => []EngineOnce
<1>1. WorkflowInit \/ AgentRuns => EngineOnce
  <2>1. Init => AtRest /\ engine # "converged"
    BY DEF Init, AtRest
  <2> QED
    BY <2>1, OnceInit DEF WorkflowInit, AgentRuns, EngineOnce
<1>2. Types /\ ValidatesExactly /\ EngineOnce /\ [WorkflowNext]_allVars => EngineOnce'
  <2> SUFFICES ASSUME Types, ValidatesExactly, EngineOnce, [WorkflowNext]_allVars PROVE EngineOnce'
    OBVIOUS
  <2>1. Unconditional' <=> Unconditional
    <3>1. UNCHANGED steps
      BY StepsStay
    <3> QED
      BY <3>1, ShapeStays DEF Unconditional
  <2> QED
    BY <2>1, OnceStep, RestStep DEF EngineOnce
<1> QED
  BY <1>1, <1>2, TypesAlways, RunsTheAcyclic, PTL DEF WorkflowSpec

\* Without conditions no step runs twice, whatever the graph, and a runner that
\* converges has run every step if all are reached and no End has a successor.
THEOREM StepsRunOnce == WorkflowSpec => [](Unconditional => RunsOnce)
<1>1. Types /\ ValidatesExactly /\ EngineOnce => (Unconditional => RunsOnce)
  BY OnceTells DEF EngineOnce
<1> QED
  BY <1>1, TypesAlways, RunsTheAcyclic, OnceAlways, PTL

--------------------------------------------------------------------------------
(* The verdict *)

\* An event of step n waits in sse_queue.
Pending(event, n) ==
    \E i \in 1..Len(queue) : queue[i].event = event /\ queue[i].node = n

\* Each result has reached execute_dag or is on its way to it; what a message or an
\* event names has a result.
Told ==
    \A n \in Nodes :
        /\ result[n] = "failed" => n \in seen.failed \/ Pending("node_error", n)
        /\ result[n] = "completed" => n \in seen.done \/ Pending("node_complete", n)
        /\ n \in seen.done \/ Pending("node_complete", n) => result[n] # "pending"
        /\ \A o \in DOMAIN heap :
              n \in heap[o].done \cup heap[o].skipped => result[n] # "pending"

\* Without conditions a step's first result is its last.
FirstIsLast ==
    \A n \in Nodes :
        /\ result[n] # "skipped"
        /\ result[n] # "pending" => \E x \in Done : execs[x].node = n
        /\ n \in seen.failed \/ Pending("node_error", n) => result[n] = "failed"
        /\ \A o \in DOMAIN heap : n \in heap[o].failed => result[n] = "failed"

\* The last write of execute_dag is the verdict on what the run has told it.
Concluded ==
    /\ reader = "finished" => engine # "running"
    /\ run = "completed" => reader = "finished" /\ engine = "converged"
    /\ reader = "finished" /\ engine = "converged" =>
          queue = <<>> /\ run = IF AllOk THEN "completed" ELSE "failed"

LEMMA ToldInit == Init => Told /\ FirstIsLast /\ Concluded
<1> SUFFICES ASSUME Init PROVE Told /\ FirstIsLast /\ Concluded
  OBVIOUS
<1>1. DOMAIN heap = {1} /\ heap[1].done = {} /\ heap[1].failed = {} /\ heap[1].skipped = {}
  BY DEF Init, Message
<1>2. /\ \A n \in Nodes : result[n] = "pending"
      /\ Len(queue) = 0 /\ seen.done = {} /\ seen.failed = {} /\ run = "running"
      /\ reader = "reading"
  BY DEF Init
<1> QED
  BY <1>1, <1>2 DEF Told, FirstIsLast, Concluded, Pending

\* execute_dag takes the oldest event of its queue and no other.
LEMMA Reads ==
  ASSUME Types, ReadEvent
  PROVE  /\ UNCHANGED <<steps, execs, heap, result>>
         /\ \A event \in {"node_complete", "node_error"}, n \in Nodes :
               Pending(event, n) <=> Pending(event, n)' \/ Head(queue) = [event |-> event, node |-> n]
         /\ \A n \in Nodes :
               /\ n \in seen'.done <=>
                     n \in seen.done \/ Head(queue) = [event |-> "node_complete", node |-> n]
               /\ n \in seen'.failed <=>
                     n \in seen.failed \/ Head(queue) = [event |-> "node_error", node |-> n]
<1>1. queue \in Seq(Events) /\ queue # <<>> /\ queue' = Tail(queue) /\ seen' = Noted(Head(queue))
      /\ UNCHANGED <<steps, execs, heap, result>>
  BY DEF ReadEvent, Types, ReaderTypes, engineVars
<1> DEFINE h == Head(queue)
<1>2. /\ Len(queue) \in Nat \ {0} /\ h \in Events /\ h = queue[1]
      /\ Len(queue') = Len(queue) - 1
      /\ \A i \in 1..Len(queue') : queue'[i] = queue[i + 1]
  BY <1>1, HeadTailProperties, EmptySeq
<1> HIDE DEF h
<1>3. \A event \in {"node_complete", "node_error"}, n \in Nodes :
          h = [event |-> event, node |-> n] <=> h.event = event /\ h.node = n
  BY <1>2 DEF Events
<1>4. ASSUME NEW event \in {"node_complete", "node_error"}, NEW n \in Nodes
      PROVE  Pending(event, n) <=> Pending(event, n)' \/ h = [event |-> event, node |-> n]
  <2>1. ASSUME Pending(event, n) PROVE Pending(event, n)' \/ h = [event |-> event, node |-> n]
    <3>1. PICK i \in 1..Len(queue) : queue[i].event = event /\ queue[i].node = n
      BY <2>1 DEF Pending
    <3>2. CASE i = 1
      BY <1>2, <1>3, <3>1, <3>2
    <3>3. CASE i # 1
      <4>1. i - 1 \in 1..Len(queue') /\ (i - 1) + 1 = i
        BY <1>2, <3>1, <3>3
      <4>2. queue'[i - 1] = queue[i]
        BY <1>2, <4>1
      <4> QED
        BY <3>1, <4>1, <4>2 DEF Pending
    <3> QED
      BY <3>2, <3>3
  <2>2. ASSUME Pending(event, n)' PROVE Pending(event, n)
    <3>1. PICK i \in 1..Len(queue') : queue'[i].event = event /\ queue'[i].node = n
      BY <2>2 DEF Pending
    <3>2. i + 1 \in 1..Len(queue)
      BY <1>2, <3>1
    <3> QED
      BY <1>2, <3>1, <3>2 DEF Pending
  <2>3. ASSUME h = [event |-> event, node |-> n] PROVE Pending(event, n)
    <3>1. 1 \in 1..Len(queue) /\ queue[1].event = event /\ queue[1].node = n
      BY <1>2, <1>3, <2>3
    <3> QED
      BY <3>1 DEF Pending
  <2> QED
    BY <2>1, <2>2, <2>3
<1>5. ASSUME NEW n \in Nodes
      PROVE  /\ n \in seen'.done <=> n \in seen.done \/ h = [event |-> "node_complete", node |-> n]
             /\ n \in seen'.failed <=> n \in seen.failed \/ h = [event |-> "node_error", node |-> n]
  <2>1. ASSUME NEW s \in [done : SUBSET Nodes, failed : SUBSET Nodes], NEW k \in Nodes
        PROVE  /\ [s EXCEPT !.done = @ \cup {k}].done = s.done \cup {k}
               /\ [s EXCEPT !.done = @ \cup {k}].failed = s.failed
               /\ [s EXCEPT !.failed = @ \cup {k}].failed = s.failed \cup {k}
               /\ [s EXCEPT !.failed = @ \cup {k}].done = s.done
    OBVIOUS
  <2>2. seen \in [done : SUBSET Nodes, failed : SUBSET Nodes] /\ h.node \in Nodes
        /\ h.event \in {"node_complete", "node_error"}
    BY <1>2 DEF Types, ReaderTypes, Events
  <2>3. /\ h.event = "node_complete" => seen'.done = seen.done \cup {h.node} /\ seen'.failed = seen.failed
        /\ h.event = "node_error" => seen'.failed = seen.failed \cup {h.node} /\ seen'.done = seen.done
    BY <1>1, <2>1, <2>2 DEF Noted, h
  <2> QED
    BY <1>3, <2>2, <2>3
<1> QED
  BY <1>1, <1>4, <1>5 DEF h

LEMMA ToldEnds ==
  ASSUME Types, Told, NEW x \in DOMAIN execs, NEW m \in Messages,
         NEW event \in {"node_complete", "node_error"}, NEW out \in SUBSET Nodes,
         Ends(x, m, event, out)
  PROVE  /\ Told'
         /\ Unconditional /\ EachOnce /\ FirstIsLast => FirstIsLast'
<1> DEFINE n == execs[x].node
           o == execs[x].obj
<1>1. /\ Done' = Done \cup {x} /\ DOMAIN execs' = DOMAIN execs /\ UNCHANGED <<steps, seen>>
      /\ \A y \in DOMAIN execs : execs'[y].node = execs[y].node
      /\ o \in DOMAIN heap /\ DOMAIN heap' = DOMAIN heap
      /\ \A a \in DOMAIN heap : heap'[a] = IF a = o THEN m ELSE heap[a]
      /\ Len(queue') = Len(queue) + 1 /\ queue'[Len(queue) + 1] = [event |-> event, node |-> n]
      /\ \A i \in 1..Len(queue) : queue'[i] = queue[i]
  <2>1. Closes(x, m, event) /\ result' \in [Nodes -> Results]
    BY DEF Ends
  <2>2. Closed(x, m, event)
    BY <2>1, CloseTypes
  <2> QED
    BY <2>2 DEF Closed
<1>2. /\ m.done = IF event = "node_complete" THEN heap[o].done \cup {n} ELSE heap[o].done
      /\ m.failed = IF event = "node_complete" THEN heap[o].failed ELSE heap[o].failed \cup {n}
      /\ m.skipped = heap[o].skipped \cup out
      /\ result'[n] = IF event = "node_complete" THEN "completed" ELSE "failed"
      /\ \A k \in Nodes \ {n} : result'[k] = IF k \in out THEN "skipped" ELSE result[k]
      /\ n \notin out /\ (out # {} => n \in Conditions)
  BY DEF Ends
<1>3. Nodes' = Nodes /\ n \in Nodes /\ Done \subseteq DOMAIN execs /\ x \notin Done
  <2>1. execs[x] \in ExecRecords
    BY DEF Types, EngineTypes
  <2>2. execs[x].state = "running"
    BY DEF Ends, Closes
  <2> QED
    BY <1>1, <2>1, <2>2, GraphStays DEF ExecRecords, Done
<1>4. \A ev \in {"node_complete", "node_error"}, k \in Nodes :
          Pending(ev, k)' <=> Pending(ev, k) \/ (ev = event /\ k = n)
  <2>1. Len(queue) \in Nat
    BY DEF Types, ReaderTypes
  <2>2. 1..Len(queue') = 1..Len(queue) \cup {Len(queue) + 1}
    BY <1>1, <2>1
  <2>3. queue'[Len(queue) + 1].event = event /\ queue'[Len(queue) + 1].node = n
    BY <1>1
  <2> QED
    BY <1>1, <2>2, <2>3 DEF Pending
<1>5. ASSUME NEW k \in Nodes
      PROVE  /\ result'[k] = "failed" => k \in seen.failed \/ Pending("node_error", k)'
             /\ result'[k] = "completed" => k \in seen.done \/ Pending("node_complete", k)'
             /\ k \in seen.done \/ Pending("node_complete", k)' => result'[k] # "pending"
             /\ \A a \in DOMAIN heap : k \in heap'[a].done \cup heap'[a].skipped => result'[k] # "pending"
  <2>1. CASE k = n
    BY <1>2, <1>4, <2>1
  <2>2. CASE k # n
    <3>1. result'[k] = IF k \in out THEN "skipped" ELSE result[k]
      BY <1>2, <2>2
    <3>2. \A a \in DOMAIN heap : k \in heap'[a].done \cup heap'[a].skipped =>
              k \in out \/ k \in heap[a].done \cup heap[a].skipped
      BY <1>1, <1>2, <2>2
    <3>3. \A ev \in {"node_complete", "node_error"} : Pending(ev, k)' <=> Pending(ev, k)
      BY <1>4, <2>2
    <3> QED
      BY <3>1, <3>2, <3>3 DEF Told
  <2> QED
    BY <2>1, <2>2
<1>6. Told'
  BY <1>1, <1>3, <1>5 DEF Told
<1>7. ASSUME Unconditional, EachOnce, FirstIsLast PROVE FirstIsLast'
  <2>1. out = {}
    BY <1>2, <1>7 DEF Unconditional
  <2>2. result[n] = "pending"
    BY <1>3, <1>7 DEF FirstIsLast, EachOnce
  <2>3. ASSUME NEW k \in Nodes
        PROVE  /\ result'[k] # "skipped"
               /\ result'[k] # "pending" => \E y \in Done \cup {x} : execs'[y].node = k
               /\ k \in seen.failed \/ Pending("node_error", k)' => result'[k] = "failed"
               /\ \A a \in DOMAIN heap : k \in heap'[a].failed => result'[k] = "failed"
    <3>1. CASE k = n
      <4>1. k \notin seen.failed /\ ~Pending("node_error", k)
            /\ \A a \in DOMAIN heap : k \notin heap[a].failed
        BY <1>7, <2>2, <3>1 DEF FirstIsLast
      <4>2. \E y \in Done \cup {x} : execs'[y].node = k
        BY <1>1, <3>1
      <4>3. Pending("node_error", k)' <=> event = "node_error"
        BY <1>4, <3>1, <4>1
      <4> QED
        BY <1>1, <1>2, <3>1, <4>1, <4>2, <4>3
    <3>2. CASE k # n
      <4>1. result'[k] = result[k]
        BY <1>2, <2>1, <3>2
      <4>2. \A a \in DOMAIN heap : k \in heap'[a].failed => k \in heap[a].failed
        BY <1>1, <1>2, <3>2
      <4>3. Pending("node_error", k)' <=> Pending("node_error", k)
        BY <1>4, <3>2
      <4>4. result[k] # "pending" => \E y \in Done \cup {x} : execs'[y].node = k
        BY <1>1, <1>3, <1>7 DEF FirstIsLast
      <4> QED
        BY <1>7, <4>1, <4>2, <4>3, <4>4 DEF FirstIsLast
    <3> QED
      BY <3>1, <3>2
  <2> QED
    BY <1>1, <1>3, <2>3 DEF FirstIsLast
<1> QED
  BY <1>6, <1>7

LEMMA ToldBegin ==
  ASSUME Types, Told, NEW x \in DOMAIN execs, Begin(x)
  PROVE  Told' /\ (FirstIsLast => FirstIsLast')
<1>1. /\ Done' = Done /\ DOMAIN execs' = DOMAIN execs
      /\ \A y \in DOMAIN execs : execs'[y].node = execs[y].node
      /\ \A o \in DOMAIN heap : o \in DOMAIN heap' /\ heap'[o] = heap[o]
      /\ \A o \in DOMAIN heap' : o \in DOMAIN heap
            \/ heap'[o] = Merged({execs[y].obj : y \in execs[x].from})
  BY BeginTypes DEF Types
<1>2. UNCHANGED <<steps, result, seen, queue>> /\ Nodes' = Nodes
  BY GraphStays DEF Begin, readerVars
<1>3. ASSUME NEW o \in DOMAIN heap', NEW n
      PROVE  /\ n \in heap'[o].done => \E a \in DOMAIN heap : n \in heap[a].done
             /\ n \in heap'[o].failed => \E a \in DOMAIN heap : n \in heap[a].failed
             /\ n \in heap'[o].skipped => \E a \in DOMAIN heap : n \in heap[a].skipped
  <2>1. CASE o \in DOMAIN heap
    BY <1>1, <2>1
  <2>2. CASE o \notin DOMAIN heap
    <3> DEFINE O == {execs[y].obj : y \in execs[x].from}
    <3>1. O \subseteq DOMAIN heap
      <4> SUFFICES ASSUME NEW y \in execs[x].from PROVE execs[y].obj \in DOMAIN heap
        OBVIOUS
      <4>1. y \in Done /\ heap \in Seq(Messages)
        BY DEF Types, EngineTypes
      <4>2. execs[y] \in ExecRecords /\ execs[y].obj # 0 /\ execs[y].obj <= Len(heap)
        BY <4>1 DEF Types, EngineTypes, Done
      <4> QED
        BY <4>1, <4>2 DEF ExecRecords
    <3>2. heap'[o] = Merged(O)
      BY <1>1, <2>2
    <3> HIDE DEF O
    <3>3. /\ heap'[o].done = UNION {heap[a].done : a \in O}
          /\ heap'[o].failed = UNION {heap[a].failed : a \in O}
          /\ heap'[o].skipped = UNION {heap[a].skipped : a \in O}
      BY <3>2 DEF Merged, Message
    <3> QED
      BY <3>1, <3>3
  <2> QED
    BY <2>1, <2>2
<1>4. \A event, n : Pending(event, n)' <=> Pending(event, n)
  BY <1>2 DEF Pending
<1>5. Told'
  BY <1>2, <1>3, <1>4 DEF Told
<1>6. ASSUME FirstIsLast PROVE FirstIsLast'
  <2>1. Done \subseteq DOMAIN execs
    BY DEF Done
  <2> QED
    BY <1>1, <1>2, <1>3, <1>4, <1>6, <2>1 DEF FirstIsLast
<1> QED
  BY <1>5, <1>6

LEMMA ToldDeliver ==
  ASSUME Types, Told, Deliver
  PROVE  Told' /\ (FirstIsLast => FirstIsLast')
<1>1. /\ UNCHANGED <<steps, heap, result, queue, seen>> /\ Done' = Done
      /\ \A y \in DOMAIN execs : y \in DOMAIN execs' /\ execs'[y] = execs[y]
  BY DeliverTypes DEF Types
<1>2. Nodes' = Nodes /\ Done \subseteq DOMAIN execs /\ \A event, n : Pending(event, n)' <=> Pending(event, n)
  BY <1>1, GraphStays DEF Pending, Done
<1>3. Told'
  BY <1>1, <1>2 DEF Told
<1>4. ASSUME FirstIsLast PROVE FirstIsLast'
  BY <1>1, <1>2, <1>4 DEF FirstIsLast
<1> QED
  BY <1>3, <1>4

LEMMA ToldQuiet ==
  ASSUME Types, Told, [WorkflowNext]_allVars, UNCHANGED <<steps, execs, heap, result>>,
         ~\E x \in DOMAIN execs : Complete(x) \/ Fail(x) \/ \E b \in Labels(execs[x].node) : Choose(x, b)
  PROVE  Told' /\ (FirstIsLast => FirstIsLast')
<1>1. Nodes' = Nodes /\ Done' = Done
  BY GraphStays DEF Done
<1>2. CASE ReadEvent
  <2> DEFINE h == Head(queue)
  <2>1. /\ \A event \in {"node_complete", "node_error"}, n \in Nodes :
              Pending(event, n) <=> Pending(event, n)' \/ h = [event |-> event, node |-> n]
        /\ \A n \in Nodes :
              /\ n \in seen'.done <=> n \in seen.done \/ h = [event |-> "node_complete", node |-> n]
              /\ n \in seen'.failed <=> n \in seen.failed \/ h = [event |-> "node_error", node |-> n]
    BY <1>2, Reads
  <2> HIDE DEF h
  <2>2. \A n \in Nodes :
           /\ n \in seen'.done \/ Pending("node_complete", n)' <=> n \in seen.done \/ Pending("node_complete", n)
           /\ n \in seen'.failed \/ Pending("node_error", n)' <=> n \in seen.failed \/ Pending("node_error", n)
    BY <2>1
  <2>3. Told'
    BY <1>1, <2>2 DEF Told
  <2>4. ASSUME FirstIsLast PROVE FirstIsLast'
    BY <1>1, <2>2, <2>4 DEF FirstIsLast
  <2> QED
    BY <2>3, <2>4
<1>3. CASE UNCHANGED <<queue, seen>>
  <2>1. \A event, n : Pending(event, n)' <=> Pending(event, n)
    BY <1>3 DEF Pending
  <2>2. Told'
    BY <1>1, <1>3, <2>1 DEF Told
  <2>3. ASSUME FirstIsLast PROVE FirstIsLast'
    BY <1>1, <1>3, <2>1, <2>3 DEF FirstIsLast
  <2> QED
    BY <2>2, <2>3
<1>4. ReadEvent \/ UNCHANGED <<queue, seen>>
  <2>1. CASE Execute
    BY <2>1 DEF Execute, Outcome, Begin, Raise, readerVars
  <2> QED
    BY <2>1 DEF WorkflowNext, Built, Next, Deliver, Converge, GiveUp, Finish, Disconnect, Over, Validate,
                BuildFails, Answers, readerVars, vars, allVars
<1> QED
  BY <1>2, <1>3, <1>4

LEMMA ToldStep ==
  ASSUME Types, Told, [WorkflowNext]_allVars
  PROVE  /\ Told'
         /\ Unconditional /\ EachOnce /\ FirstIsLast => FirstIsLast'
<1>1. ASSUME NEW x \in DOMAIN execs,
             Complete(x) \/ Fail(x) \/ \E b \in Labels(execs[x].node) : Choose(x, b)
      PROVE  /\ Told'
             /\ Unconditional /\ EachOnce /\ FirstIsLast => FirstIsLast'
  <2>1. PICK m \in Messages, event \in {"node_complete", "node_error"}, out \in SUBSET Nodes :
             Ends(x, m, event, out)
    BY <1>1, HandlerEnds DEF Types
  <2> QED
    BY <2>1, ToldEnds
<1> QED
  BY <1>1, EngineCases, ToldBegin, ToldDeliver, ToldQuiet

\* Once the reader has finished and the runner has converged nothing moves that the
\* verdict rests on.
LEMMA ConcludedStep ==
  ASSUME Concluded, [WorkflowNext]_allVars
  PROVE  Concluded'
<1>1. CASE Finish
  <2>1. /\ queue' = <<>> /\ run' = (IF AllOk THEN "completed" ELSE "failed") /\ reader' = "finished"
        /\ UNCHANGED <<steps, execs, heap, engine, yielded, seen>>
    BY <1>1 DEF Finish, engineVars
  <2>2. AllOk' <=> AllOk
    BY <2>1 DEF AllOk, FinalMessage, Message, Nodes
  <2>3. (AllOk => engine = "converged") /\ engine # "running"
    BY <1>1 DEF AllOk, Finish, RunTaskDone
  <2> QED
    BY <2>1, <2>2, <2>3 DEF Concluded
<1>2. CASE reader = "finished" /\ engine = "converged" /\ ~Finish
  <2>1. ~Execute /\ ~Deliver /\ ~Converge /\ ~GiveUp /\ ~ReadEvent /\ ~Disconnect /\ ~BuildFails
    BY <1>2 DEF Execute, Outcome, Begin, Complete, Fail, Raise, Choose, Running, Deliver, Converge,
                GiveUp, RoundOver, ReadEvent, Disconnect, BuildFails
  <2>2. UNCHANGED vars
    BY <1>2, <2>1 DEF WorkflowNext, Built, Next, Validate, Answers, Over, allVars
  <2>3. AllOk' <=> AllOk
    BY <2>2 DEF AllOk, FinalMessage, Message, Nodes, vars
  <2> QED
    BY <2>2, <2>3 DEF Concluded, vars
<1>3. CASE ~(reader = "finished" /\ engine = "converged") /\ ~Finish
  <2>1. run # "completed"
    BY <1>3 DEF Concluded
  <2>2. /\ run' # "completed" /\ ~(reader' = "finished" /\ engine' = "converged")
        /\ reader' = "finished" => engine' # "running"
    <3>1. CASE Execute
      <4>1. UNCHANGED <<run, reader>> /\ engine' # "converged" /\ engine = "running"
        BY <3>1 DEF Execute, Outcome, Begin, Complete, Fail, Raise, Choose, Close, Running, readerVars
      <4> QED
        BY <2>1, <4>1 DEF Concluded
    <3>2. CASE Deliver \/ Converge \/ GiveUp
      <4>1. UNCHANGED <<run, reader>> /\ engine = "running"
        BY <3>2 DEF Deliver, Converge, GiveUp, RoundOver, readerVars
      <4> QED
        BY <2>1, <4>1 DEF Concluded
    <3> QED
      BY <1>3, <2>1, <3>1, <3>2 DEF Concluded, WorkflowNext, Built, Next, ReadEvent, Disconnect, Over,
                  Validate, BuildFails, Answers, readerVars, engineVars, vars, allVars
  <2> QED
    BY <2>2 DEF Concluded
<1> QED
  BY <1>1, <1>2, <1>3

\* What the verdict reads from the first output of an End.
LEMMA OutputTypes ==
  ASSUME Types
  PROVE  \/ FinalMessage.done = {} /\ FinalMessage.failed = {} /\ FinalMessage.skipped = {}
         \/ \E o \in DOMAIN heap : FinalMessage = heap[o]
<1>1. CASE engine = "converged" /\ yielded # <<>>
  <2>1. yielded[1] \in Done
    <3>1. 1 \in DOMAIN yielded
      BY <1>1, EmptySeq DEF Types, EngineTypes
    <3> QED
      BY <3>1 DEF Types, EngineTypes
  <2>2. execs[yielded[1]] \in ExecRecords /\ execs[yielded[1]].obj # 0
        /\ execs[yielded[1]].obj <= Len(heap)
    BY <2>1 DEF Types, EngineTypes, Done
  <2>3. execs[yielded[1]].obj \in DOMAIN heap
    <3>1. heap \in Seq(Messages)
      BY DEF Types, EngineTypes
    <3> QED
      BY <2>2, <3>1 DEF ExecRecords
  <2> QED
    BY <1>1, <2>3 DEF FinalMessage
<1>2. CASE ~(engine = "converged" /\ yielded # <<>>)
  BY <1>2 DEF FinalMessage, Message
<1> QED
  BY <1>1, <1>2

LEMMA VerdictTells ==
  ASSUME Types, Told, Concluded, Unconditional => FirstIsLast
  PROVE  VerdictHonest
<1>1. \A n \in Nodes : result[n] \in Results
  BY DEF Types, EngineTypes
<1>2. ASSUME queue = <<>> PROVE \A event, n : ~Pending(event, n)
  BY <1>2 DEF Pending
<1>3. ASSUME run = "completed", NEW n \in Nodes
      PROVE  result[n] \in {"completed", "skipped"}
  <2>1. queue = <<>> /\ AllOk
    BY <1>3 DEF Concluded
  <2>2. /\ n \in seen.done \/ n \in FinalMessage.done \cup FinalMessage.skipped
        /\ n \notin seen.failed
    BY <1>3, <2>1 DEF AllOk
  <2>3. result[n] # "pending"
    BY <2>2, OutputTypes DEF Told
  <2>4. result[n] # "failed"
    BY <1>2, <2>1, <2>2 DEF Told
  <2> QED
    BY <1>1, <2>3, <2>4 DEF Results
<1>4. ASSUME Unconditional, reader = "finished", engine = "converged",
             \A n \in Nodes : result[n] = "completed"
      PROVE  run = "completed"
  <2>1. queue = <<>>
    BY <1>4 DEF Concluded
  <2>2. \A n \in Nodes : n \in seen.done /\ n \notin seen.failed
    BY <1>2, <1>4, <2>1 DEF Told, FirstIsLast
  <2>3. seen.done \in SUBSET Nodes /\ seen.failed \in SUBSET Nodes
    BY DEF Types, ReaderTypes
  <2>4. /\ FinalMessage.done \cup FinalMessage.skipped \subseteq Nodes
        /\ FinalMessage.failed = {}
    <3>1. ASSUME NEW o \in DOMAIN heap
          PROVE  heap[o].done \cup heap[o].skipped \subseteq Nodes /\ heap[o].failed = {}
      <4>1. heap[o] \in Messages
        BY DEF Types, EngineTypes
      <4>2. \A n \in Nodes : n \notin heap[o].failed
        BY <1>4 DEF FirstIsLast
      <4> QED
        BY <4>1, <4>2 DEF Messages
    <3> QED
      BY <3>1, OutputTypes
  <2>5. AllOk
    BY <1>4, <2>2, <2>3, <2>4 DEF AllOk
  <2> QED
    BY <1>4, <2>5 DEF Concluded
<1>5. ASSUME Unconditional, run = "completed", NEW n \in Nodes
      PROVE  result[n] = "completed"
  BY <1>3, <1>5 DEF FirstIsLast
<1> QED
  BY <1>3, <1>4, <1>5 DEF VerdictHonest

\* A run ends "completed" only if every step completed or was skipped by a condition,
\* and without conditions exactly if every step completed: no failure is lost between
\* the messages, the events and the row.
THEOREM VerdictsAreHonest == WorkflowSpec => []VerdictHonest
<1> DEFINE Honest == Told /\ Concluded /\ (Unconditional => FirstIsLast)
<1>1. WorkflowInit \/ AgentRuns => Honest
  BY ToldInit DEF WorkflowInit, AgentRuns
<1>2. Types /\ EngineOnce /\ Honest /\ [WorkflowNext]_allVars => Honest'
  <2> SUFFICES ASSUME Types, EngineOnce, Honest, [WorkflowNext]_allVars PROVE Honest'
    OBVIOUS
  <2>1. Unconditional' <=> Unconditional
    <3>1. UNCHANGED steps
      BY StepsStay
    <3> QED
      BY <3>1, ShapeStays DEF Unconditional
  <2> QED
    BY <2>1, ToldStep, ConcludedStep DEF EngineOnce
<1>3. Types /\ Honest => VerdictHonest
  BY VerdictTells
<1> HIDE DEF Honest
<1> QED
  BY <1>1, <1>2, <1>3, TypesAlways, OnceAlways, PTL DEF WorkflowSpec
================================================================================
