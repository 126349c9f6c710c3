-------------------------- MODULE PromptOptimizer --------------------------
(***************************************************************************)
(* Optimization runs of one agent, and the evaluation runs they and the    *)
(* user start (optimizer, eval_engine, eval_router, optimizer_router, the  *)
(* weekly and the daily job of main).  Each run is a task that nothing     *)
(* resumes after a stop.  Over SQLite a task goes from one call of a       *)
(* language model to the next in one piece; over MongoDB it suspends at    *)
(* every call (two updates of a run's own row in a row are one step).      *)
(***************************************************************************)
EXTENDS Naturals

CONSTANTS Runs,     \* optimization runs
          Users     \* evaluation runs that a user starts

VARIABLES
    store,  \* the application's database
    up,     \* the process runs
    have,   \* which exist of: the agent, its provider, the suite of test cases
    opt,    \* each optimization run: its task and its row
    ev,     \* each evaluation run: its task and its row
    judge   \* over MongoDB, the verdicts under way on a proposal

vars == <<store, up, have, opt, ev, judge>>

Nested == Runs \X {"baseline", "proposed"}
Evals == Nested \cup Users \X {"own"}

NoRun == [pc |-> "none", status |-> "none", suite |-> FALSE, patterns |-> FALSE, prompt |-> FALSE,
          base |-> "none", prop |-> "none", lost |-> FALSE]
NoEval == [pc |-> "none", status |-> "none", score |-> "none", open |-> FALSE, held |-> TRUE]

Init ==
    /\ store \in {"sqlite", "mongo"} /\ up = TRUE
    /\ have = {"agent", "provider", "suite"}
    /\ opt = [r \in Runs |-> NoRun]
    /\ ev = [e \in Evals |-> NoEval]
    /\ judge = [r \in Runs |-> {}]

-----------------------------------------------------------------------------
(* The evaluation engine: run_eval_suite_sqlite and run_eval_suite_mongo. *)

\* An update of a row that is gone changes nothing.
Row(x, status) == IF x.status = "gone" THEN x ELSE [x EXCEPT !.status = status]

\* It needs the suite, the agent and the agent's provider before the first case.
Loaded(x) == IF have = {"agent", "provider", "suite"} THEN [x EXCEPT !.pc = "cases"]
             ELSE [Row(x, "failed") EXCEPT !.pc = "done"]

EvalBegins(e) ==
    /\ store = "sqlite" /\ ev[e].pc = "begin"
    /\ ev' = [ev EXCEPT ![e] = IF @.status = "gone" THEN [@ EXCEPT !.pc = "done"]
                               ELSE Loaded(Row(@, "running"))]
    /\ UNCHANGED <<store, up, have, opt, judge>>

EvalBeginsMongo(e) ==
    /\ store = "mongo" /\ ev[e].pc = "begin"
    /\ ev' = [ev EXCEPT ![e] = [Row(@, "running") EXCEPT !.pc = IF ev[e].status = "gone" THEN "done" ELSE "load"]]
    /\ UNCHANGED <<store, up, have, opt, judge>>

EvalLoads(e) ==
    /\ ev[e].pc = "load"
    /\ ev' = [ev EXCEPT ![e] = Loaded(@)]
    /\ UNCHANGED <<store, up, have, opt, judge>>

\* Every case has been answered and graded; a case that fails is a case not passed.
Graded(x) ==
    {[x EXCEPT !.pc = "done", !.status = "completed", !.score = score] : score \in {"low", "high"}}

\* Over SQLite the row is written only through a session that holds it: a row deleted meanwhile
\* breaks the session, and one detached by the end of the request that started the run is not
\* written.
EvalCompletesSqlite(e) ==
    /\ store = "sqlite" /\ ev[e].pc = "cases"
    /\ \E x \in IF ev[e].status = "gone" \/ ~ev[e].held THEN {[ev[e] EXCEPT !.pc = "done"]}
              ELSE Graded(ev[e]) : ev' = [ev EXCEPT ![e] = x]
    /\ UNCHANGED <<store, up, have, opt, judge>>

EvalCompletesMongo(e) ==
    /\ store = "mongo" /\ ev[e].pc = "cases"
    /\ \E x \in IF ev[e].status = "gone" THEN {[ev[e] EXCEPT !.pc = "done"]} ELSE Graded(ev[e]) :
         ev' = [ev EXCEPT ![e] = x]
    /\ UNCHANGED <<store, up, have, opt, judge>>

\* What cannot be turned into a provider, or read as cases, fails the run.
EvalFails(e) ==
    /\ ev[e].pc = "cases"
    /\ ev' = [ev EXCEPT ![e] = [(IF @.held THEN Row(@, "failed") ELSE @) EXCEPT !.pc = "done"]]
    /\ UNCHANGED <<store, up, have, opt, judge>>

-----------------------------------------------------------------------------
(* Evaluations a user starts. *)

\* trigger_run hands the session of its request to the task.
StartEval(u) ==
    /\ up /\ "suite" \in have
    /\ ev[<<u, "own">>].pc = "none"
    /\ ev' = [ev EXCEPT ![<<u, "own">>] = [NoEval EXCEPT !.pc = "begin", !.status = "pending",
                                                         !.open = (store = "sqlite")]]
    /\ UNCHANGED <<store, up, have, opt, judge>>

\* get_db closes it when the request ends; a task that has not begun will read the row anew.
RequestEnds(u) ==
    /\ ev[<<u, "own">>].open
    /\ ev' = [ev EXCEPT ![<<u, "own">>] = [@ EXCEPT !.open = FALSE, !.held = (ev[<<u, "own">>].pc = "begin")]]
    /\ UNCHANGED <<store, up, have, opt, judge>>

DeleteEval(e) ==
    /\ up /\ ev[e].status \notin {"none", "gone"}
    /\ ev' = [ev EXCEPT ![e].status = "gone"]
    /\ UNCHANGED <<store, up, have, opt, judge>>

-----------------------------------------------------------------------------
(* The optimization pipeline. *)

\* The agent is found and a row created, over MongoDB by a later call; nothing asks whether the
\* agent has a run already.
Ask(r, suites) ==
    /\ up /\ "agent" \in have /\ opt[r].pc = "none"
    /\ \E suite \in suites :
         opt' = [opt EXCEPT ![r] = IF store = "mongo" THEN [NoRun EXCEPT !.suite = suite, !.pc = "asked"]
                                   ELSE [NoRun EXCEPT !.suite = suite, !.pc = "load", !.status = "pending"]]
    /\ UNCHANGED <<store, up, have, ev, judge>>

\* trigger_optimization, with a suite to validate against or without, and the weekly job.
Trigger(r) == Ask(r, BOOLEAN)
Sweep == \E r \in Runs : Ask(r, {FALSE})

Create(r) ==
    /\ opt[r].pc = "asked"
    /\ opt' = [opt EXCEPT ![r].pc = "load", ![r].status = "pending"]
    /\ UNCHANGED <<store, up, have, ev, judge>>

Stopped(x) == [Row(x, "failed") EXCEPT !.pc = "done"]

\* Past runs of the suite may stand in for conversations that are too few.
Collected(x) == {Stopped(x), [x EXCEPT !.pc = "analyze"]}

Provided == {"agent", "provider"} \subseteq have

Load(r) ==
    /\ store = "sqlite" /\ opt[r].pc = "load"
    /\ \E y \in IF Provided THEN Collected(Row(opt[r], "analyzing")) ELSE {Stopped(opt[r])} :
         opt' = [opt EXCEPT ![r] = y]
    /\ UNCHANGED <<store, up, have, ev, judge>>

LoadMongo(r) ==
    /\ store = "mongo" /\ opt[r].pc = "load"
    /\ opt' = [opt EXCEPT ![r] = IF Provided THEN [Row(@, "analyzing") EXCEPT !.pc = "collect"]
                                 ELSE Stopped(@)]
    /\ UNCHANGED <<store, up, have, ev, judge>>

Collect(r) ==
    /\ opt[r].pc = "collect"
    /\ \E y \in Collected(opt[r]) : opt' = [opt EXCEPT ![r] = y]
    /\ UNCHANGED <<store, up, have, ev, judge>>

\* The call fails, or finds no pattern; over SQLite the next call needs the agent's row.
Analyze_Uncaught(r) ==
    /\ store = "sqlite" /\ opt[r].pc = "analyze"
    /\ \/ opt' = [opt EXCEPT ![r].pc = "done"]
       \/ opt' = [opt EXCEPT ![r] = [Row(@, "proposing") EXCEPT !.patterns = TRUE, !.pc = "propose"]]
    /\ UNCHANGED <<store, up, have, ev, judge>>
Analyzed(x) == [Row(x, "proposing") EXCEPT !.patterns = TRUE, !.pc = "propose"]
Analyze(r) ==
    /\ store = "sqlite" /\ opt[r].pc = "analyze"
    /\ \/ opt' = [opt EXCEPT ![r] = Stopped(@)]
       \/ "agent" \in have /\ opt' = [opt EXCEPT ![r] = Analyzed(@)]
    /\ UNCHANGED <<store, up, have, ev, judge>>

AnalyzeMongo(r) ==
    /\ store = "mongo" /\ opt[r].pc = "analyze"
    /\ opt' \in {[opt EXCEPT ![r] = x] : x \in {Stopped(opt[r]), Analyzed(opt[r])}}
    /\ UNCHANGED <<store, up, have, ev, judge>>

Begun(e) == [ev EXCEPT ![e] = [NoEval EXCEPT !.pc = "begin", !.status = "pending"]]
Surfaced(x) == [Row(x, "awaiting_review") EXCEPT !.pc = "span"]

\* The call fails, or answers no object or no prompt; a run without a suite is ready for review.
ProposalFails(r) ==
    /\ opt[r].pc = "propose" /\ opt' = [opt EXCEPT ![r] = Stopped(@)]
    /\ UNCHANGED <<store, up, have, ev, judge>>

Propose(r) ==
    /\ opt[r].pc = "propose" /\ ~opt[r].suite
    /\ opt' = [opt EXCEPT ![r] = Surfaced([@ EXCEPT !.prompt = TRUE])]
    /\ UNCHANGED <<store, up, have, ev, judge>>

Validate(r) ==
    /\ opt[r].pc = "propose" /\ opt[r].suite
    /\ opt' = [opt EXCEPT ![r] = [Row(@, "validating") EXCEPT !.prompt = TRUE, !.pc = "baseline"]]
    /\ ev' = Begun(<<r, "baseline">>)
    /\ UNCHANGED <<store, up, have, judge>>

\* An evaluation without a score counts as 0.0.
Score(e) == IF ev[e].score = "none" THEN "low" ELSE ev[e].score

\* The evaluation's row is read again.  One that was deleted fails the run over MongoDB; over
\* SQLite it has broken the session, and the failure itself cannot be written.
Reread(r, e, next) ==
    opt' = [opt EXCEPT ![r] = IF ev[e].status # "gone" THEN next
                              ELSE IF store = "mongo" THEN Stopped(@)
                              ELSE [@ EXCEPT !.pc = "done"]]

BaselineEnds(r) ==
    /\ opt[r].pc = "baseline" /\ ev[<<r, "baseline">>].pc = "done"
    /\ Reread(r, <<r, "baseline">>,
              [opt[r] EXCEPT !.pc = "proposed", !.base = Score(<<r, "baseline">>)])
    /\ ev' = IF opt'[r].pc = "proposed" THEN Begun(<<r, "proposed">>) ELSE ev
    /\ UNCHANGED <<store, up, have, judge>>

ProposedEnds_Early(r) ==
    /\ opt[r].pc = "proposed"
    /\ Reread(r, <<r, "proposed">>, Surfaced([opt[r] EXCEPT !.prop = Score(<<r, "proposed">>)]))
    /\ UNCHANGED <<store, up, have, ev, judge>>
ProposedEnds(r) ==
    /\ opt[r].pc = "proposed" /\ ev[<<r, "proposed">>].pc = "done"
    /\ Reread(r, <<r, "proposed">>, Surfaced([opt[r] EXCEPT !.prop = Score(<<r, "proposed">>)]))
    /\ UNCHANGED <<store, up, have, ev, judge>>

\* The trace span: an error in it is logged and goes no further.
Span_Unguarded(r) ==
    /\ opt[r].pc = "span"
    /\ opt' = [opt EXCEPT ![r] = Stopped(@)]
    /\ UNCHANGED <<store, up, have, ev, judge>>
Span(r) ==
    /\ opt[r].pc = "span"
    /\ opt' = [opt EXCEPT ![r].pc = "done"]
    /\ UNCHANGED <<store, up, have, ev, judge>>

-----------------------------------------------------------------------------
(* The review, and what goes away. *)
Decide(r, status) ==
    /\ store = "sqlite" /\ up /\ opt[r].status = "awaiting_review"
    /\ status = "accepted" => "agent" \in have
    /\ opt' = [opt EXCEPT ![r].status = status]
    /\ UNCHANGED <<store, up, have, ev, judge>>

\* Over MongoDB the row is read and written in two calls.
JudgeReads(r, status) ==
    /\ store = "mongo" /\ up /\ opt[r].status = "awaiting_review" /\ status \notin judge[r]
    /\ judge' = [judge EXCEPT ![r] = @ \cup {status}]
    /\ UNCHANGED <<store, up, have, opt, ev>>

JudgeWrites(r, status) ==
    /\ status \in judge[r]
    /\ judge' = [judge EXCEPT ![r] = @ \ {status}]
    /\ \/ UNCHANGED opt
       \/ opt' = [opt EXCEPT ![r] = Row(@, status)]
    /\ UNCHANGED <<store, up, have, ev>>

DeleteRun(r) ==
    /\ up /\ opt[r].status \notin {"none", "gone"}
    /\ opt' = [opt EXCEPT ![r].status = "gone"]
    /\ UNCHANGED <<store, up, have, ev, judge>>

\* _daily_prune, thirty days later.
Prune ==
    /\ up
    /\ \E rs \in SUBSET {r \in Runs : opt[r].status \in {"accepted", "rejected", "failed"}} :
         rs # {} /\ opt' = [r \in Runs |-> IF r \in rs THEN [opt[r] EXCEPT !.status = "gone"] ELSE opt[r]]
    /\ UNCHANGED <<store, up, have, ev, judge>>

\* delete_agent deletes the agent's optimization runs, over MongoDB by a later call.
Forgotten == [r \in Runs |-> IF opt[r].status = "none" THEN opt[r] ELSE [opt[r] EXCEPT !.status = "gone"]]
DeleteAgent ==
    /\ up /\ "agent" \in have
    /\ have' = (have \ {"agent"}) \cup (IF store = "mongo" THEN {"runs"} ELSE {})
    /\ opt' = IF store = "sqlite" THEN Forgotten ELSE opt
    /\ UNCHANGED <<store, up, ev, judge>>

DeleteAgentRuns ==
    /\ up /\ "runs" \in have
    /\ have' = have \ {"runs"} /\ opt' = Forgotten
    /\ UNCHANGED <<store, up, ev, judge>>

DeleteSuite ==
    /\ up /\ "suite" \in have /\ have' = have \ {"suite"}
    /\ UNCHANGED <<store, up, opt, ev, judge>>

DropProvider ==
    /\ up /\ "provider" \in have /\ have' = have \ {"provider"}
    /\ UNCHANGED <<store, up, opt, ev, judge>>

\* The process stops: the tasks are gone, the rows stay, and start-up looks at none of them.
Crash ==
    /\ up /\ up' = FALSE
    /\ opt' = [r \in Runs |-> IF opt[r].pc \in {"none", "done"} THEN opt[r]
                              ELSE [opt[r] EXCEPT !.pc = "done", !.lost = TRUE]]
    /\ ev' = [e \in Evals |-> IF ev[e].pc \in {"none", "done"} THEN ev[e]
                              ELSE [ev[e] EXCEPT !.pc = "done", !.open = FALSE, !.held = FALSE]]
    /\ judge' = [r \in Runs |-> {}]
    /\ have' = have \ {"runs"}
    /\ UNCHANGED store

Restart == ~up /\ up' = TRUE /\ UNCHANGED <<store, have, opt, ev, judge>>

-----------------------------------------------------------------------------
Engine(e) == \/ EvalBegins(e) \/ EvalCompletesSqlite(e)
             \/ EvalBeginsMongo(e) \/ EvalLoads(e) \/ EvalCompletesMongo(e)
             \/ EvalFails(e)
Pipeline(r) == \/ Load(r) \/ Analyze(r)
               \/ Create(r) \/ LoadMongo(r) \/ Collect(r) \/ AnalyzeMongo(r)
               \/ ProposalFails(r) \/ Propose(r) \/ Validate(r)
               \/ BaselineEnds(r) \/ ProposedEnds(r) \/ Span(r)
Verdicts == {"accepted", "rejected"}

Next ==
    \/ \E r \in Runs :
         \/ Trigger(r) \/ Pipeline(r) \/ DeleteRun(r)
         \/ \E v \in Verdicts : Decide(r, v) \/ JudgeReads(r, v) \/ JudgeWrites(r, v)
    \/ \E e \in Evals : Engine(e) \/ DeleteEval(e)
    \/ \E u \in Users : StartEval(u) \/ RequestEnds(u)
    \/ Sweep \/ Prune \/ DeleteAgent \/ DeleteAgentRuns \/ DeleteSuite \/ DropProvider
    \/ Crash \/ Restart

\* The event loop runs every task that is ready, a model's call returns or fails, a request ends.
Fairness == /\ \A r \in Runs : WF_vars(Pipeline(r))
            /\ \A e \in Evals : WF_vars(Engine(e))
            /\ \A u \in Users : WF_vars(RequestEnds(u))

Spec == Init /\ [][Next]_vars /\ Fairness

-----------------------------------------------------------------------------
(* Types. *)
Statuses == {"none", "pending", "analyzing", "proposing", "validating", "awaiting_review",
             "accepted", "rejected", "failed", "gone"}
Scores == {"none", "low", "high"}
TypeOK ==
    /\ store \in {"sqlite", "mongo"} /\ up \in BOOLEAN
    /\ have \subseteq {"agent", "provider", "suite", "runs"}
    /\ opt \in [Runs -> [pc : {"none", "asked", "load", "collect", "analyze", "propose", "baseline",
                               "proposed", "span", "done"},
                         status : Statuses, suite : BOOLEAN, patterns : BOOLEAN, prompt : BOOLEAN,
                         base : Scores, prop : Scores, lost : BOOLEAN]]
    /\ ev \in [Evals -> [pc : {"none", "begin", "load", "cases", "done"},
                         status : {"none", "pending", "running", "completed", "failed", "gone"},
                         score : Scores, open : BOOLEAN, held : BOOLEAN]]
    /\ judge \in [Runs -> SUBSET Verdicts]

(* A run that awaits review, or was reviewed, has everything the reviewer is shown: patterns, a
   prompt and, when it was validated, the scores of its two evaluations, both of which are over. *)
ReviewIsComplete ==
    \A r \in Runs : opt[r].status \in {"awaiting_review", "accepted", "rejected"} =>
      /\ opt[r].patterns /\ opt[r].prompt
      /\ opt[r].suite =>
           /\ ev[<<r, "baseline">>].pc = "done" /\ opt[r].base = Score(<<r, "baseline">>)
           /\ ev[<<r, "proposed">>].pc = "done" /\ opt[r].prop = Score(<<r, "proposed">>)

(* The pipeline never goes back on a review: once a run awaits it, its row changes only by a
   verdict or by a deletion, whatever the task that produced it still does. *)
ReviewStands ==
    [][\A r \in Runs :
         opt[r].status \in {"awaiting_review", "accepted", "rejected"} =>
           opt'[r].status \in {opt[r].status, "accepted", "rejected", "gone"}]_vars

(* Every optimization run that is started ends ready for review, failed or deleted, except when
   the process stops during it or, over SQLite, one of its evaluations is deleted. *)
RunsSettle ==
    \A r \in Runs :
      <>[](opt[r].status \in {"pending", "analyzing", "proposing", "validating"} =>
             \/ opt[r].lost
             \/ store = "sqlite" /\ \E w \in {"baseline", "proposed"} : ev[<<r, w>>].status = "gone")
=============================================================================
